------------------------------ MODULE StatsProofs ------------------------------
(***************************************************************************)
(* Theorems about EvaluationStats, for every calendar, every set of        *)
(* submissions and every finite set of revisions: what is stored of a      *)
(* period agrees with what the period holds at any later time, and what is *)
(* stored of a week is the sum of what is stored of its days.              *)
(***************************************************************************)
EXTENDS EvaluationStats, FiniteSetTheorems, TLAPS

-----------------------------------------------------------------------------
(* Months                                                                  *)

\* A bounded set of months has a last one.
LEMMA LastMonth ==
  ASSUME NEW d \in Int, NEW m \in MonthStarts, m <= d
  PROVE  /\ MonthStart(d) \in MonthStarts /\ MonthStart(d) <= d
         /\ \A n \in MonthStarts : n <= d => n <= MonthStart(d)
  <1> DEFINE T == {n .. d : n \in {k \in MonthStarts : k <= d}}
             R == StrictSubsetOrdering(Int)
  <1>1. MonthStarts \subseteq Int
    BY CalendarAssumption
  <1>2. T \subseteq FiniteSubsetsOf(Int) /\ T # {}
    BY <1>1, FS_Interval DEF FiniteSubsetsOf
  <1>w. IsWellFoundedOn(R, FiniteSubsetsOf(Int))
    BY FS_StrictSubsetOrderingWellFounded
  <1> HIDE DEF T, R
  <1>3. PICK x \in T : \A y \in T : ~(<<y, x>> \in R)
    BY <1>2, <1>w, WFMin
  <1>5. PICK k \in MonthStarts : k <= d /\ x = k .. d
    BY <1>3 DEF T
  <1>6. ASSUME NEW n \in MonthStarts, n <= d, k < n PROVE FALSE
    <2>1. n .. d \in T
      BY <1>6 DEF T
    <2>2. n .. d \subseteq x /\ k \in x /\ k \notin n .. d
      BY <1>1, <1>5, <1>6
    <2>3. <<n .. d, x>> \in R
      BY <1>2, <1>3, <2>1, <2>2 DEF R, StrictSubsetOrdering, FiniteSubsetsOf
    <2> QED BY <1>3, <2>1, <2>3
  <1>7. \A n \in MonthStarts : n <= d => n <= k
    BY <1>1, <1>6
  <1> QED BY <1>5, <1>7 DEF MonthStart

\* A period ends before today, and its first day tells its last.
LEMMA PeriodIsOver ==
  ASSUME today \in Days, NEW kind \in Kinds
  PROVE  LET p == PeriodRange(kind) IN
         /\ p.first \in PeriodStarts /\ p.last \in PeriodStarts
         /\ p.last < today /\ p.last = LastOf(kind, p.first)
  <1>0. today \in 1 .. LastDay /\ LastDay \in Nat /\ WeekDays \in Nat \ {0}
    BY CalendarAssumption DEF Days
  <1>1. CASE kind = "daily"
    BY <1>0, <1>1 DEF PeriodRange, PeriodStarts, LastOf
  <1>2. CASE kind = "weekly"
    BY <1>0, <1>2 DEF PeriodRange, PeriodStarts, LastOf
  <1>3. CASE kind = "monthly"
    <2> DEFINE now == MonthStart(today)
               before == MonthStart(now - 1)
    <2>0. PICK a \in MonthStarts, b \in MonthStarts : a < b /\ b <= 1
      BY TwoMonthsAssumption
    <2>m. MonthStarts \subseteq 1 - LastDay .. LastDay
      BY CalendarAssumption
    <2>1. /\ now \in MonthStarts /\ now <= today
          /\ \A n \in MonthStarts : n <= today => n <= now
      <3>1. today \in Int /\ b <= today
        BY <1>0, <2>0, <2>m
      <3> QED BY <3>1, LastMonth
    <2>2. /\ before \in MonthStarts /\ before <= now - 1
          /\ \A n \in MonthStarts : n <= now - 1 => n <= before
      <3>1. now - 1 \in Int /\ a <= now - 1
        <4>1. a <= today /\ b <= today /\ a \in Int /\ b \in Int
          BY <1>0, <2>0, <2>m
        <4> HIDE DEF now
        <4> QED BY <2>0, <2>1, <2>m, <4>1
      <3> QED BY <3>1, LastMonth
    <2> HIDE DEF now, before
    <2>3. LastOf("monthly", before) = now - 1
      <3> DEFINE Next1(x) == x \in MonthStarts /\ x > before /\ \A n \in MonthStarts : n > before => n >= x
      <3>1. Next1(now)
        BY <1>0, <2>1, <2>2, <2>m
      <3>2. \A x : Next1(x) => x = now
        BY <1>0, <2>m, <3>1
      <3>3. (CHOOSE m \in MonthStarts : m > before /\ \A n \in MonthStarts : n > before => n >= m) = now
        BY <3>1, <3>2
      <3> QED BY <3>3 DEF LastOf
    <2>4. PeriodRange("monthly") = [first |-> before, last |-> now - 1]
      BY DEF PeriodRange, now, before
    <2> QED BY <1>0, <1>3, <2>1, <2>2, <2>3, <2>4, <2>m DEF PeriodStarts
  <1> QED BY <1>1, <1>2, <1>3 DEF Kinds

-----------------------------------------------------------------------------
(* What the services write                                                 *)

LogRow == [request : Requests, day : Days, action : {"INITIAL", "REVISION", "MEDIA"},
           status : Statuses]
NewRows == {new \in SUBSET LogRow : IsFiniteSet(new)}

\* A revision has a day once it has a row, and a day that is not settled has
\* one before it.
Dated ==
  /\ \A r \in Revs : revisions[r].day = 0 <=> revisions[r].status = "none"
  /\ settled \/ today > 1

ServiceTyped ==
  /\ today \in Days /\ settled \in BOOLEAN
  /\ stage \in [Requests -> Stages]
  /\ logs \in NewRows
  /\ revisions \in [Revs -> [day : {0} \cup Days, status : {"none"} \cup Statuses]]

LEMMA StampsAreDays ==
  ASSUME ServiceTyped, Dated
  PROVE  Stamps \subseteq Days
  BY CalendarAssumption DEF ServiceTyped, Dated, Stamps, Days

\* A step of the services appends rows that are dated by transactions under
\* way.
LEMMA WritesRows ==
  ASSUME ServiceTyped, Dated, NEW q \in Requests, NEW day \in Stamps,
         \/ q \in Subs /\ Submit(q, day)
         \/ Begin(q, day)
         \/ \E s \in Subs : q \in Revs /\ Mark(q, s, day)
         \/ \E st, media \in Outcomes : End(q, st, media, day)
         \/ q \in Revs /\ Insert(q, day)
  PROVE  /\ \E new \in NewRows :
              logs' = logs \cup new /\ \A l \in new : l.day = day
         /\ stage' \in [Requests -> Stages]
         /\ UNCHANGED <<calendar, rows, agg>>
  <1>0. day \in Days
    BY StampsAreDays
  <1> DEFINE Goal == /\ \E new \in NewRows :
                          logs' = logs \cup new /\ \A l \in new : l.day = day
                     /\ stage' \in [Requests -> Stages]
                     /\ UNCHANGED <<calendar, rows, agg>>
  <1>1. ASSUME NEW from, NEW to \in Stages, NEW new \in NewRows, \A l \in new : l.day = day,
               Writes(q, from, to, day, new)
        PROVE  Goal
    BY <1>1 DEF Writes, ServiceTyped
  <1>2. ASSUME NEW action \in {"INITIAL", "REVISION", "MEDIA"}, NEW st \in Statuses
        PROVE  /\ {Logged(q, action, st, day)} \in NewRows
               /\ \A l \in {Logged(q, action, st, day)} : l.day = day
    <2>1. Logged(q, action, st, day) \in LogRow /\ Logged(q, action, st, day).day = day
      BY <1>0 DEF Logged, LogRow
    <2> QED BY <2>1, FS_Singleton DEF NewRows
  <1>3. {} \in NewRows
    BY FS_EmptySet DEF NewRows
  <1>4. /\ {"PENDING", "EVALUATING", "marked", "inserted"} \cup Outcomes \subseteq Stages
        /\ {"PENDING", "EVALUATING"} \cup Outcomes \subseteq Statuses
    BY DEF Stages, Statuses
  <1> HIDE DEF Goal
  <1>5. ASSUME Submit(q, day) PROVE Goal
    BY <1>1, <1>2, <1>4, <1>5 DEF Submit
  <1>6. ASSUME Begin(q, day) PROVE Goal
    BY <1>1, <1>2, <1>4, <1>6 DEF Begin
  <1>7. ASSUME NEW s \in Subs, Mark(q, s, day) PROVE Goal
    BY <1>1, <1>2, <1>4, <1>7 DEF Mark
  <1>8. ASSUME NEW st \in Outcomes, NEW media \in Outcomes, End(q, st, media, day)
        PROVE  Goal
    <2> DEFINE one == {Logged(q, IF q \in Subs THEN "INITIAL" ELSE "REVISION", st, day)}
               more == MediaRows(q, media, day)
    <2>1. one \in NewRows /\ \A l \in one : l.day = day
      BY <1>2, <1>4
    <2>2. more \in NewRows /\ \A l \in more : l.day = day
      BY <1>2, <1>3, <1>4 DEF MediaRows
    <2>3. Writes(q, "EVALUATING", st, day, one \cup more)
      BY <1>8 DEF End
    <2> HIDE DEF one, more
    <2>4. one \cup more \in NewRows /\ \A l \in one \cup more : l.day = day
      BY <2>1, <2>2, FS_Union DEF NewRows
    <2> QED BY <1>1, <1>4, <2>3, <2>4
  <1>9. ASSUME Insert(q, day) PROVE Goal
    BY <1>1, <1>3, <1>4, <1>9 DEF Insert
  <1> QED BY <1>5, <1>6, <1>7, <1>8, <1>9 DEF Goal

\* The steps of the services, request by request.
LEMMA ServiceSplits ==
  ASSUME Service
  PROVE  \/ \E q \in Requests, day \in Stamps :
              \/ q \in Subs /\ Submit(q, day)
              \/ Begin(q, day)
              \/ \E s \in Subs : q \in Revs /\ Mark(q, s, day)
              \/ \E st, media \in Outcomes : End(q, st, media, day)
              \/ q \in Revs /\ Insert(q, day)
         \/ \E r \in Revs, st \in Outcomes : EndRevision(r, st)
  BY DEF Service, Requests

\* What a step does to the rows that are counted.
LEMMA RowsAppended ==
  ASSUME ServiceTyped, Dated, [Next]_vars
  PROVE  \E new \in NewRows :
           logs' = logs \cup new /\ \A l \in new : l.day \in Stamps
  <1>1. ASSUME UNCHANGED logs
        PROVE  \E new \in NewRows :
                 logs' = logs \cup new /\ \A l \in new : l.day \in Stamps
    <2>1. {} \in NewRows
      BY FS_EmptySet DEF NewRows
    <2> QED BY <1>1, <2>1
  <1>2. CASE Service
    BY <1>1, <1>2, ServiceSplits, WritesRows DEF EndRevision
  <1>3. CASE Midnight \/ Minute \/ Aggregation \/ UNCHANGED vars
    <2>1. UNCHANGED logs
      BY <1>3 DEF Midnight, Minute, Aggregation, vars, ReadSubmissions, ReadRevisions, Save,
                  AggregationFails, serviceVars
    <2> QED BY <1>1, <2>1
  <1> QED BY <1>2, <1>3 DEF Next

\* A revision's row gets the date of a transaction under way, and its outcome
\* once.
LEMMA RevisionMoves ==
  ASSUME ServiceTyped, Dated, [Next]_vars
  PROVE  /\ revisions' \in [Revs -> [day : {0} \cup Days, status : {"none"} \cup Statuses]]
         /\ \A r \in Revs :
              \/ revisions'[r] = revisions[r]
              \/ /\ revisions[r].status = "none" /\ revisions'[r].status = "EVALUATING"
                 /\ revisions'[r].day \in Stamps
              \/ /\ revisions[r].status = "EVALUATING" /\ revisions'[r].status \in Outcomes
                 /\ revisions'[r].day = revisions[r].day
  <1> USE DEF ServiceTyped
  <1>1. CASE UNCHANGED revisions
    BY <1>1
  <1>2. ASSUME NEW day \in Stamps, NEW q \in Revs, Insert(q, day)
        PROVE  /\ revisions' \in [Revs -> [day : {0} \cup Days, status : {"none"} \cup Statuses]]
               /\ \A r \in Revs :
                    \/ revisions'[r] = revisions[r]
                    \/ /\ revisions[r].status = "none" /\ revisions'[r].status = "EVALUATING"
                       /\ revisions'[r].day \in Stamps
    BY <1>2, StampsAreDays DEF Insert, Statuses
  <1>3. ASSUME NEW q \in Revs, NEW st \in Outcomes, EndRevision(q, st)
        PROVE  /\ revisions' \in [Revs -> [day : {0} \cup Days, status : {"none"} \cup Statuses]]
               /\ \A r \in Revs :
                    \/ revisions'[r] = revisions[r]
                    \/ /\ revisions[r].status = "EVALUATING" /\ revisions'[r].status \in Outcomes
                       /\ revisions'[r].day = revisions[r].day
    BY <1>3 DEF EndRevision, Statuses
  <1>4. CASE Service
    BY <1>1, <1>2, <1>3, <1>4 DEF Service, Submit, Begin, Mark, End
  <1>5. CASE Midnight \/ Minute \/ Aggregation \/ UNCHANGED vars
    BY <1>1, <1>5 DEF Midnight, Minute, Aggregation, vars, ReadSubmissions, ReadRevisions, Save,
                      AggregationFails, serviceVars
  <1> QED BY <1>4, <1>5 DEF Next

LEMMA ServiceStep ==
  ASSUME ServiceTyped, Dated, [Next]_vars
  PROVE  ServiceTyped' /\ Dated'
  <1>1. logs' \in NewRows
    <2>1. PICK new \in NewRows : logs' = logs \cup new
      BY RowsAppended
    <2> QED BY <2>1, FS_Union DEF ServiceTyped, NewRows
  <1>2. /\ today' \in Days /\ settled' \in BOOLEAN /\ stage' \in [Requests -> Stages]
        /\ settled' \/ today' > 1
    <2> USE CalendarAssumption DEF ServiceTyped, Dated, Days
    <2>1. CASE Service
      <3>1. ASSUME NEW r \in Revs, NEW st \in Outcomes, EndRevision(r, st)
            PROVE  UNCHANGED <<today, settled>> /\ stage' \in [Requests -> Stages]
        BY <3>1 DEF EndRevision, calendar, Stages
      <3>2. UNCHANGED <<today, settled>> /\ stage' \in [Requests -> Stages]
        BY <2>1, <3>1, ServiceSplits, WritesRows DEF calendar
      <3> QED BY <3>2
    <2>2. CASE Midnight \/ Minute
      <3>1. /\ today \in 1 .. LastDay /\ LastDay \in Nat /\ stage \in [Requests -> Stages]
            /\ settled \in BOOLEAN /\ (settled \/ today > 1)
        OBVIOUS
      <3>2. /\ stage' = stage /\ settled' \in BOOLEAN
            /\ \/ today' = today + 1 /\ today < LastDay
               \/ today' = today /\ settled'
        BY <2>2 DEF Midnight, Minute, serviceVars
      <3> QED BY <3>1, <3>2
    <2>3. CASE Aggregation \/ UNCHANGED vars
      BY <2>3 DEF Aggregation, vars, ReadSubmissions, ReadRevisions, Save,
                  AggregationFails, serviceVars, calendar
    <2> QED BY <2>1, <2>2, <2>3 DEF Next
  <1>3. \A r \in Revs : revisions'[r].day = 0 <=> revisions'[r].status = "none"
    <2>1. \A day \in Stamps : day # 0
      BY StampsAreDays DEF Days
    <2> QED BY <2>1, RevisionMoves DEF Dated, Outcomes
  <1>4. revisions' \in [Revs -> [day : {0} \cup Days, status : {"none"} \cup Statuses]]
    BY RevisionMoves
  <1> QED BY <1>1, <1>2, <1>3, <1>4 DEF ServiceTyped, Dated

-----------------------------------------------------------------------------
(* Periods that are over                                                   *)

\* No transaction under way, and none to come, dates a row by that day.
Past(last) == \A day \in Stamps : last < day

LEMMA PastStays ==
  ASSUME ServiceTyped, Dated, [Next]_vars, NEW last \in Int, Past(last)
  PROVE  Past(last)'
  <1>1. today \in Int /\ settled \in BOOLEAN
    BY CalendarAssumption DEF ServiceTyped, Days
  <1>2. CASE UNCHANGED calendar
    BY <1>2 DEF calendar, Past, Stamps
  <1>3. CASE Midnight \/ Minute
    BY <1>1, <1>3 DEF Midnight, Minute, Past, Stamps
  <1>4. CASE Service
    BY <1>2, <1>4, ServiceSplits, WritesRows DEF EndRevision
  <1>5. CASE Aggregation \/ UNCHANGED vars
    BY <1>2, <1>5 DEF Aggregation, vars, ReadSubmissions, ReadRevisions, Save, AggregationFails
  <1> QED BY <1>3, <1>4, <1>5 DEF Next

\* The log rows of a period that is over are all there are going to be.
LEMMA LogsStay ==
  ASSUME ServiceTyped, Dated, [Next]_vars, NEW first \in Int, NEW last \in Int, Past(last), NEW S
  PROVE  LogsWith(first, last, S)' = LogsWith(first, last, S)
  <1>1. PICK new \in NewRows : logs' = logs \cup new /\ \A l \in new : l.day \in Stamps
    BY RowsAppended
  <1>4. \A day \in Stamps : day \notin first .. last
    BY StampsAreDays, CalendarAssumption DEF Past, Days
  <1>5. {l \in logs' : l.day \in first .. last /\ l.status \in S}
        = {l \in logs : l.day \in first .. last /\ l.status \in S}
    BY <1>1, <1>4
  <1> QED BY <1>5 DEF LogsWith

Counted(r, first, last, S) ==
  revisions[r].day \in first .. last /\ revisions[r].day # 0 /\ revisions[r].status \in S

LEMMA RevisionsAreCounted ==
  ASSUME NEW first, NEW last, NEW S
  PROVE  /\ RevisionsWith(first, last, S) = Cardinality({r \in Revs : Counted(r, first, last, S)})
         /\ RevisionsWith(first, last, S) \in Nat
  <1>1. IsFiniteSet({r \in Revs : Counted(r, first, last, S)})
    BY RevsAssumption, FS_Subset
  <1>2. Cardinality({r \in Revs : Counted(r, first, last, S)}) \in Nat
    BY <1>1, FS_CardinalityType
  <1> QED BY <1>2 DEF Counted, RevisionsWith

\* Of a period that is over, the number of revisions stays and the numbers of
\* their outcomes grow.
LEMMA RevisionsStay ==
  ASSUME ServiceTyped, Dated, [Next]_vars, NEW first \in Int, NEW last \in Int, Past(last)
  PROVE  /\ RevisionsWith(first, last, Statuses)' = RevisionsWith(first, last, Statuses)
         /\ \A st \in Outcomes :
              RevisionsWith(first, last, {st}) <= RevisionsWith(first, last, {st})'
  <1>1. \A day \in Stamps : day \notin first .. last
    BY StampsAreDays, CalendarAssumption DEF Past, Days
  <1>2. \A r \in Revs : /\ Counted(r, first, last, Statuses)' <=> Counted(r, first, last, Statuses)
                        /\ \A st \in Outcomes :
                             Counted(r, first, last, {st}) => Counted(r, first, last, {st})'
    BY <1>1, RevisionMoves DEF Counted, Dated, Statuses, Outcomes
  <1>3. {r \in Revs : Counted(r, first, last, Statuses)}' = {r \in Revs : Counted(r, first, last, Statuses)}
    BY <1>2
  <1>4. ASSUME NEW st \in Outcomes
        PROVE  RevisionsWith(first, last, {st}) <= RevisionsWith(first, last, {st})'
    <2>1. {r \in Revs : Counted(r, first, last, {st})} \subseteq {r \in Revs : Counted(r, first, last, {st})'}
      BY <1>2
    <2>2. IsFiniteSet({r \in Revs : Counted(r, first, last, {st})'})
      BY RevsAssumption, FS_Subset
    <2>3. Cardinality({r \in Revs : Counted(r, first, last, {st})})
          <= Cardinality({r \in Revs : Counted(r, first, last, {st})'})
      BY <2>1, <2>2, FS_Subset
    <2> QED BY <2>3, RevisionsAreCounted DEF Counted, RevisionsWith
  <1> QED BY <1>3, <1>4 DEF Counted, RevisionsWith

-----------------------------------------------------------------------------
(* What is stored                                                          *)

\* The counts of submissions of a period that is over.
Final(first, last, c) ==
  first \in Int /\ last \in Int /\ Past(last) /\ c = SubmissionCounts(first, last)

\* The counts of its revisions: of their outcomes, at most those known now.
Fair(first, last, c) ==
  /\ c.total = RevisionCounts(first, last).total
  /\ c.success <= RevisionCounts(first, last).success
  /\ c.failed <= RevisionCounts(first, last).failed

LEMMA FinalStays ==
  ASSUME ServiceTyped, Dated, [Next]_vars, NEW first, NEW last, NEW c, Final(first, last, c)
  PROVE  Final(first, last, c)'
  <1>1. first \in Int /\ last \in Int /\ Past(last)
    BY DEF Final
  <1>2. Past(last)'
    BY <1>1, PastStays
  <1>3. ASSUME NEW S PROVE LogsWith(first, last, S)' = LogsWith(first, last, S)
    BY <1>1, LogsStay
  <1>4. SubmissionCounts(first, last)' = SubmissionCounts(first, last)
    BY <1>3 DEF SubmissionCounts
  <1> QED BY <1>1, <1>2, <1>4 DEF Final

LEMMA FairStays ==
  ASSUME ServiceTyped, Dated, [Next]_vars, NEW first \in Int, NEW last \in Int, Past(last),
         NEW c \in Counts, Fair(first, last, c)
  PROVE  Fair(first, last, c)'
  <1>1. /\ RevisionsWith(first, last, Statuses)' = RevisionsWith(first, last, Statuses)
        /\ RevisionsWith(first, last, {"SUCCESS"}) <= RevisionsWith(first, last, {"SUCCESS"})'
        /\ RevisionsWith(first, last, {"FAILED"}) <= RevisionsWith(first, last, {"FAILED"})'
    BY RevisionsStay DEF Outcomes
  <1>2. ASSUME NEW S
        PROVE  RevisionsWith(first, last, S) \in Nat /\ RevisionsWith(first, last, S)' \in Nat
    <2>1. IsFiniteSet({r \in Revs : Counted(r, first, last, S)'})
      BY RevsAssumption, FS_Subset
    <2>2. Cardinality({r \in Revs : Counted(r, first, last, S)'}) \in Nat
      BY <2>1, FS_CardinalityType
    <2>3. RevisionsWith(first, last, S) \in Nat
      BY RevisionsAreCounted
    <2> QED BY <2>2, <2>3 DEF Counted, RevisionsWith
  <1>3. c.success \in Nat /\ c.failed \in Nat
    BY DEF Counts
  <1>4. /\ c.total = RevisionsWith(first, last, Statuses)
        /\ c.success <= RevisionsWith(first, last, {"SUCCESS"})
        /\ c.failed <= RevisionsWith(first, last, {"FAILED"})
    BY DEF Fair, RevisionCounts
  <1>5. /\ c.total = RevisionsWith(first, last, Statuses)'
        /\ c.success <= RevisionsWith(first, last, {"SUCCESS"})'
        /\ c.failed <= RevisionsWith(first, last, {"FAILED"})'
    BY <1>1, <1>2, <1>3, <1>4
  <1> QED BY <1>5 DEF Fair, RevisionCounts

\* What the queries return.
LEMMA CountsAreTyped ==
  ASSUME ServiceTyped, NEW first, NEW last
  PROVE  /\ SubmissionCounts(first, last) \in Counts
         /\ RevisionCounts(first, last) \in Counts
         /\ Fair(first, last, RevisionCounts(first, last))
  <1>1. ASSUME NEW S PROVE LogsWith(first, last, S) \in Nat
    <2> DEFINE I == {l \in logs : l.day \in first .. last /\ l.status \in S}
    <2>1. IsFiniteSet(I)
      BY FS_Subset DEF ServiceTyped, NewRows
    <2>2. Cardinality(I) \in Nat
      BY <2>1, FS_CardinalityType
    <2> QED BY <2>2 DEF LogsWith
  <1>2. SubmissionCounts(first, last) \in Counts
    BY <1>1 DEF SubmissionCounts, Counts
  <1>3. RevisionCounts(first, last) \in Counts
    BY RevisionsAreCounted DEF RevisionCounts, Counts
  <1>4. Fair(first, last, RevisionCounts(first, last))
    <2>1. \A n \in Nat : n <= n
      OBVIOUS
    <2> QED BY <1>3, <2>1 DEF Fair, Counts
  <1> QED BY <1>2, <1>3, <1>4

-----------------------------------------------------------------------------
(* The inductive invariant                                                 *)

\* What the aggregation under way has read so far.
AggregationRight ==
  /\ agg.pc # "idle" => /\ agg.last = LastOf(agg.kind, agg.first)
                        /\ Final(agg.first, agg.last, agg.submissions)
  /\ agg.pc = "save" => Fair(agg.first, agg.last, agg.revisions)

RowRight(r) ==
  /\ Final(r.first, LastOf(r.kind, r.first), r.submissions)
  /\ Fair(r.first, LastOf(r.kind, r.first), r.revisions)

StatsInv == TypeOK /\ IsFiniteSet(logs) /\ Dated /\ AggregationRight /\ \A r \in rows : RowRight(r)

AggType == [pc : {"idle", "revisions", "save"}, kind : Kinds,
            first : PeriodStarts, last : PeriodStarts,
            submissions : Counts, revisions : Counts]

LEMMA TypeParts ==
  TypeOK /\ IsFiniteSet(logs) <=> ServiceTyped /\ rows \subseteq Row /\ agg \in AggType
  BY DEF TypeOK, ServiceTyped, LogRow, NewRows, AggType

LEMMA StartsAreDays == PeriodStarts \subseteq Int /\ 0 \in PeriodStarts
  BY CalendarAssumption DEF PeriodStarts

LEMMA StatsInit == Init => StatsInv
  <1> SUFFICES ASSUME Init PROVE StatsInv
    OBVIOUS
  <1>1. ServiceTyped
    <2>1. LastDay >= 1
      BY TwoMonthsAssumption, CalendarAssumption
    <2>2. {} \in NewRows
      BY FS_EmptySet DEF NewRows
    <2> QED BY <2>1, <2>2, CalendarAssumption DEF Init, ServiceTyped, Days, Stages, Statuses
  <1>2. rows = {} /\ agg = Idle
    BY DEF Init
  <1>3. Idle \in AggType /\ Idle.pc = "idle"
    BY StartsAreDays DEF Idle, AggType, NoCounts, Counts, Kinds
  <1>4. Dated
    BY DEF Init, Dated
  <1> QED BY <1>1, <1>2, <1>3, <1>4, TypeParts DEF StatsInv, AggregationRight

\* A stored row that is right stays right.
LEMMA RowStaysRight ==
  ASSUME ServiceTyped, Dated, [Next]_vars, NEW r \in Row, RowRight(r)
  PROVE  RowRight(r)'
  <1>1. PICK last : last = LastOf(r.kind, r.first)
    OBVIOUS
  <1>2. Final(r.first, last, r.submissions) /\ Fair(r.first, last, r.revisions)
    BY <1>1 DEF RowRight
  <1>3. r.first \in Int /\ last \in Int /\ Past(last) /\ r.revisions \in Counts
    BY <1>2 DEF Final, Row
  <1>4. Final(r.first, last, r.submissions)'
    BY <1>2, FinalStays
  <1>5. Fair(r.first, last, r.revisions)'
    BY <1>2, <1>3, FairStays
  <1> QED BY <1>1, <1>4, <1>5 DEF RowRight

\* The aggregation that a step leaves alone stays right.
LEMMA AggregationStaysRight ==
  ASSUME ServiceTyped, Dated, [Next]_vars, agg \in AggType, AggregationRight, UNCHANGED agg
  PROVE  AggregationRight'
  <1>1. PICK a \in AggType : a = agg
    OBVIOUS
  <1>2. agg' = a
    BY <1>1
  <1>3. CASE a.pc = "idle"
    BY <1>2, <1>3 DEF AggregationRight
  <1>4. CASE a.pc # "idle"
    <2>1. a.last = LastOf(a.kind, a.first) /\ Final(a.first, a.last, a.submissions)
      BY <1>1, <1>4 DEF AggregationRight
    <2>2. a.first \in Int /\ a.last \in Int /\ Past(a.last) /\ a.revisions \in Counts
      BY <2>1 DEF Final, AggType
    <2>3. Final(a.first, a.last, a.submissions)'
      BY <2>1, FinalStays
    <2>4. ASSUME a.pc = "save" PROVE Fair(a.first, a.last, a.revisions)'
      <3>1. Fair(a.first, a.last, a.revisions)
        BY <1>1, <2>4 DEF AggregationRight
      <3> QED BY <2>2, <3>1, FairStays
    <2>5. a.last = LastOf(a.kind, a.first)
      BY <2>1
    <2> QED BY <1>2, <2>3, <2>4, <2>5 DEF AggregationRight
  <1> QED BY <1>3, <1>4

\* What a step of the aggregation leaves: its record, and one row more if it
\* saves.
LEMMA AggregationStep ==
  ASSUME TypeOK, IsFiniteSet(logs), Dated, AggregationRight, Aggregation
  PROVE  /\ UNCHANGED <<calendar, serviceVars>> /\ agg' \in AggType /\ AggregationRight'
         /\ \A r \in rows' : r \in rows \/ (r \in Row /\ RowRight(r))
  <1>0. ServiceTyped /\ agg \in AggType
    BY TypeParts
  <1>p. ASSUME NEW first, NEW last, NEW c, UNCHANGED <<calendar, serviceVars>>
        PROVE  /\ Final(first, last, c)' <=> Final(first, last, c)
               /\ Fair(first, last, c)' <=> Fair(first, last, c)
    BY <1>p DEF Final, Fair, Past, Stamps, SubmissionCounts, RevisionCounts, LogsWith,
                RevisionsWith, calendar, serviceVars
  <1>1. ASSUME NEW kind \in Kinds, ReadSubmissions(kind)
        PROVE  UNCHANGED <<calendar, serviceVars, rows>> /\ agg' \in AggType /\ AggregationRight'
    <2>1. PICK first, last : first = PeriodRange(kind).first /\ last = PeriodRange(kind).last
      OBVIOUS
    <2>2. /\ first \in PeriodStarts /\ last \in PeriodStarts
          /\ last < today /\ last = LastOf(kind, first)
      BY <1>0, <2>1, PeriodIsOver DEF ServiceTyped
    <2>3. settled /\ UNCHANGED <<calendar, serviceVars, rows>>
      BY <1>1 DEF ReadSubmissions, Scheduled
    <2>4. PICK c : c = SubmissionCounts(first, last)
      OBVIOUS
    <2>5. c \in Counts
      BY <1>0, <2>4, CountsAreTyped
    <2>6. Final(first, last, c)
      BY <2>2, <2>3, <2>4, StartsAreDays DEF Final, Past, Stamps
    <2>7. agg' = [pc |-> "revisions", kind |-> kind, first |-> first, last |-> last,
                  submissions |-> c, revisions |-> NoCounts]
      BY <1>1, <2>1, <2>4 DEF ReadSubmissions, Idle
    <2>8. agg' \in AggType
      BY <2>2, <2>5, <2>7 DEF AggType, NoCounts, Counts
    <2>9. AggregationRight'
      <3>1. Final(first, last, c)'
        BY <1>p, <2>3, <2>6
      <3>2. agg'.pc = "revisions" /\ agg'.kind = kind /\ agg'.first = first /\ agg'.last = last
            /\ agg'.submissions = c
        BY <2>7
      <3> QED BY <2>2, <3>1, <3>2 DEF AggregationRight
    <2> QED BY <2>3, <2>8, <2>9
  <1>2. ASSUME ReadRevisions
        PROVE  UNCHANGED <<calendar, serviceVars, rows>> /\ agg' \in AggType /\ AggregationRight'
    <2>1. PICK a \in AggType : a = agg
      BY <1>0
    <2>2. PICK c : c = RevisionCounts(a.first, a.last)
      OBVIOUS
    <2>3. c \in Counts /\ Fair(a.first, a.last, c)
      BY <1>0, <2>2, CountsAreTyped
    <2>4. /\ a.last = LastOf(a.kind, a.first) /\ Final(a.first, a.last, a.submissions)
          /\ UNCHANGED <<calendar, serviceVars, rows>>
          /\ agg' = [a EXCEPT !.pc = "save", !.revisions = c]
      BY <1>2, <2>1, <2>2 DEF ReadRevisions, AggregationRight
    <2>5. agg' \in AggType
      BY <2>1, <2>3, <2>4 DEF AggType
    <2>6. /\ agg'.pc = "save" /\ agg'.kind = a.kind /\ agg'.first = a.first /\ agg'.last = a.last
          /\ agg'.submissions = a.submissions /\ agg'.revisions = c
      BY <2>1, <2>4 DEF AggType
    <2>7. Final(a.first, a.last, a.submissions)' /\ Fair(a.first, a.last, c)'
      BY <1>p, <2>3, <2>4
    <2> QED BY <2>4, <2>5, <2>6, <2>7 DEF AggregationRight
  <1>3. ASSUME Save \/ AggregationFails
        PROVE  UNCHANGED <<calendar, serviceVars>> /\ agg' \in AggType /\ AggregationRight'
    <2>1. UNCHANGED <<calendar, serviceVars>> /\ agg' = Idle
      BY <1>3 DEF Save, AggregationFails
    <2>2. Idle \in AggType /\ Idle.pc = "idle"
      BY StartsAreDays DEF Idle, AggType, NoCounts, Counts, Kinds
    <2> QED BY <2>1, <2>2 DEF AggregationRight
  <1>4. ASSUME Save, NEW r \in rows', r \notin rows
        PROVE  r \in Row /\ RowRight(r)
    <2>1. PICK a \in AggType : a = agg
      BY <1>0
    <2>2. /\ a.last = LastOf(a.kind, a.first) /\ Final(a.first, a.last, a.submissions)
          /\ Fair(a.first, a.last, a.revisions)
      BY <1>4, <2>1 DEF Save, AggregationRight
    <2>3. r = [kind |-> a.kind, first |-> a.first, submissions |-> a.submissions,
               revisions |-> a.revisions]
      BY <1>4, <2>1 DEF Save
    <2>4. r \in Row
      BY <2>1, <2>3 DEF AggType, Row
    <2>5. /\ r.kind = a.kind /\ r.first = a.first /\ r.submissions = a.submissions
          /\ r.revisions = a.revisions
      BY <2>3
    <2> QED BY <2>2, <2>4, <2>5 DEF RowRight
  <1>5. CASE \E kind \in Kinds : ReadSubmissions(kind)
    BY <1>1, <1>5
  <1>6. CASE ReadRevisions
    BY <1>2, <1>6
  <1>7. CASE Save
    BY <1>3, <1>4, <1>7
  <1>8. CASE AggregationFails
    BY <1>3, <1>8 DEF AggregationFails
  <1> QED BY <1>5, <1>6, <1>7, <1>8 DEF Aggregation

\* A step of the services or of the calendar leaves the statistics alone.
LEMMA OthersStep ==
  ASSUME ServiceTyped, Dated, [Next]_vars, ~Aggregation
  PROVE  UNCHANGED <<rows, agg>>
  BY ServiceSplits, WritesRows DEF Next, EndRevision, Midnight, Minute, vars

LEMMA StatsStep == StatsInv /\ [Next]_vars => StatsInv'
  <1> SUFFICES ASSUME StatsInv, [Next]_vars PROVE StatsInv'
    OBVIOUS
  <1>1. /\ ServiceTyped /\ rows \subseteq Row /\ agg \in AggType
        /\ TypeOK /\ IsFiniteSet(logs) /\ Dated /\ AggregationRight /\ \A r \in rows : RowRight(r)
    BY TypeParts DEF StatsInv
  <1>2. ServiceTyped' /\ Dated'
    BY <1>1, ServiceStep
  <1>3. /\ agg' \in AggType /\ AggregationRight'
        /\ \A r \in rows' : r \in Row /\ RowRight(r)
    <2>1. CASE Aggregation
      BY <1>1, <2>1, AggregationStep
    <2>2. CASE ~Aggregation
      <3>1. UNCHANGED <<rows, agg>>
        BY <1>1, <2>2, OthersStep
      <3>2. AggregationRight'
        BY <1>1, <3>1, AggregationStaysRight
      <3> QED BY <1>1, <3>1, <3>2
    <2> QED BY <2>1, <2>2
  <1>4. \A r \in rows' : RowRight(r)'
    <2> TAKE r \in rows'
    <2>1. r \in Row /\ RowRight(r)
      BY <1>3
    <2> QED BY <1>1, <2>1, RowStaysRight
  <1>5. ServiceTyped' /\ rows' \subseteq Row /\ agg' \in AggType
    BY <1>2, <1>3
  <1>6. TypeOK' /\ IsFiniteSet(logs)'
    BY <1>5 DEF TypeOK, ServiceTyped, LogRow, NewRows, AggType
  <1> QED BY <1>2, <1>3, <1>4, <1>6 DEF StatsInv

LEMMA StatsAlways == Spec => []StatsInv
  BY StatsInit, StatsStep, PTL DEF Spec

-----------------------------------------------------------------------------
(* The theorems                                                            *)

\* The tables and the aggregation are of their types (stats.service.ts).
THEOREM StatsTyped == Spec => []TypeOK
  <1>1. StatsInv => TypeOK
    BY DEF StatsInv
  <1> QED BY <1>1, StatsAlways, PTL

\* For every calendar and every interleaving of the services, midnights and
\* failures with an aggregation, the counts of submissions stored for a period
\* (aggregateDaily, aggregateWeekly, aggregateMonthly) are final: because the
\* job starts after the first minute, no transaction can still add a row.
THEOREM SubmissionCountsFinal == Spec => []SubmissionCountsAreFinal
  <1>1. StatsInv => SubmissionCountsAreFinal
    BY DEF StatsInv, RowRight, Final, SubmissionCountsAreFinal, SubmissionsNow
  <1> QED BY <1>1, StatsAlways, PTL

\* So are the numbers of revisions, which the second query reads at another
\* time, for the period that the first one had computed.
THEOREM RevisionTotalsFinal == Spec => []RevisionTotalsAreFinal
  <1>1. StatsInv => RevisionTotalsAreFinal
    BY DEF StatsInv, RowRight, Fair, RevisionTotalsAreFinal, RevisionsNow
  <1> QED BY <1>1, StatsAlways, PTL

\* A stored outcome of a revision is never taken back: what was counted as a
\* success or a failure is one at any later time.
THEOREM OutcomesGrow == Spec => []RevisionOutcomesOnlyGrow
  <1>1. StatsInv => RevisionOutcomesOnlyGrow
    BY DEF StatsInv, RowRight, Fair, RevisionOutcomesOnlyGrow, RevisionsNow
  <1> QED BY <1>1, StatsAlways, PTL

-----------------------------------------------------------------------------
(* Weeks and their days                                                    *)

Added(h, s, c) == IF s = {} THEN 0
                  ELSE (CHOOSE x \in s : TRUE).submissions[c] + h[s \ {CHOOSE x \in s : TRUE}]
Sums(S, c) == CHOOSE h : h = [s \in SUBSET S |-> Added(h, s, c)]

\* What MapThenSumSet computes.
LEMMA SumUnfolds ==
  ASSUME NEW S, NEW c
  PROVE  MapThenSumSet(LAMBDA r : r.submissions[c], S) = Sums(S, c)[S]
  BY DEF MapThenSumSet, MapThenFoldSet, Sums, Added

\* A sum that each element adds to is the one that folds it.
LEMMA SumIs ==
  ASSUME NEW S, IsFiniteSet(S), NEW c, NEW g, g = [s \in SUBSET S |-> g[s]],
         g[{}] = 0,
         \A s \in SUBSET S : \A x \in s : g[s] = x.submissions[c] + g[s \ {x}]
  PROVE  Sums(S, c)[S] = g[S]
  <1>1. ASSUME NEW s \in SUBSET S PROVE g[s] = Added(g, s, c)
    <2>1. CASE s = {}
      BY <2>1 DEF Added
    <2>2. CASE s # {}
      <3>1. PICK x : x = CHOOSE y \in s : TRUE
        OBVIOUS
      <3>2. x \in s
        BY <2>2, <3>1
      <3>3. g[s] = x.submissions[c] + g[s \ {x}]
        BY <3>2
      <3> QED BY <2>2, <3>1, <3>3 DEF Added
    <2> QED BY <2>1, <2>2
  <1>2. g = [s \in SUBSET S |-> Added(g, s, c)]
    BY <1>1
  <1>3. PICK h : h = Sums(S, c)
    OBVIOUS
  <1>4. h = [s \in SUBSET S |-> Added(h, s, c)]
    BY <1>2, <1>3 DEF Sums
  <1> DEFINE T == {s \in SUBSET S : h[s] # g[s]}
             R == StrictSubsetOrdering(S)
  <1>5. IsWellFoundedOn(R, SUBSET S)
    BY FS_StrictSubsetOrderingWellFounded, FS_FiniteSubsetsOfFinite
  <1>6. T = {}
    <2> SUFFICES ASSUME T # {} PROVE FALSE
      OBVIOUS
    <2>1. T \subseteq SUBSET S
      OBVIOUS
    <2> HIDE DEF R, T
    <2>2. PICK s \in T : \A t \in T : ~(<<t, s>> \in R)
      BY <1>5, <2>1, WFMin
    <2>3. s \in SUBSET S /\ h[s] # g[s]
      BY <2>2 DEF T
    <2>4. h[s] = Added(h, s, c) /\ g[s] = Added(g, s, c)
      BY <1>1, <1>4, <2>3
    <2>5. s # {}
      BY <2>3, <2>4 DEF Added
    <2>6. PICK x : x = CHOOSE y \in s : TRUE
      OBVIOUS
    <2>7. x \in s /\ s \ {x} \in SUBSET S /\ s \ {x} \subseteq s /\ s \ {x} # s
      BY <2>3, <2>5, <2>6
    <2>8. <<s \ {x}, s>> \in R
      BY <2>3, <2>7 DEF R, StrictSubsetOrdering
    <2>9. h[s \ {x}] = g[s \ {x}]
      BY <2>2, <2>7, <2>8 DEF T
    <2> QED BY <2>3, <2>4, <2>6, <2>9 DEF Added
  <1> QED BY <1>3, <1>6

\* What a column of the statistics counts, and the logs of some days.
Counting(c) == CASE c = "total" -> Statuses [] c = "success" -> {"SUCCESS"}
                 [] c = "failed" -> {"FAILED"}
LogsOn(D, S) == {l \in logs : l.day \in D /\ l.status \in S}
Firsts(s) == {r.first : r \in s}

LEMMA LogsAreFinite ==
  ASSUME ServiceTyped, NEW D, NEW S
  PROVE  IsFiniteSet(LogsOn(D, S)) /\ Cardinality(LogsOn(D, S)) \in Nat
  <1>1. IsFiniteSet(logs) /\ LogsOn(D, S) \subseteq logs
    BY DEF ServiceTyped, NewRows, LogsOn
  <1> QED BY <1>1, FS_Subset, FS_CardinalityType

LEMMA ColumnIs ==
  ASSUME NEW first, NEW last, NEW c \in {"total", "success", "failed"}
  PROVE  SubmissionCounts(first, last)[c] = Cardinality(LogsOn(first .. last, Counting(c)))
  <1>1. ASSUME NEW S PROVE LogsWith(first, last, S) = Cardinality(LogsOn(first .. last, S))
    BY DEF LogsWith, LogsOn
  <1>2. CASE c = "total"
    BY <1>1, <1>2 DEF SubmissionCounts, Counting
  <1>3. CASE c = "success"
    BY <1>1, <1>3 DEF SubmissionCounts, Counting
  <1>4. CASE c = "failed"
    BY <1>1, <1>4 DEF SubmissionCounts, Counting
  <1> QED BY <1>2, <1>3, <1>4

\* The counts of different days add up to the count of all of them.
LEMMA DaysAddUp ==
  ASSUME ServiceTyped, NEW days, IsFiniteSet(days), NEW c \in {"total", "success", "failed"},
         \A r \in days : r.first \in Int /\ r.submissions = SubmissionCounts(r.first, r.first),
         \A r, q \in days : r.first = q.first => r = q
  PROVE  Sums(days, c)[days] = Cardinality(LogsOn(Firsts(days), Counting(c)))
  <1> DEFINE g == [s \in SUBSET days |-> Cardinality(LogsOn(Firsts(s), Counting(c)))]
  <1>1. LogsOn(Firsts({}), Counting(c)) = {}
    BY DEF LogsOn, Firsts
  <1>2. g[{}] = 0
    BY <1>1, FS_EmptySet
  <1>3. ASSUME NEW s \in SUBSET days, NEW x \in s
        PROVE  g[s] = x.submissions[c] + g[s \ {x}]
    <2> DEFINE A == LogsOn({x.first}, Counting(c))
               B == LogsOn(Firsts(s \ {x}), Counting(c))
    <2>1. LogsOn(Firsts(s), Counting(c)) = A \cup B
      BY DEF LogsOn, Firsts
    <2>2. A \cap B = {}
      BY DEF LogsOn, Firsts
    <2>3. IsFiniteSet(A) /\ IsFiniteSet(B) /\ Cardinality(A) \in Nat /\ Cardinality(B) \in Nat
      BY LogsAreFinite
    <2>4. x.submissions[c] = Cardinality(A)
      <3>1. x.first .. x.first = {x.first}
        BY <1>3
      <3>2. x.submissions = SubmissionCounts(x.first, x.first)
        BY <1>3
      <3>3. SubmissionCounts(x.first, x.first)[c] = Cardinality(LogsOn(x.first .. x.first, Counting(c)))
        BY ColumnIs
      <3> QED BY <3>1, <3>2, <3>3
    <2>5. g[s] = Cardinality(A \cup B) /\ g[s \ {x}] = Cardinality(B)
      BY <2>1
    <2> HIDE DEF A, B, g
    <2>6. Cardinality(A \cup B) = Cardinality(A) + Cardinality(B) - 0
      BY <2>2, <2>3, FS_Union, FS_EmptySet
    <2> QED BY <2>3, <2>4, <2>5, <2>6
  <1>4. g = [s \in SUBSET days |-> g[s]] /\ g[days] = Cardinality(LogsOn(Firsts(days), Counting(c)))
    OBVIOUS
  <1> HIDE DEF g
  <1>5. Sums(days, c)[days] = g[days]
    BY <1>2, <1>3, <1>4, SumIs
  <1> QED BY <1>4, <1>5

\* As many different days of a week as it has are all of them.
LEMMA AllDays ==
  ASSUME NEW days, NEW first \in Int, Cardinality(days) = WeekDays,
         \A r \in days : r.first \in first .. first + WeekDays - 1,
         \A r, q \in days : r.first = q.first => r = q
  PROVE  IsFiniteSet(days) /\ Firsts(days) = first .. first + WeekDays - 1
  <1> DEFINE W == first .. first + WeekDays - 1
             f == [r \in days |-> r.first]
  <1>1. WeekDays \in Nat /\ WeekDays > 0
    BY CalendarAssumption
  <1>2. first + WeekDays - 1 \in Int /\ ~(first > first + WeekDays - 1)
        /\ (first + WeekDays - 1) - first + 1 = WeekDays
    BY <1>1
  <1>3. IsFiniteSet(W) /\ Cardinality(W) = WeekDays
    BY <1>2, FS_Interval
  <1> HIDE DEF W
  <1>4. f \in [days -> W] /\ \A r, q \in days : f[r] = f[q] => r = q
    BY DEF W
  <1>5. f \in Injection(days, W)
    BY <1>4 DEF Injection, IsInjective
  <1>6. IsFiniteSet(days) /\ f \in Surjection(days, W)
    BY <1>3, <1>5, FS_Injection
  <1>7. Firsts(days) = W
    <2>1. \A t \in W : \E r \in days : f[r] = t
      BY <1>6 DEF Surjection
    <2>2. \A r \in days : f[r] = r.first /\ f[r] \in W
      BY <1>4
    <2> HIDE DEF f
    <2> QED BY <2>1, <2>2 DEF Firsts
  <1> QED BY <1>6, <1>7 DEF W

\* One row is stored of a period, for its first day is a unique key.
OneRowEach == \A r, q \in rows : r.kind = q.kind /\ r.first = q.first => r = q

LEMMA OneRowStep ==
  ASSUME ServiceTyped, Dated, OneRowEach, [Next]_vars
  PROVE  OneRowEach'
  <1>1. rows' = rows \/ Save
    <2>1. CASE Aggregation
      BY <2>1 DEF Aggregation, ReadSubmissions, ReadRevisions, AggregationFails
    <2> QED BY <2>1, OthersStep
  <1>2. CASE Save
    <2>1. PICK row : /\ row.kind = agg.kind /\ row.first = agg.first
                     /\ rows' = IF \E r \in rows : r.kind = agg.kind /\ r.first = agg.first
                                THEN rows ELSE rows \cup {row}
      BY <1>2 DEF Save
    <2> QED BY <2>1 DEF OneRowEach
  <1>3. CASE rows' = rows
    BY <1>3 DEF OneRowEach
  <1> QED BY <1>1, <1>2, <1>3

\* For every calendar and every interleaving, the counts of submissions stored
\* for a week are the sums of those stored for its days, although each of them
\* was computed by a query of its own, at another time, while the services went
\* on (aggregateWeekly, aggregateDaily).
THEOREM WeeksAddUp == Spec => []WeekAddsUp
  <1>1. Init => OneRowEach
    BY DEF Init, OneRowEach
  <1>2. StatsInv /\ OneRowEach /\ [Next]_vars => OneRowEach'
    BY OneRowStep, TypeParts DEF StatsInv
  <1>3. StatsInv /\ OneRowEach => WeekAddsUp
    <2> SUFFICES ASSUME StatsInv, OneRowEach, NEW w \in rows, w.kind = "weekly",
                        NEW days,
                        days = {r \in rows : r.kind = "daily"
                                             /\ r.first \in w.first .. w.first + WeekDays - 1},
                        Cardinality(days) = WeekDays,
                        NEW c \in {"total", "success", "failed"}
                 PROVE  w.submissions[c] = MapThenSumSet(LAMBDA r : r.submissions[c], days)
      BY Zenon DEF WeekAddsUp
    <2>0. ServiceTyped /\ WeekDays \in Nat
      BY TypeParts, CalendarAssumption DEF StatsInv
    <2>1. w.first \in Int /\ w.submissions = SubmissionCounts(w.first, w.first + WeekDays - 1)
      BY DEF StatsInv, RowRight, Final, LastOf
    <2>2. \A r \in days : /\ r.first \in Int /\ r.submissions = SubmissionCounts(r.first, r.first)
                          /\ r.first \in w.first .. w.first + WeekDays - 1
      BY DEF StatsInv, RowRight, Final, LastOf
    <2>3. \A r, q \in days : r.first = q.first => r = q
      BY DEF OneRowEach
    <2>4. IsFiniteSet(days) /\ Firsts(days) = w.first .. w.first + WeekDays - 1
      BY <2>1, <2>2, <2>3, AllDays
    <2>5. Sums(days, c)[days] = Cardinality(LogsOn(Firsts(days), Counting(c)))
      BY <2>0, <2>2, <2>3, <2>4, DaysAddUp
    <2>6. w.submissions[c] = Cardinality(LogsOn(w.first .. w.first + WeekDays - 1, Counting(c)))
      BY <2>1, ColumnIs
    <2> QED BY <2>4, <2>5, <2>6, SumUnfolds
  <1> QED BY <1>1, <1>2, <1>3, StatsAlways, PTL DEF Spec
=============================================================================
