-------------------------------- MODULE Paging --------------------------------
(***************************************************************************)
(* GET /v1/submissions and GET /v1/revisions: a client reads a listing     *)
(* page by page (offset-pagination.util.ts), from the first page until     *)
(* hasNext is false, while rows are inserted and change their status.  One *)
(* request is up to three queries without a transaction: the ids of the    *)
(* page, the rows with these ids and the same filter, and the total.       *)
(***************************************************************************)
EXTENDS Naturals, FiniteSets, SequencesExt

CONSTANTS
  Rows,      \* the rows of one student, by id
  Sizes,     \* page sizes that clients ask for
  MaxClock   \* bound: the seconds that pass

ASSUME SizesAssumption == Sizes \subseteq Nat \ {0} /\ MaxClock \in Nat \ {0}
ASSUME RowsAssumption == IsFiniteSet(Rows)

Statuses == {"EVALUATING", "SUCCESS"}

\* What the validator of sort lets through: the field is createdDt.
Orders == {"ASC", "DESC"}

\* A request without a status lets all of them through.
Filters == {Statuses, {"EVALUATING"}}

VARIABLES
  created, status,   \* of each row; created is 0 if it does not exist
  clock,             \* seconds, the precision of created_dt
  size, order, filter,   \* of the requests: filter is the statuses let through
  page,              \* the page that is asked for
  pc,                \* where its request is
  ids, got,          \* the page's ids, and the rows read for them
  seen,              \* how often the client was shown each row
  start,             \* history: the rows let through when the reading began
  inserted,          \* history: the rows inserted since then
  changed, left      \* history: a status has changed, or left the filter, since then

table == <<created, status, clock>>
request == <<size, order, filter>>
history == <<start, inserted, changed, left>>
vars == <<table, request, page, pc, ids, got, seen, history>>

Existing == {r \in Rows : created[r] # 0}
Matching == {r \in Existing : status[r] \in filter}

TypeOK ==
  /\ created \in [Rows -> 0 .. MaxClock]
  /\ status \in [Rows -> Statuses]
  /\ clock \in 1 .. MaxClock
  /\ size \in Sizes /\ order \in Orders /\ filter \in Filters
  /\ page \in 1 .. 2 * Cardinality(Rows) + 1
  /\ pc \in {"ids", "rows", "count", "done"}
  /\ ids \in Seq(Rows) /\ Len(ids) <= size
  /\ got \in SUBSET Rows
  /\ seen \in [Rows -> 0 .. 2 * Cardinality(Rows)]
  /\ start \subseteq Rows /\ inserted \subseteq Rows
  /\ changed \in BOOLEAN /\ left \in BOOLEAN

Init ==
  /\ created = [r \in Rows |-> 0]
  /\ status = [r \in Rows |-> "EVALUATING"]
  /\ clock = 1
  /\ size \in Sizes /\ order \in Orders /\ filter \in Filters
  /\ page = 1
  /\ pc = "ids"
  /\ ids = <<>> /\ got = {}
  /\ seen = [r \in Rows |-> 0]
  /\ start = {} /\ inserted = {} /\ changed = FALSE /\ left = FALSE

Begun == page > 1 \/ pc # "ids"

-----------------------------------------------------------------------------
(* The rows                                                                *)

\* created_dt is the time at which the transaction of the row began.
Insert(r) ==
  /\ created[r] = 0
  /\ \E t \in 1 .. clock : created' = [created EXCEPT ![r] = t]
  /\ inserted' = IF Begun THEN inserted \cup {r} ELSE inserted
  /\ UNCHANGED <<status, clock, request, page, pc, ids, got, seen, start, changed, left>>

Second ==
  /\ clock < MaxClock
  /\ clock' = clock + 1
  /\ UNCHANGED <<created, status, request, page, pc, ids, got, seen, history>>

\* An evaluation ends; of a submission, it may begin again.
Change(r, st) ==
  /\ created[r] # 0 /\ status[r] # st
  /\ status' = [status EXCEPT ![r] = st]
  /\ changed' = (changed \/ Begun)
  /\ left' = (left \/ (Begun /\ status[r] \in filter /\ st \notin filter))
  /\ UNCHANGED <<created, clock, request, page, pc, ids, got, seen, start, inserted>>

-----------------------------------------------------------------------------
(* One request                                                             *)

\* Variant: without ORDER BY.
InOrder_Unsorted(q) == q \in Seq(Rows)

\* Rows of one second come in any order, another one in each query.
InOrder(q) ==
  \A i, j \in DOMAIN q : i < j =>
    IF order = "ASC" THEN created[q[i]] <= created[q[j]]
    ELSE created[q[i]] >= created[q[j]]

Skip == (page - 1) * size

Least(a, b) == IF a < b THEN a ELSE b

QueryIds ==
  /\ pc = "ids"
  /\ \E q \in SetToSeqs(Matching) :
       InOrder(q) /\ ids' = SubSeq(q, Skip + 1, Least(Skip + size, Len(q)))
  /\ start' = IF page = 1 THEN Matching ELSE start
  /\ pc' = "rows"
  /\ UNCHANGED <<table, request, page, got, seen, inserted, changed, left>>

QueryRows ==
  /\ pc = "rows"
  /\ got' = ToSet(ids) \cap Matching
  /\ pc' = "count"
  /\ UNCHANGED <<table, request, page, ids, seen, history>>

\* A page that is not full makes the count query unnecessary.
Totals == {Cardinality(Matching)} \cup
          (IF Cardinality(got) < size THEN {Skip + Cardinality(got)} ELSE {})

\* Variant: off by one.
HasNext_OffByOne(total) == total > page * size + 1

HasNext(total) == total > page * size

\* The response is shown; the client asks for the next page while there is one.
Respond ==
  /\ pc = "count"
  /\ seen' = [r \in Rows |-> IF r \in got THEN seen[r] + 1 ELSE seen[r]]
  /\ got' = {} /\ ids' = <<>>
  /\ \E total \in Totals :
       IF HasNext(total) THEN pc' = "ids" /\ page' = page + 1
       ELSE pc' = "done" /\ UNCHANGED page
  /\ UNCHANGED <<table, request, history>>

-----------------------------------------------------------------------------
Environment ==
  \/ \E r \in Rows : Insert(r)
  \/ Second
  \/ \E r \in Rows, st \in Statuses : Change(r, st)

Next == Environment \/ QueryIds \/ QueryRows \/ Respond

Spec == Init /\ [][Next]_vars

-----------------------------------------------------------------------------
(* Properties                                                              *)

\* No two rows of one second, which a query orders as it likes.
NoTies == \A r, q \in Existing : created[r] = created[q] => r = q

Repeats == {r \in Rows : seen[r] > 1}

\* Whatever is inserted while a client reads to the end, it has seen every row
\* that was let through when it began, if none has left the filter since.
MissesNothing == pc = "done" /\ NoTies /\ ~left => \A r \in start : seen[r] > 0

\* Each row inserted meanwhile makes at most one other row appear twice, if no
\* status changes; so pages of rows left alone repeat none.
RepeatsBounded ==
  NoTies /\ ~changed => Cardinality(Repeats) <= Cardinality(inserted)
=============================================================================
