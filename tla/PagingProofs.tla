----------------------------- MODULE PagingProofs -----------------------------
(***************************************************************************)
(* Theorems about Paging, for every finite table, every page size, both    *)
(* orders and every filter: what a client that reads to the end misses and *)
(* what it is shown twice.                                                 *)
(***************************************************************************)
EXTENDS Paging, FiniteSetTheorems, TLAPS

-----------------------------------------------------------------------------
(* Types                                                                   *)

\* Nothing is known of a reading that has not begun; the ids and the rows of a
\* page are there between its queries; a page shows a row once.
Placed ==
  /\ ~Begun => start = {} /\ inserted = {} /\ \A r \in Rows : seen[r] = 0
  /\ pc \in {"ids", "done"} => ids = <<>>
  /\ pc # "count" => got = {}
  /\ got \subseteq ToSet(ids)
  /\ inserted \subseteq Existing
  /\ page <= Cardinality(Rows) + 1
  /\ \A r \in Rows : seen[r] < page \/ (seen[r] = page /\ pc = "done")

Typed == TypeOK /\ Placed

LEMMA MatchingIsFinite ==
  /\ Cardinality(Rows) \in Nat
  /\ IsFiniteSet(Matching) /\ Cardinality(Matching) \in Nat
  /\ Cardinality(Matching) <= Cardinality(Rows)
  <1>1. Matching \subseteq Rows
    BY DEF Matching, Existing
  <1> QED BY <1>1, RowsAssumption, FS_Subset, FS_CardinalityType

\* An answer to the first query: every matching row at one position.
LEMMA OrderingIs ==
  ASSUME NEW q \in SetToSeqs(Matching)
  PROVE  /\ q \in Seq(Rows) /\ q \in Seq(Matching) /\ Len(q) = Cardinality(Matching)
         /\ DOMAIN q = 1 .. Cardinality(Matching)
         /\ \A i, j \in DOMAIN q : q[i] = q[j] => i = j
         /\ \A r \in Matching : \E i \in DOMAIN q : q[i] = r
  <1> DEFINE n == Cardinality(Matching)
  <1>1. n \in Nat /\ IsFiniteSet(Matching) /\ Matching \subseteq Rows
    BY MatchingIsFinite DEF Matching, Existing
  <1>2. q \in [1 .. n -> Matching] /\ \A i, j \in 1 .. n : i # j => q[i] # q[j]
    BY DEF SetToSeqs
  <1>3. q \in Injection(1 .. n, Matching)
    BY <1>2 DEF Injection, IsInjective
  <1>4. Cardinality(1 .. n) = n
    BY <1>1, FS_Interval
  <1>5. q \in Surjection(1 .. n, Matching)
    BY <1>1, <1>3, <1>4, FS_Injection
  <1>6. \A r \in Matching : \E i \in 1 .. n : q[i] = r
    BY <1>5 DEF Surjection
  <1>7. q \in Seq(Matching) /\ Len(q) = n /\ DOMAIN q = 1 .. n
    BY <1>1, <1>2
  <1>8. q \in Seq(Rows)
    BY <1>1, <1>2, <1>7
  <1> QED BY <1>2, <1>6, <1>7, <1>8

LEMMA LeastIs ==
  ASSUME NEW a \in Nat, NEW b \in Nat
  PROVE  /\ Least(a, b) \in Nat /\ Least(a, b) <= a /\ Least(a, b) <= b
         /\ Least(a, b) = a \/ Least(a, b) = b
  BY DEF Least

\* A page, and the rows of a page by their positions.
Cut(q, skip, m) == SubSeq(q, skip + 1, m)
Window(q, skip, n) == {q[i] : i \in (skip + 1 .. skip + n) \cap DOMAIN q}

LEMMA PageIn ==
  ASSUME NEW S, NEW q, NEW len \in Nat, \A i \in 1 .. len : q[i] \in S,
         NEW skip \in Nat, NEW m \in Nat, m <= len
  PROVE  Cut(q, skip, m) \in Seq(S)
  BY DEF Cut

\* A page of a sequence.
LEMMA PageOf ==
  ASSUME NEW q, NEW len \in Nat, DOMAIN q = 1 .. len,
         NEW skip \in Nat, NEW n \in Nat, n > 0,
         NEW m \in Nat, m <= len, m <= skip + n, m = len \/ m = skip + n
  PROVE  /\ Len(Cut(q, skip, m)) <= n
         /\ ToSet(Cut(q, skip, m)) = Window(q, skip, n)
         /\ len > skip + n => Len(Cut(q, skip, m)) = n
         /\ \A i \in 1 .. Len(Cut(q, skip, m)) :
              i + skip \in DOMAIN q /\ Cut(q, skip, m)[i] = q[i + skip]
  <1> DEFINE p == Cut(q, skip, m)
  <1>0. p \in Seq({q[i] : i \in 1 .. len})
    BY DEF Cut
  <1>1. /\ Len(p) = IF skip + 1 <= m THEN m - skip ELSE 0
        /\ \A i \in 1 .. Len(p) : p[i] = q[i + skip]
    BY DEF Cut
  <1>2. PICK l : l = Len(p)
    OBVIOUS
  <1>3. l \in Nat /\ DOMAIN p = 1 .. l
    BY <1>0, <1>2
  <1> HIDE DEF p
  <1>4. /\ l = IF skip + 1 <= m THEN m - skip ELSE 0
        /\ \A i \in 1 .. l : p[i] = q[i + skip]
    BY <1>1, <1>2
  <1>5. l <= n /\ (len > skip + n => l = n)
    BY <1>4
  <1>6. ASSUME NEW i \in 1 .. l
        PROVE  i + skip \in skip + 1 .. skip + n /\ i + skip \in 1 .. len
    BY <1>3, <1>4
  <1>7. ASSUME NEW i \in skip + 1 .. skip + n, i \in 1 .. len
        PROVE  i - skip \in 1 .. l /\ (i - skip) + skip = i
    <2>1. i \in Int /\ skip + 1 <= i /\ i <= m
      BY <1>7
    <2>2. l = m - skip
      BY <1>4, <2>1
    <2> QED BY <2>1, <2>2
  <1>8. ToSet(p) = Window(q, skip, n)
    <2> DEFINE I == (skip + 1 .. skip + n) \cap DOMAIN q
    <2>1. ToSet(p) = {p[i] : i \in 1 .. l}
      BY <1>3 DEF ToSet
    <2>2. \A i \in I : i - skip \in 1 .. l /\ p[i - skip] = q[i]
      BY <1>4, <1>7
    <2>3. \A i \in 1 .. l : i + skip \in I /\ p[i] = q[i + skip]
      BY <1>4, <1>6
    <2> HIDE DEF I
    <2>4. {p[i] : i \in 1 .. l} = {q[i] : i \in I}
      BY <2>2, <2>3
    <2> QED BY <2>1, <2>4 DEF I, Window
  <1>9. /\ Len(p) <= n /\ (len > skip + n => Len(p) = n)
        /\ \A i \in 1 .. Len(p) : i + skip \in DOMAIN q /\ p[i] = q[i + skip]
    BY <1>2, <1>4, <1>5, <1>6
  <1> QED BY <1>8, <1>9 DEF p

\* The first query: a page of some ordering.
LEMMA QueryIdsIs ==
  ASSUME TypeOK, QueryIds
  PROVE  /\ Skip \in Nat /\ size \in Nat /\ size > 0 /\ Skip + size = page * size
         /\ \E q \in SetToSeqs(Matching) :
              /\ InOrder(q)
              /\ ids' \in Seq(Matching) /\ ids' \in Seq(Rows) /\ Len(ids') <= size
              /\ ToSet(ids') = Window(q, Skip, size)
              /\ Cardinality(Matching) > Skip + size => Len(ids') = size
              /\ \A i \in 1 .. Len(ids') : i + Skip \in DOMAIN q /\ ids'[i] = q[i + Skip]
  <1>0. size \in Nat /\ size > 0 /\ page \in Nat /\ page >= 1
    BY SizesAssumption, MatchingIsFinite DEF TypeOK
  <1>1. Skip \in Nat /\ Skip + size = page * size
    BY <1>0 DEF Skip
  <1>2. PICK q \in SetToSeqs(Matching) :
          InOrder(q) /\ ids' = SubSeq(q, Skip + 1, Least(Skip + size, Len(q)))
    BY DEF QueryIds
  <1>3. PICK len : len = Cardinality(Matching)
    OBVIOUS
  <1>4. /\ len \in Nat /\ Len(q) = len /\ DOMAIN q = 1 .. len
        /\ \A i \in 1 .. len : q[i] \in Matching /\ q[i] \in Rows
    <2>1. q \in Seq(Rows) /\ q \in Seq(Matching) /\ Len(q) = len /\ DOMAIN q = 1 .. len
      BY <1>3, OrderingIs
    <2>2. ASSUME NEW i \in 1 .. len PROVE q[i] \in Matching /\ q[i] \in Rows
      <3>1. i \in DOMAIN q
        BY <2>1
      <3> QED BY <2>1, <3>1
    <2> QED BY <1>3, <2>1, <2>2, MatchingIsFinite
  <1>5. PICK skip : skip = Skip
    OBVIOUS
  <1>6. PICK m : m = Least(skip + size, len)
    OBVIOUS
  <1>7. m \in Nat /\ m <= len /\ m <= skip + size /\ (m = len \/ m = skip + size)
    <2>1. skip + size \in Nat /\ len \in Nat
      BY <1>0, <1>1, <1>4, <1>5
    <2> QED BY <1>6, <2>1, LeastIs
  <1>8. ids' = Cut(q, skip, m)
    BY <1>2, <1>4, <1>5, <1>6 DEF Cut
  <1>9. skip \in Nat
    BY <1>1, <1>5
  <1>10. /\ Len(Cut(q, skip, m)) <= size
         /\ ToSet(Cut(q, skip, m)) = Window(q, skip, size)
         /\ len > skip + size => Len(Cut(q, skip, m)) = size
         /\ \A i \in 1 .. Len(Cut(q, skip, m)) :
              i + skip \in DOMAIN q /\ Cut(q, skip, m)[i] = q[i + skip]
    BY <1>0, <1>4, <1>7, <1>9, PageOf
  <1>11. Cut(q, skip, m) \in Seq(Matching) /\ Cut(q, skip, m) \in Seq(Rows)
    BY <1>4, <1>7, <1>9, PageIn
  <1> QED BY <1>0, <1>1, <1>2, <1>3, <1>5, <1>8, <1>10, <1>11

LEMMA TypedInit == Init => Typed
  <1> SUFFICES ASSUME Init PROVE Typed
    OBVIOUS
  <1>1. Cardinality(Rows) \in Nat
    BY MatchingIsFinite
  <1>2. <<>> \in Seq(Rows) /\ Len(<<>>) = 0 /\ ToSet(<<>>) = {}
    BY DEF ToSet
  <1>3. \A s \in Sizes : s \in Nat
    BY SizesAssumption
  <1>4. TypeOK
    <2>1. size \in Sizes /\ order \in Orders /\ filter \in Filters /\ Len(ids) <= size
      BY <1>2, <1>3 DEF Init
    <2>2. /\ created \in [Rows -> 0 .. MaxClock] /\ status \in [Rows -> Statuses]
          /\ clock \in 1 .. MaxClock
      BY SizesAssumption DEF Init, Statuses
    <2>3. page \in 1 .. 2 * Cardinality(Rows) + 1 /\ seen \in [Rows -> 0 .. 2 * Cardinality(Rows)]
      BY <1>1 DEF Init
    <2> QED BY <1>2, <2>1, <2>2, <2>3 DEF Init, TypeOK
  <1>5. Placed
    BY <1>1, <1>2 DEF Init, Placed, Begun, Existing
  <1> QED BY <1>4, <1>5 DEF Typed

\* A response that asks for another page lies within the table.
LEMMA RespondPage ==
  ASSUME TypeOK, Respond, pc' = "ids"
  PROVE  page' = page + 1 /\ page' <= Cardinality(Rows)
  <1>0. size \in Nat /\ size > 0 /\ page \in Nat /\ page >= 1 /\ IsFiniteSet(got)
    BY SizesAssumption, RowsAssumption, MatchingIsFinite, FS_Subset DEF TypeOK
  <1>1. PICK total \in Totals : HasNext(total) /\ page' = page + 1
    BY DEF Respond
  <1>2. Cardinality(got) \in Nat
    BY <1>0, FS_CardinalityType
  <1>3. Skip + size = page * size /\ Skip \in Nat
    BY <1>0 DEF Skip
  <1>4. total = Cardinality(Matching)
    BY <1>0, <1>1, <1>2, <1>3 DEF Totals, HasNext
  <1>5. page <= page * size
    BY <1>0
  <1>6. page * size \in Nat
    BY <1>0
  <1> QED BY <1>0, <1>1, <1>4, <1>5, <1>6, MatchingIsFinite DEF HasNext

\* The environment leaves the requests alone and the table typed.
LEMMA EnvironmentTyped ==
  ASSUME Typed, Environment
  PROVE  /\ Typed'
         /\ UNCHANGED <<request, page, pc, ids, got, seen, start>>
  <1>1. created \in [Rows -> 0 .. MaxClock] /\ clock \in 1 .. MaxClock /\ MaxClock \in Nat
    BY SizesAssumption DEF Typed, TypeOK
  <1>2. ASSUME NEW r \in Rows, Insert(r)
        PROVE  /\ created' \in [Rows -> 0 .. MaxClock] /\ Existing' = Existing \cup {r}
               /\ inserted' \subseteq Existing' /\ inserted' \subseteq Rows
               /\ ~Begun => inserted' = inserted
    <2>1. PICK t \in 1 .. clock : created' = [created EXCEPT ![r] = t]
      BY <1>2 DEF Insert
    <2>2. t \in 1 .. MaxClock
      BY <1>1
    <2>3. Existing' = Existing \cup {r}
      BY <1>1, <2>1, <2>2 DEF Existing
    <2>4. inserted' = inserted \/ (inserted' = inserted \cup {r} /\ Begun)
      BY <1>2 DEF Insert
    <2> QED BY <1>1, <2>1, <2>2, <2>3, <2>4 DEF Typed, TypeOK, Placed
  <1>3. CASE \E r \in Rows : Insert(r)
    <2>1. PICK r \in Rows : Insert(r)
      BY <1>3
    <2>2. UNCHANGED <<status, clock, request, page, pc, ids, got, seen, start, changed, left>>
      BY <2>1 DEF Insert
    <2>3. TypeOK'
      BY <1>2, <2>1, <2>2 DEF Typed, TypeOK, request
    <2>4. Placed'
      BY <1>2, <2>1, <2>2 DEF Typed, Placed, Begun
    <2> QED BY <2>2, <2>3, <2>4 DEF Typed
  <1>4. CASE Second
    <2>1. clock' \in 1 .. MaxClock
      BY <1>1, <1>4 DEF Second
    <2>2. UNCHANGED <<created, status, request, page, pc, ids, got, seen, history>>
      BY <1>4 DEF Second
    <2>3. TypeOK' /\ Placed'
      BY <2>1, <2>2 DEF Typed, TypeOK, Placed, Begun, Existing, request, history
    <2> QED BY <2>2, <2>3 DEF Typed, history
  <1>5. CASE \E r \in Rows, st \in Statuses : Change(r, st)
    <2>1. PICK r \in Rows, st \in Statuses : Change(r, st)
      BY <1>5
    <2>2. /\ UNCHANGED <<created, clock, request, page, pc, ids, got, seen, start, inserted>>
          /\ status' = [status EXCEPT ![r] = st]
          /\ changed' \in BOOLEAN /\ left' \in BOOLEAN
      BY <2>1 DEF Change, Typed, TypeOK
    <2>3. TypeOK' /\ Placed'
      BY <2>2 DEF Typed, TypeOK, Placed, Begun, Existing, request
    <2> QED BY <2>2, <2>3 DEF Typed
  <1> QED BY <1>3, <1>4, <1>5 DEF Environment

LEMMA QueriesTyped ==
  ASSUME Typed, QueryIds \/ QueryRows
  PROVE  Typed'
  <1>0. page \in Nat /\ page >= 1 /\ \A r \in Rows : seen[r] \in Nat
    BY MatchingIsFinite DEF Typed, TypeOK
  <1>1. Matching \subseteq Rows
    BY DEF Matching, Existing
  <1>2. CASE QueryIds
    <2>1. /\ ids' \in Seq(Rows) /\ Len(ids') <= size
          /\ UNCHANGED <<table, request, page, got, seen, inserted, changed, left>>
          /\ pc = "ids" /\ pc' = "rows"
          /\ start' \subseteq Rows
      BY <1>1, <1>2, QueryIdsIs DEF QueryIds, Typed, TypeOK
    <2>2. TypeOK'
      BY <2>1 DEF Typed, TypeOK, table, request
    <2>3. Placed'
      BY <1>0, <2>1 DEF Typed, Placed, Begun, Existing, table
    <2> QED BY <2>2, <2>3 DEF Typed
  <1>3. CASE QueryRows
    <2>1. /\ UNCHANGED <<table, request, page, ids, seen, history>>
          /\ pc = "rows" /\ pc' = "count" /\ got' = ToSet(ids) \cap Matching
      BY <1>3 DEF QueryRows
    <2>2. TypeOK'
      BY <1>1, <2>1 DEF Typed, TypeOK, table, request, history
    <2>3. Placed'
      BY <1>0, <2>1 DEF Typed, Placed, Begun, Existing, table, history
    <2> QED BY <2>2, <2>3 DEF Typed
  <1> QED BY <1>2, <1>3

LEMMA RespondTyped ==
  ASSUME Typed, Respond
  PROVE  Typed'
  <1>0. /\ page \in Nat /\ page >= 1 /\ \A r \in Rows : seen[r] \in Nat
        /\ Cardinality(Rows) \in Nat /\ page <= Cardinality(Rows) + 1
    BY MatchingIsFinite DEF Typed, TypeOK, Placed
  <1>1. /\ UNCHANGED <<table, request, history>> /\ got' = {} /\ ids' = <<>> /\ pc = "count"
        /\ seen' = [r \in Rows |-> IF r \in got THEN seen[r] + 1 ELSE seen[r]]
        /\ \/ pc' = "ids" /\ page' = page + 1
           \/ pc' = "done" /\ page' = page
    BY DEF Respond
  <1>2. page' \in Nat /\ page' >= 1 /\ page' <= Cardinality(Rows) + 1
    BY <1>0, <1>1, RespondPage DEF Typed
  <1>3. \A r \in Rows : seen'[r] \in Nat /\ (seen'[r] < page' \/ (seen'[r] = page' /\ pc' = "done"))
    <2> TAKE r \in Rows
    <2>1. seen[r] < page
      BY <1>1 DEF Typed, Placed
    <2>2. seen'[r] = seen[r] \/ seen'[r] = seen[r] + 1
      BY <1>1
    <2> QED BY <1>0, <1>1, <2>1, <2>2
  <1>4. \A r \in Rows : seen'[r] <= 2 * Cardinality(Rows)
    <2> TAKE r \in Rows
    <2>1. Cardinality(Rows) >= 1
      BY <1>0, RowsAssumption, FS_EmptySet
    <2> QED BY <1>0, <1>2, <1>3, <2>1
  <1>5. seen' \in [Rows -> 0 .. 2 * Cardinality(Rows)]
    BY <1>0, <1>1, <1>3, <1>4
  <1>6. /\ <<>> \in Seq(Rows) /\ Len(<<>>) = 0
        /\ size \in Nat
    BY SizesAssumption DEF Typed, TypeOK
  <1>7. page' \in 1 .. 2 * Cardinality(Rows) + 1
    BY <1>0, <1>2
  <1>8. TypeOK'
    BY <1>1, <1>5, <1>6, <1>7 DEF Typed, TypeOK, table, request, history
  <1>9. Placed'
    <2>1. Begun' /\ inserted' \subseteq Existing'
      BY <1>0, <1>1 DEF Begun, Typed, Placed, Existing, table, history
    <2> QED BY <1>1, <1>2, <1>3, <2>1 DEF Placed
  <1> QED BY <1>8, <1>9 DEF Typed

LEMMA TypedStep ==
  ASSUME Typed, [Next]_vars
  PROVE  Typed'
  <1>1. CASE UNCHANGED vars
    BY <1>1 DEF vars, table, request, history, Typed, TypeOK, Placed, Begun, Existing
  <1> QED BY <1>1, EnvironmentTyped, QueriesTyped, RespondTyped DEF Next

\* The rows, the requests and the history keep their types, for every table:
\* a client asks for no more pages than the table has rows (Totals, HasNext).
THEOREM PagingTyped == Spec => []TypeOK
  <1>1. Init => Typed
    BY TypedInit
  <1>2. Typed /\ [Next]_vars => Typed'
    BY TypedStep
  <1>3. Typed => TypeOK
    BY DEF Typed
  <1> QED BY <1>1, <1>2, <1>3, PTL DEF Spec

-----------------------------------------------------------------------------
(* The rank of a row                                                       *)

Before(r, q) == IF order = "ASC" THEN created[r] < created[q] ELSE created[r] > created[q]
Ahead(r) == {q \in Matching : Before(q, r)}
Rank(r) == Cardinality(Ahead(r))

LEMMA BeforeIs ==
  ASSUME TypeOK
  PROVE  /\ \A r, q \in Rows : ~(Before(r, q) /\ Before(q, r))
         /\ \A r, q, s \in Rows : Before(r, q) /\ Before(q, s) => Before(r, s)
         /\ NoTies => \A r, q \in Existing : Before(r, q) \/ Before(q, r) \/ r = q
  <1>1. \A r \in Rows : created[r] \in Nat
    BY SizesAssumption DEF TypeOK
  <1>2. Existing \subseteq Rows
    BY DEF Existing
  <1> QED BY <1>1, <1>2 DEF Before, NoTies

LEMMA RankIs ==
  ASSUME NEW r
  PROVE  IsFiniteSet(Ahead(r)) /\ Rank(r) \in Nat
  BY MatchingIsFinite, FS_Subset, FS_CardinalityType DEF Ahead, Rank

\* A row that is ahead of another one has a smaller rank.
LEMMA RankStrict ==
  ASSUME TypeOK, NEW r \in Matching, NEW q \in Rows, Before(r, q)
  PROVE  Rank(r) < Rank(q)
  <1>0. Matching \subseteq Rows
    BY DEF Matching, Existing
  <1>1. Ahead(r) \subseteq Ahead(q)
    BY <1>0, BeforeIs DEF Ahead
  <1>2. r \in Ahead(q) /\ r \notin Ahead(r)
    BY <1>0, BeforeIs DEF Ahead
  <1>3. Cardinality(Ahead(r)) <= Cardinality(Ahead(q)) /\ Cardinality(Ahead(r)) # Cardinality(Ahead(q))
    BY <1>1, <1>2, RankIs, FS_Subset
  <1> QED BY <1>3, RankIs DEF Rank

LEMMA RankDistinct ==
  ASSUME TypeOK, NoTies, NEW r \in Matching, NEW q \in Matching, Rank(r) = Rank(q)
  PROVE  r = q
  <1>1. r \in Rows /\ q \in Rows /\ r \in Existing /\ q \in Existing
    BY DEF Matching, Existing
  <1>2. Before(r, q) \/ Before(q, r) \/ r = q
    BY <1>1, BeforeIs
  <1>3. ~Before(r, q) /\ ~Before(q, r)
    BY <1>1, RankStrict, RankIs
  <1> QED BY <1>2, <1>3

\* There are more matching rows than are ahead of one of them.
LEMMA RankBounded ==
  ASSUME TypeOK, NEW r \in Matching
  PROVE  Rank(r) < Cardinality(Matching)
  <1>1. Ahead(r) \subseteq Matching /\ r \notin Ahead(r)
    BY BeforeIs DEF Ahead, Matching, Existing
  <1> QED BY <1>1, RankIs, MatchingIsFinite, FS_Subset DEF Rank

\* Without ties an answer has every row at its rank.
LEMMA Position ==
  ASSUME TypeOK, NoTies, NEW q \in SetToSeqs(Matching), InOrder(q), NEW i \in DOMAIN q
  PROVE  Rank(q[i]) = i - 1
  <1> DEFINE n == Cardinality(Matching)
             B == 1 .. (i - 1)
             f == [j \in B |-> q[j]]
  <1>1. n \in Nat /\ DOMAIN q = 1 .. n /\ i \in Nat /\ i >= 1 /\ i <= n
    BY MatchingIsFinite, OrderingIs
  <1>2. /\ \A j \in 1 .. n : q[j] \in Matching /\ q[j] \in Rows /\ q[j] \in Existing
        /\ \A j, k \in 1 .. n : q[j] = q[k] => j = k
        /\ \A r \in Matching : \E j \in 1 .. n : q[j] = r
    <2>1. q \in [1 .. n -> Matching]
      BY DEF SetToSeqs
    <2> QED BY <1>1, <2>1, OrderingIs DEF Matching, Existing
  <1>3. \A j, k \in 1 .. n : j < k => Before(q[j], q[k])
    <2> SUFFICES ASSUME NEW j \in 1 .. n, NEW k \in 1 .. n, j < k PROVE Before(q[j], q[k])
      OBVIOUS
    <2>1. q[j] # q[k] /\ created[q[j]] # created[q[k]]
      BY <1>1, <1>2 DEF NoTies
    <2>2. created[q[j]] \in Nat /\ created[q[k]] \in Nat
      BY <1>2, SizesAssumption DEF TypeOK
    <2>3. IF order = "ASC" THEN created[q[j]] <= created[q[k]]
          ELSE created[q[j]] >= created[q[k]]
      BY <1>1 DEF InOrder
    <2> QED BY <2>1, <2>2, <2>3 DEF Before
  <1>4. \A j \in 1 .. n : Before(q[j], q[i]) <=> j < i
    <2> TAKE j \in 1 .. n
    <2>1. j < i \/ j = i \/ i < j
      BY <1>1
    <2>2. ~Before(q[i], q[i]) /\ ~(Before(q[i], q[j]) /\ Before(q[j], q[i]))
      BY <1>1, <1>2, BeforeIs
    <2> QED BY <1>1, <1>3, <2>1, <2>2
  <1>5. \A j \in B : j \in 1 .. n /\ j < i
    BY <1>1
  <1>6. \A j \in 1 .. n : j < i => j \in B
    BY <1>1
  <1> HIDE DEF B, n
  <1>7. f \in Bijection(B, Ahead(q[i]))
    <2>1. \A j \in B : f[j] \in Ahead(q[i])
      BY <1>2, <1>4, <1>5 DEF Ahead
    <2>2. \A j, k \in B : f[j] = f[k] => j = k
      BY <1>2, <1>5
    <2>3. \A r \in Ahead(q[i]) : \E j \in B : f[j] = r
      <3> TAKE r \in Ahead(q[i])
      <3>1. PICK j \in 1 .. n : q[j] = r
        BY <1>2 DEF Ahead
      <3> QED BY <1>4, <1>6, <3>1 DEF Ahead
    <2> HIDE DEF f
    <2>4. f \in [B -> Ahead(q[i])]
      BY <2>1 DEF f
    <2> QED BY <2>2, <2>3, <2>4 DEF Bijection, Injection, Surjection, IsInjective
  <1>8. IsFiniteSet(B) /\ Cardinality(B) = i - 1
    <2>1. i - 1 \in Int /\ 1 \in Int
      BY <1>1
    <2>2. IsFiniteSet(1 .. (i - 1)) /\ Cardinality(1 .. (i - 1)) = IF 1 > i - 1 THEN 0 ELSE (i - 1) - 1 + 1
      BY <2>1, FS_Interval
    <2>3. (IF 1 > i - 1 THEN 0 ELSE (i - 1) - 1 + 1) = i - 1
      BY <1>1
    <2> QED BY <2>2, <2>3 DEF B
  <1>9. Cardinality(B) = Cardinality(Ahead(q[i]))
    <2>1. ExistsBijection(B, Ahead(q[i]))
      BY <1>7 DEF ExistsBijection
    <2> QED BY <1>8, <2>1, FS_Bijection
  <1> QED BY <1>8, <1>9 DEF Rank

-----------------------------------------------------------------------------
(* The two invariants                                                      *)

Shown == {r \in Rows : seen[r] > 0}
Sure == NoTies /\ ~left
Quiet == NoTies /\ ~changed

\* Whoever has not been shown yet is on the page that is read, or still ahead
\* of the client: then the page is full.
StillToCome(r) ==
  CASE pc = "ids" -> Rank(r) >= Skip
    [] pc = "done" -> FALSE
    [] OTHER -> \/ r \in ToSet(ids)
                \/ Rank(r) >= Skip + size /\ Cardinality(ToSet(ids)) = size

NoneMissed ==
  Sure =>
    /\ start \subseteq Matching /\ ToSet(ids) \subseteq Matching
    /\ pc = "count" => got = ToSet(ids)
    /\ \A r \in start : seen[r] = 0 => StillToCome(r)

\* The rows that are repeated, or are going to be if nothing is inserted: those
\* shown, or about to be, that lie behind the last page read.
Edge == IF pc = "ids" THEN Skip ELSE Skip + size
Taken == Shown \cup ToSet(ids)
Behind == {r \in Taken : Rank(r) >= Edge}
Repeating == Repeats \cup (Shown \cap ToSet(ids)) \cup Behind

FewRepeated ==
  Quiet => Taken \subseteq Matching /\ Cardinality(Repeating) <= Cardinality(inserted)

-----------------------------------------------------------------------------
(* The steps                                                               *)

\* A page of rows without ties holds the ranks from Skip on, and as many rows
\* as it may if there are more.
LEMMA PageByRank ==
  ASSUME Typed, NoTies, QueryIds
  PROVE  /\ Skip \in Nat /\ size \in Nat
         /\ ToSet(ids') \subseteq Matching
         /\ \A r \in Matching : r \in ToSet(ids') <=> Skip <= Rank(r) /\ Rank(r) < Skip + size
         /\ Cardinality(Matching) > Skip + size => Cardinality(ToSet(ids')) = size
  <1>0. TypeOK
    BY DEF Typed
  <1>1. /\ Skip \in Nat /\ size \in Nat
        /\ \E q \in SetToSeqs(Matching) :
              /\ InOrder(q)
              /\ ids' \in Seq(Matching)
              /\ ToSet(ids') = Window(q, Skip, size)
              /\ Cardinality(Matching) > Skip + size => Len(ids') = size
              /\ \A i \in 1 .. Len(ids') : i + Skip \in DOMAIN q /\ ids'[i] = q[i + Skip]
    BY <1>0, QueryIdsIs
  <1>2. PICK q \in SetToSeqs(Matching) :
              /\ InOrder(q)
              /\ ids' \in Seq(Matching)
              /\ ToSet(ids') = Window(q, Skip, size)
              /\ Cardinality(Matching) > Skip + size => Len(ids') = size
              /\ \A i \in 1 .. Len(ids') : i + Skip \in DOMAIN q /\ ids'[i] = q[i + Skip]
    BY <1>1
  <1>3. PICK n : n = Cardinality(Matching)
    OBVIOUS
  <1>4. /\ n \in Nat /\ DOMAIN q = 1 .. n
        /\ \A i, j \in 1 .. n : q[i] = q[j] => i = j
        /\ \A r \in Matching : \E i \in 1 .. n : q[i] = r
        /\ \A i \in 1 .. n : q[i] \in Matching
    <2>1. q \in [1 .. n -> Matching]
      BY <1>3 DEF SetToSeqs
    <2> QED BY <1>3, <2>1, OrderingIs, MatchingIsFinite
  <1>5. \A i \in 1 .. n : Rank(q[i]) = i - 1
    BY <1>0, <1>2, <1>4, Position
  <1>6. PICK skip : skip = Skip
    OBVIOUS
  <1>7. ASSUME NEW r \in Matching
        PROVE  r \in ToSet(ids') <=> skip <= Rank(r) /\ Rank(r) < skip + size
    <2>1. PICK i \in 1 .. n : q[i] = r
      BY <1>4
    <2>2. r \in Window(q, skip, size) <=> i \in skip + 1 .. skip + size
      BY <1>4, <2>1 DEF Window
    <2>3. Rank(r) = i - 1 /\ i \in Nat
      BY <1>5, <2>1
    <2> QED BY <1>1, <1>2, <1>6, <2>2, <2>3
  <1>8. ToSet(ids') \subseteq Matching
    BY <1>2, <1>4 DEF Window
  <1>9. Cardinality(ToSet(ids')) = Len(ids')
    <2>1. PICK l : l = Len(ids')
      OBVIOUS
    <2>2. l \in Nat /\ DOMAIN ids' = 1 .. l
      BY <1>2, <2>1
    <2>3. \A i \in 1 .. l : i + skip \in 1 .. n /\ ids'[i] = q[i + skip]
      BY <1>2, <1>4, <1>6, <2>1
    <2> DEFINE f == [i \in 1 .. l |-> ids'[i]]
    <2>4. ToSet(ids') = {ids'[i] : i \in 1 .. l}
      BY <2>2 DEF ToSet
    <2>5. f \in [1 .. l -> ToSet(ids')] /\ \A r \in ToSet(ids') : \E i \in 1 .. l : f[i] = r
      BY <2>4
    <2>6. \A i, j \in 1 .. l : f[i] = f[j] => i = j
      <3> SUFFICES ASSUME NEW i \in 1 .. l, NEW j \in 1 .. l, f[i] = f[j] PROVE i = j
        OBVIOUS
      <3>1. q[i + skip] = q[j + skip]
        BY <2>3
      <3>2. i + skip = j + skip
        BY <1>4, <2>3, <3>1
      <3> QED BY <1>1, <1>6, <2>2, <3>2
    <2> HIDE DEF f
    <2>7. f \in Bijection(1 .. l, ToSet(ids'))
      BY <2>5, <2>6 DEF Bijection, Injection, Surjection, IsInjective
    <2>8. IsFiniteSet(1 .. l) /\ Cardinality(1 .. l) = l
      BY <2>2, FS_Interval
    <2>9. ExistsBijection(1 .. l, ToSet(ids'))
      BY <2>7 DEF ExistsBijection
    <2> QED BY <2>1, <2>8, <2>9, FS_Bijection
  <1> QED BY <1>1, <1>2, <1>6, <1>7, <1>8, <1>9

\* What the environment does to the matching rows and their ranks.
LEMMA EnvironmentIs ==
  ASSUME Typed, Environment
  PROVE  /\ Existing \subseteq Existing' /\ (NoTies' => NoTies)
         /\ order' = order /\ \A r \in Existing : created'[r] = created[r]
         /\ (~left' => ~left) /\ (~changed' => ~changed)
         /\ Begun /\ ~left' => Matching \subseteq Matching'
         /\ inserted \subseteq inserted'
  <1>1. \A r \in Existing : created'[r] = created[r] /\ r \in Existing'
    <2>1. CASE \E r \in Rows : Insert(r)
      BY <2>1 DEF Insert, Existing, Typed, TypeOK
    <2>2. CASE Second \/ \E r \in Rows, st \in Statuses : Change(r, st)
      BY <2>2 DEF Second, Change, Existing
    <2> QED BY <2>1, <2>2 DEF Environment
  <1>2. order' = order /\ filter' = filter
    BY EnvironmentTyped DEF request
  <1>4. NoTies' => NoTies
    BY <1>1 DEF NoTies
  <1>5. /\ (~left' => ~left) /\ (~changed' => ~changed)
        /\ inserted \subseteq inserted'
    BY DEF Environment, Insert, Second, Change, history, Typed, TypeOK
  <1>6. ASSUME Begun, ~left', NEW r \in Matching PROVE status'[r] \in filter
    <2>1. CASE status'[r] = status[r]
      BY <2>1 DEF Matching
    <2>2. CASE status'[r] # status[r]
      <3>1. PICK s \in Rows, st \in Statuses : Change(s, st)
        BY <2>2 DEF Environment, Insert, Second
      <3>2. s = r /\ status'[r] = st
        BY <2>2, <3>1 DEF Change, Typed, TypeOK, Matching, Existing
      <3> QED BY <1>6, <3>1, <3>2 DEF Change, Matching
    <2> QED BY <2>1, <2>2
  <1>7. Begun /\ ~left' => Matching \subseteq Matching'
    BY <1>1, <1>2, <1>6 DEF Matching, Existing
  <1> QED BY <1>1, <1>2, <1>4, <1>5, <1>7

\* No row moves forward in the listing.
LEMMA RankGrows ==
  ASSUME Typed, Environment, Begun, ~left', NEW r \in Existing
  PROVE  Rank(r) <= Rank(r)' /\ Rank(r) \in Nat /\ Rank(r)' \in Nat
  <1>1. Ahead(r) \subseteq Ahead(r)'
    <2>1. \A q \in Existing : Before(q, r)' <=> Before(q, r)
      BY EnvironmentIs DEF Before
    <2> QED BY <2>1, EnvironmentIs DEF Ahead, Matching
  <1>2. Matching' \subseteq Rows
    BY DEF Matching, Existing
  <1>3. IsFiniteSet(Ahead(r)')
    BY <1>2, RowsAssumption, FS_Subset DEF Ahead
  <1>4. Cardinality(Ahead(r)) <= Cardinality(Ahead(r)') /\ Cardinality(Ahead(r)') \in Nat
    BY <1>1, <1>3, FS_Subset, FS_CardinalityType
  <1> QED BY <1>4, RankIs DEF Rank

-----------------------------------------------------------------------------
(* Nothing is missed                                                       *)

LEMMA SkipIs ==
  ASSUME TypeOK
  PROVE  /\ Skip \in Nat /\ size \in Nat /\ size > 0 /\ page \in Nat /\ page >= 1
         /\ Skip + size = page * size
         /\ ToSet(<<>>) = {}
  <1>1. size \in Nat /\ size > 0 /\ page \in Nat /\ page >= 1
    BY SizesAssumption, MatchingIsFinite DEF TypeOK
  <1>2. Skip \in Nat /\ Skip + size = page * size
    BY <1>1 DEF Skip
  <1> QED BY <1>1, <1>2 DEF ToSet

LEMMA NoneMissedEnvironment ==
  ASSUME Typed, NoneMissed, Environment
  PROVE  NoneMissed'
  <1> SUFFICES ASSUME Sure'
               PROVE  (/\ start \subseteq Matching /\ ToSet(ids) \subseteq Matching
                       /\ pc = "count" => got = ToSet(ids)
                       /\ \A r \in start : seen[r] = 0 => StillToCome(r))'
    BY DEF NoneMissed
  <1>1. UNCHANGED <<request, page, pc, ids, got, seen, start>> /\ Begun' = Begun
    BY EnvironmentTyped DEF Begun
  <1>2. ~left' /\ Sure
    <2>1. NoTies' /\ ~left'
      BY DEF Sure
    <2>2. NoTies /\ ~left
      BY <2>1, EnvironmentIs
    <2> QED BY <2>1, <2>2 DEF Sure
  <1>3. CASE ~Begun
    BY <1>1, <1>3, SkipIs DEF Typed, Placed, Begun
  <1>4. CASE Begun
    <2>1. /\ Matching \subseteq Matching'
          /\ start \subseteq Matching /\ ToSet(ids) \subseteq Matching
          /\ pc = "count" => got = ToSet(ids)
          /\ \A r \in start : seen[r] = 0 => StillToCome(r)
      BY <1>2, <1>4, EnvironmentIs DEF NoneMissed
    <2>2. ASSUME NEW r \in start, seen'[r] = 0 PROVE StillToCome(r)'
      <3>1. r \in Existing
        BY <2>1 DEF Matching
      <3>2. Rank(r) <= Rank(r)' /\ Rank(r) \in Nat /\ Rank(r)' \in Nat
        BY <1>2, <1>4, <3>1, RankGrows
      <3>3. StillToCome(r) /\ Skip' = Skip /\ size' = size
        BY <1>1, <2>1, <2>2 DEF Skip, request
      <3>4. Skip \in Nat /\ size \in Nat
        BY SkipIs DEF Typed
      <3> QED BY <1>1, <3>2, <3>3, <3>4 DEF StillToCome
    <2> QED BY <1>1, <2>1, <2>2
  <1> QED BY <1>3, <1>4

LEMMA NoneMissedQueryIds ==
  ASSUME Typed, NoneMissed, QueryIds
  PROVE  NoneMissed'
  <1>1. /\ UNCHANGED <<table, request, page, got, seen, inserted, changed, left>>
        /\ pc = "ids" /\ pc' = "rows" /\ start' = IF page = 1 THEN Matching ELSE start
    BY DEF QueryIds
  <1>2. /\ Matching' = Matching /\ NoTies' = NoTies /\ Skip' = Skip
        /\ \A r : Rank(r)' = Rank(r)
    BY <1>1 DEF Matching, Existing, NoTies, Skip, Rank, Ahead, Before, table, request
  <1> SUFFICES ASSUME Sure'
               PROVE  /\ start' \subseteq Matching /\ ToSet(ids') \subseteq Matching
                      /\ \A r \in start' : seen[r] = 0 => StillToCome(r)'
    BY <1>1, <1>2 DEF NoneMissed
  <1>3. Sure
    BY <1>1, <1>2 DEF Sure
  <1>4. /\ ToSet(ids') \subseteq Matching /\ Skip \in Nat /\ size \in Nat /\ page \in Nat
        /\ \A r \in Matching : r \in ToSet(ids') <=> Skip <= Rank(r) /\ Rank(r) < Skip + size
        /\ Cardinality(Matching) > Skip + size => Cardinality(ToSet(ids')) = size
    BY <1>3, PageByRank, SkipIs DEF Sure, Typed
  <1>5. start' \subseteq Matching
    BY <1>1, <1>3 DEF NoneMissed
  <1>6. ASSUME NEW r \in start', seen[r] = 0 PROVE StillToCome(r)'
    <2>1. r \in Matching /\ Rank(r) \in Nat /\ Cardinality(Matching) \in Nat
      BY <1>5, RankIs, MatchingIsFinite
    <2>2. Rank(r) >= Skip
      <3>1. CASE page = 1
        BY <1>4, <2>1, <3>1 DEF Skip
      <3>2. CASE page # 1
        BY <1>1, <1>3, <1>6, <3>2 DEF NoneMissed, StillToCome
      <3> QED BY <3>1, <3>2
    <2>3. Rank(r) < Cardinality(Matching)
      BY <2>1, RankBounded DEF Typed
    <2>4. r \in ToSet(ids') \/ (Rank(r) >= Skip + size /\ Cardinality(ToSet(ids')) = size)
      BY <1>4, <2>1, <2>2, <2>3
    <2> QED BY <1>1, <1>2, <2>4 DEF StillToCome, request
  <1> QED BY <1>4, <1>5, <1>6

LEMMA NoneMissedQueryRows ==
  ASSUME Typed, NoneMissed, QueryRows
  PROVE  NoneMissed'
  <1>1. /\ UNCHANGED <<table, request, page, ids, seen, history>>
        /\ pc = "rows" /\ pc' = "count" /\ got' = ToSet(ids) \cap Matching
    BY DEF QueryRows
  <1>2. /\ Matching' = Matching /\ Sure' = Sure /\ Skip' = Skip
        /\ \A r : Rank(r)' = Rank(r)
    BY <1>1 DEF Matching, Existing, Sure, NoTies, Skip, Rank, Ahead, Before, table, request, history
  <1>3. \A r : StillToCome(r) => StillToCome(r)'
    BY <1>1, <1>2 DEF StillToCome, request
  <1> QED BY <1>1, <1>2, <1>3 DEF NoneMissed, history

LEMMA NoneMissedRespond ==
  ASSUME Typed, NoneMissed, Respond
  PROVE  NoneMissed'
  <1>1. /\ UNCHANGED <<table, request, history>> /\ ids' = <<>> /\ pc = "count"
        /\ seen' = [r \in Rows |-> IF r \in got THEN seen[r] + 1 ELSE seen[r]]
        /\ pc' \in {"ids", "done"}
        /\ \E total \in Totals :
             IF HasNext(total) THEN pc' = "ids" /\ page' = page + 1 ELSE pc' = "done"
    BY DEF Respond
  <1>2. /\ Matching' = Matching /\ Sure' = Sure
        /\ \A r : Rank(r)' = Rank(r)
    BY <1>1 DEF Matching, Existing, Sure, NoTies, Rank, Ahead, Before, table, request, history
  <1>3. /\ Skip \in Nat /\ size \in Nat /\ size > 0 /\ page \in Nat
        /\ Skip + size = page * size /\ ToSet(<<>>) = {}
    BY SkipIs DEF Typed
  <1> SUFFICES ASSUME Sure, NEW r \in start, seen'[r] = 0
               PROVE  StillToCome(r)'
    BY <1>1, <1>2, <1>3 DEF NoneMissed, history
  <1>4. r \in Rows /\ r \in Matching /\ seen[r] \in Nat
    BY MatchingIsFinite DEF NoneMissed, Typed, TypeOK
  <1>5. r \notin got /\ seen[r] = 0
    BY <1>1, <1>4
  <1>6. Rank(r) >= Skip + size /\ Cardinality(got) = size
    BY <1>1, <1>5 DEF NoneMissed, StillToCome
  <1>7. Rank(r) < Cardinality(Matching) /\ Rank(r) \in Nat /\ Cardinality(Matching) \in Nat
    BY <1>4, RankBounded, RankIs, MatchingIsFinite DEF Typed
  <1>8. \A total \in Totals : HasNext(total)
    BY <1>3, <1>6, <1>7 DEF Totals, HasNext
  <1>9. pc' = "ids" /\ page' = page + 1
    BY <1>1, <1>8
  <1>10. Skip' = Skip + size
    BY <1>1, <1>3, <1>9 DEF Skip, request
  <1> QED BY <1>2, <1>6, <1>9, <1>10 DEF StillToCome

LEMMA NoneMissedStep ==
  ASSUME Typed, NoneMissed, [Next]_vars
  PROVE  NoneMissed'
  <1>1. CASE UNCHANGED vars
    BY <1>1 DEF vars, table, request, history, NoneMissed, Sure, NoTies, StillToCome, Rank,
                Ahead, Before, Matching, Existing, Skip
  <1> QED BY <1>1, NoneMissedEnvironment, NoneMissedQueryIds, NoneMissedQueryRows,
             NoneMissedRespond DEF Next

\* A client that reads a listing to the end has been shown every row that was
\* in it from the beginning to the end, whatever is inserted and whatever joins
\* meanwhile, provided that no two rows are of one second: for every table,
\* page size, order and filter (offset-pagination.util.ts:27).
THEOREM ReadersMissNothing == Spec => []MissesNothing
  <1>1. Init => Typed /\ NoneMissed
    <2> SUFFICES ASSUME Init PROVE Typed /\ NoneMissed
      OBVIOUS
    <2>1. Typed
      BY TypedInit
    <2> QED BY <2>1, SkipIs DEF Init, Typed, NoneMissed
  <1>2. Typed /\ NoneMissed /\ [Next]_vars => Typed' /\ NoneMissed'
    BY TypedStep, NoneMissedStep
  <1>3. Typed /\ NoneMissed => MissesNothing
    <2> SUFFICES ASSUME Typed, NoneMissed, pc = "done", Sure, NEW r \in start
                 PROVE  seen[r] > 0
      BY DEF MissesNothing, Sure
    <2>1. seen[r] # 0 /\ r \in Rows
      BY DEF NoneMissed, StillToCome, Matching, Existing
    <2> QED BY <2>1, MatchingIsFinite DEF Typed, TypeOK
  <1> QED BY <1>1, <1>2, <1>3, PTL DEF Spec

-----------------------------------------------------------------------------
(* Few rows are repeated                                                   *)

\* A row that is inserted pushes a row back by one rank at most.
LEMMA InsertIs ==
  ASSUME Typed, NEW x \in Rows, Insert(x)
  PROVE  /\ x \notin Existing /\ Matching' \subseteq Matching \cup {x}
         /\ Matching \subseteq Matching'
         /\ \A r \in Existing : Rank(r)' \in Nat /\ Rank(r)' <= Rank(r) + 1
  <1>1. /\ x \notin Existing /\ UNCHANGED <<status, order, filter>>
        /\ \A r \in Rows : r # x => created'[r] = created[r]
    BY DEF Insert, Existing, request, Typed, TypeOK
  <1>2. Matching' \subseteq Matching \cup {x} /\ Matching \subseteq Matching'
    BY <1>1 DEF Matching, Existing
  <1>3. ASSUME NEW r \in Existing
        PROVE  Rank(r)' \in Nat /\ Rank(r)' <= Rank(r) + 1
    <2>1. \A q \in Existing : Before(q, r)' <=> Before(q, r)
      BY <1>1 DEF Before, Existing
    <2>2. Ahead(r)' \subseteq Ahead(r) \cup {x}
      BY <1>2, <2>1 DEF Ahead, Matching
    <2>3. IsFiniteSet(Ahead(r) \cup {x}) /\ Cardinality(Ahead(r) \cup {x}) \in Nat
          /\ Cardinality(Ahead(r) \cup {x}) <= Cardinality(Ahead(r)) + 1
      <3>1. IsFiniteSet(Ahead(r)) /\ Cardinality(Ahead(r)) \in Nat
        BY RankIs, FS_CardinalityType
      <3>2. IsFiniteSet(Ahead(r) \cup {x}) /\ Cardinality(Ahead(r) \cup {x}) =
              IF x \in Ahead(r) THEN Cardinality(Ahead(r)) ELSE Cardinality(Ahead(r)) + 1
        BY <3>1, FS_AddElement
      <3> QED BY <3>1, <3>2
    <2>4. IsFiniteSet(Ahead(r)') /\ Cardinality(Ahead(r)') <= Cardinality(Ahead(r) \cup {x})
      BY <2>2, <2>3, FS_Subset
    <2>5. Cardinality(Ahead(r)') \in Nat
      BY <2>4, FS_CardinalityType
    <2> QED BY <2>3, <2>4, <2>5, RankIs DEF Rank
  <1> QED BY <1>1, <1>2, <1>3

LEMMA RepeatingIs ==
  ASSUME ToSet(ids) \subseteq Rows
  PROVE  IsFiniteSet(Repeating) /\ Cardinality(Repeating) \in Nat
  <1>1. Repeating \subseteq Rows
    BY DEF Repeating, Repeats, Shown, Behind, Taken
  <1> QED BY <1>1, RowsAssumption, FS_Subset, FS_CardinalityType

LEMMA FewRepeatedInsert ==
  ASSUME Typed, FewRepeated, NEW x \in Rows, Insert(x)
  PROVE  FewRepeated'
  <1>0. UNCHANGED <<page, pc, ids, seen, changed, request>> /\ Begun' = Begun
    BY DEF Insert, Begun, table
  <1> SUFFICES ASSUME Quiet'
               PROVE  Taken' \subseteq Matching' /\ Cardinality(Repeating') <= Cardinality(inserted')
    BY DEF FewRepeated
  <1>1. Environment
    BY DEF Environment
  <1>2. Quiet
    <2>1. NoTies' /\ ~changed'
      BY DEF Quiet
    <2> QED BY <1>1, <2>1, EnvironmentIs DEF Quiet
  <1>3. /\ Taken \subseteq Matching /\ Cardinality(Repeating) <= Cardinality(inserted)
        /\ Taken' = Taken /\ Shown' = Shown /\ Repeats' = Repeats /\ Edge' = Edge
    BY <1>0, <1>2 DEF FewRepeated, Taken, Shown, Repeats, Edge, Skip, request
  <1>4. Taken' \subseteq Matching'
    BY <1>3, InsertIs
  <1>5. Matching \subseteq Existing /\ Existing \subseteq Rows
    BY DEF Matching, Existing
  <1>6. ToSet(ids) \subseteq Rows
    BY <1>3, <1>5 DEF Taken
  <1>7. CASE ~Begun
    <2>1. Taken = {} /\ Repeats = {}
      BY <1>7, SkipIs DEF Typed, Placed, Taken, Shown, Repeats, Begun
    <2>2. Repeating' = {} /\ inserted' = {}
      BY <1>3, <1>7, <2>1 DEF Repeating, Behind, Taken, Insert, Typed, Placed
    <2> QED BY <1>4, <2>2, FS_EmptySet
  <1>8. CASE Begun
    <2>1. inserted' = inserted \cup {x} /\ x \notin inserted
      BY <1>8, InsertIs DEF Insert, Typed, Placed
    <2>2. IsFiniteSet(inserted)
      BY RowsAssumption, FS_Subset DEF Typed, TypeOK
    <2>3. Cardinality(inserted') = Cardinality(inserted) + 1 /\ Cardinality(inserted) \in Nat
      BY <2>1, <2>2, FS_AddElement, FS_CardinalityType
    <2>4. Edge \in Nat
      BY SkipIs DEF Typed, Edge
    <2>5. \E z : Behind' \subseteq Behind \cup {z}
      <3>1. \A r \in Behind' : r \in Taken /\ r \in Matching /\ Rank(r) >= Edge - 1 /\ Rank(r) \in Nat
        <4> TAKE r \in Behind'
        <4>1. r \in Taken /\ r \in Existing /\ Rank(r)' >= Edge
          BY <1>3, <1>5 DEF Behind
        <4>2. Rank(r)' \in Nat /\ Rank(r)' <= Rank(r) + 1 /\ Rank(r) \in Nat
          BY <4>1, InsertIs, RankIs
        <4> QED BY <1>3, <2>4, <4>1, <4>2
      <3>2. \A r \in Behind' : r \in Behind \/ Rank(r) = Edge - 1
        BY <2>4, <3>1 DEF Behind
      <3>3. \A r, s \in Behind' : Rank(r) = Rank(s) => r = s
        BY <1>2, <3>1, RankDistinct DEF Quiet, Typed
      <3>4. CASE \A r \in Behind' : r \in Behind
        BY <3>4
      <3>5. CASE \E r \in Behind' : r \notin Behind
        <4>1. PICK z \in Behind' : z \notin Behind
          BY <3>5
        <4>2. Behind' \subseteq Behind \cup {z}
          BY <3>2, <3>3, <4>1
        <4> QED BY <4>2
      <3> QED BY <3>4, <3>5
    <2>6. PICK z : Behind' \subseteq Behind \cup {z}
      BY <2>5
    <2>7. Repeating' \subseteq Repeating \cup {z}
      BY <1>0, <1>3, <2>6 DEF Repeating
    <2>8. IsFiniteSet(Repeating \cup {z}) /\ Cardinality(Repeating \cup {z}) <= Cardinality(Repeating) + 1
          /\ Cardinality(Repeating) \in Nat
      BY <1>6, RepeatingIs, FS_AddElement
    <2>9. Cardinality(Repeating') <= Cardinality(Repeating \cup {z})
          /\ Cardinality(Repeating') \in Nat /\ Cardinality(Repeating \cup {z}) \in Nat
      BY <2>7, <2>8, FS_Subset, FS_CardinalityType
    <2> QED BY <1>3, <1>4, <2>3, <2>8, <2>9
  <1> QED BY <1>7, <1>8

LEMMA FewRepeatedEnvironment ==
  ASSUME Typed, FewRepeated, Environment
  PROVE  FewRepeated'
  <1>1. CASE \E r \in Rows : Insert(r)
    BY <1>1, FewRepeatedInsert
  <1>2. CASE Second
    BY <1>2 DEF Second, history, request, FewRepeated, Quiet, NoTies, Taken, Shown, Repeating,
       Repeats, Behind, Edge, Skip, Rank, Ahead, Before, Matching, Existing
  <1>3. CASE \E r \in Rows, st \in Statuses : Change(r, st)
    <2>1. PICK r \in Rows, st \in Statuses : Change(r, st)
      BY <1>3
    <2>2. CASE changed'
      BY <2>2 DEF FewRepeated, Quiet
    <2>3. CASE ~changed'
      <3>1. ~Begun /\ UNCHANGED <<pc, page, ids, seen, inserted>>
        BY <2>1, <2>3 DEF Change
      <3>2. Taken' = {} /\ Repeats' = {} /\ inserted' = {} /\ Shown' = {}
        BY <3>1, SkipIs DEF Typed, Placed, Taken, Shown, Repeats, Begun
      <3>3. Repeating' = {}
        BY <3>2 DEF Repeating, Behind
      <3> QED BY <3>2, <3>3, FS_EmptySet DEF FewRepeated
    <2> QED BY <2>2, <2>3
  <1> QED BY <1>1, <1>2, <1>3 DEF Environment

\* What the requests do to the rows that are repeated.
LEMMA FewRepeatedShrink ==
  ASSUME FewRepeated, Typed, inserted' = inserted, Quiet' => Quiet,
         Quiet => Taken' \subseteq Matching' /\ Repeating' \subseteq Repeating
  PROVE  FewRepeated'
  <1> SUFFICES ASSUME Quiet'
               PROVE  Taken' \subseteq Matching' /\ Cardinality(Repeating') <= Cardinality(inserted')
    BY DEF FewRepeated
  <1>1. /\ Taken \subseteq Matching /\ Cardinality(Repeating) <= Cardinality(inserted)
        /\ Taken' \subseteq Matching' /\ Repeating' \subseteq Repeating
    BY DEF FewRepeated
  <1>2. ToSet(ids) \subseteq Rows
    BY <1>1 DEF Taken, Matching, Existing
  <1>3. IsFiniteSet(inserted) /\ Cardinality(inserted) \in Nat
    BY RowsAssumption, FS_Subset, FS_CardinalityType DEF Typed, TypeOK
  <1>4. IsFiniteSet(Repeating) /\ Cardinality(Repeating) \in Nat
    BY <1>2, RepeatingIs
  <1>5. Cardinality(Repeating') <= Cardinality(Repeating) /\ Cardinality(Repeating') \in Nat
    BY <1>1, <1>4, FS_Subset, FS_CardinalityType
  <1> QED BY <1>1, <1>3, <1>4, <1>5

LEMMA FewRepeatedQueryIds ==
  ASSUME Typed, FewRepeated, QueryIds
  PROVE  FewRepeated'
  <1>1. /\ UNCHANGED <<table, request, page, got, seen, inserted, changed, left>>
        /\ pc = "ids" /\ pc' = "rows"
    BY DEF QueryIds
  <1>2. /\ Matching' = Matching /\ Quiet' = Quiet /\ Skip' = Skip
        /\ Shown' = Shown /\ Repeats' = Repeats
        /\ \A r : Rank(r)' = Rank(r)
    BY <1>1 DEF Matching, Existing, NoTies, Quiet, Skip, Rank, Ahead, Before, table, request,
                Shown, Repeats
  <1>3. ASSUME Quiet
        PROVE  Taken' \subseteq Matching' /\ Repeating' \subseteq Repeating
    <2>1. /\ ToSet(ids') \subseteq Matching /\ Skip \in Nat /\ size \in Nat
          /\ \A r \in Matching : r \in ToSet(ids') <=> Skip <= Rank(r) /\ Rank(r) < Skip + size
      BY <1>3, PageByRank DEF Quiet
    <2>2. Taken \subseteq Matching /\ Taken' = Shown \cup ToSet(ids')
      BY <1>2, <1>3 DEF FewRepeated, Taken
    <2>3. Edge = Skip /\ Edge' = Skip + size
      BY <1>1, <1>2 DEF Edge, request
    <2>4. \A r \in Shown \cap ToSet(ids') : r \in Behind
      BY <2>1, <2>3 DEF Behind, Taken
    <2>5. \A r \in Behind' : r \in Behind
      <3> SUFFICES ASSUME NEW r \in Behind' PROVE r \in Behind
        OBVIOUS
      <3>1. r \in Taken' /\ Rank(r) >= Skip + size
        BY <1>2, <2>3 DEF Behind
      <3>2. r \in Shown /\ Rank(r) >= Skip
        <4>1. Rank(r) \in Nat
          BY RankIs
        <4>2. r \notin ToSet(ids')
          BY <2>1, <3>1, <4>1
        <4> QED BY <2>1, <2>2, <3>1, <4>1, <4>2
      <3> QED BY <2>3, <3>2 DEF Behind, Taken
    <2> QED BY <1>2, <2>1, <2>2, <2>4, <2>5 DEF Repeating, Taken
  <1> QED BY <1>1, <1>2, <1>3, FewRepeatedShrink

LEMMA FewRepeatedQueryRows ==
  ASSUME Typed, FewRepeated, QueryRows
  PROVE  FewRepeated'
  <1>1. UNCHANGED <<table, request, page, ids, seen, history>> /\ pc = "rows" /\ pc' = "count"
    BY DEF QueryRows
  <1> QED BY <1>1 DEF history, table, request, FewRepeated, Quiet, NoTies, Taken, Shown, Repeating,
             Repeats, Behind, Edge, Skip, Rank, Ahead, Before, Matching, Existing

LEMMA FewRepeatedRespond ==
  ASSUME Typed, FewRepeated, Respond
  PROVE  FewRepeated'
  <1>1. /\ UNCHANGED <<table, request, history>> /\ ids' = <<>> /\ pc = "count"
        /\ seen' = [r \in Rows |-> IF r \in got THEN seen[r] + 1 ELSE seen[r]]
        /\ \/ pc' = "ids" /\ page' = page + 1
           \/ pc' = "done" /\ page' = page
    BY DEF Respond
  <1>2. /\ Matching' = Matching /\ Quiet' = Quiet /\ inserted' = inserted
        /\ \A r : Rank(r)' = Rank(r)
    BY <1>1 DEF Matching, Existing, Quiet, NoTies, Rank, Ahead, Before, table, request, history
  <1>3. /\ Skip \in Nat /\ size \in Nat /\ page \in Nat /\ ToSet(ids') = {}
    BY <1>1, SkipIs DEF Typed
  <1>4. Edge' = Edge
    <2>1. CASE pc' = "ids" /\ page' = page + 1
      BY <1>1, <1>3, <2>1 DEF Edge, Skip, request
    <2>2. CASE pc' = "done" /\ page' = page
      BY <1>1, <2>2 DEF Edge, Skip, request
    <2> QED BY <1>1, <2>1, <2>2
  <1>5. got \subseteq ToSet(ids) /\ \A r \in Rows : seen[r] \in Nat
    BY MatchingIsFinite DEF Typed, TypeOK, Placed
  <1>6. Shown' \subseteq Shown \cup ToSet(ids)
    BY <1>1, <1>5 DEF Shown
  <1>7. Repeats' \subseteq Repeats \cup (Shown \cap ToSet(ids))
    <2> SUFFICES ASSUME NEW r \in Repeats', r \notin Repeats
                 PROVE  r \in Shown /\ r \in ToSet(ids)
      OBVIOUS
    <2>1. r \in Rows /\ seen'[r] > 1 /\ ~(seen[r] > 1) /\ seen[r] \in Nat
      BY <1>5 DEF Repeats
    <2>2. r \in got /\ seen[r] > 0
      BY <1>1, <2>1
    <2> QED BY <1>5, <2>1, <2>2 DEF Shown
  <1>8. Taken' \subseteq Taken /\ Behind' \subseteq Behind
    BY <1>2, <1>3, <1>4, <1>6 DEF Taken, Behind
  <1>9. Repeating' \subseteq Repeating
    BY <1>3, <1>7, <1>8 DEF Repeating
  <1>10. Quiet => Taken' \subseteq Matching'
    BY <1>2, <1>8 DEF FewRepeated
  <1> QED BY <1>2, <1>9, <1>10, FewRepeatedShrink

LEMMA FewRepeatedStep ==
  ASSUME Typed, FewRepeated, [Next]_vars
  PROVE  FewRepeated'
  <1>1. CASE UNCHANGED vars
    BY <1>1 DEF vars, table, request, history, FewRepeated, Quiet, NoTies, Taken, Shown, Repeating,
                Repeats, Behind, Edge, Skip, Rank, Ahead, Before, Matching, Existing
  <1> QED BY <1>1, FewRepeatedEnvironment, FewRepeatedQueryIds, FewRepeatedQueryRows,
             FewRepeatedRespond DEF Next

\* Each row that is inserted while a client reads makes at most one other row
\* appear on two pages, as long as no row changes its status and no two are of
\* one second (offset-pagination.util.ts:27): an insertion pushes one row over
\* the edge of the last page read.
THEOREM InsertionsRepeatFew == Spec => []RepeatsBounded
  <1>1. Init => Typed /\ FewRepeated
    <2> SUFFICES ASSUME Init PROVE Typed /\ FewRepeated
      OBVIOUS
    <2>1. Typed
      BY TypedInit
    <2>2. Taken = {} /\ Repeats = {} /\ Shown = {}
      BY SkipIs, <2>1 DEF Init, Taken, Shown, Repeats, Typed
    <2>3. Repeating = {} /\ inserted = {}
      BY <2>2 DEF Init, Repeating, Behind
    <2> QED BY <2>1, <2>2, <2>3, FS_EmptySet DEF FewRepeated
  <1>2. Typed /\ FewRepeated /\ [Next]_vars => Typed' /\ FewRepeated'
    BY TypedStep, FewRepeatedStep
  <1>3. Typed /\ FewRepeated => RepeatsBounded
    <2> SUFFICES ASSUME Typed, FewRepeated, Quiet
                 PROVE  Cardinality(Repeats) <= Cardinality(inserted)
      BY DEF RepeatsBounded, Quiet
    <2>1. Taken \subseteq Matching /\ Cardinality(Repeating) <= Cardinality(inserted)
      BY DEF FewRepeated
    <2>2. ToSet(ids) \subseteq Rows
      BY <2>1 DEF Taken, Matching, Existing
    <2>3. IsFiniteSet(inserted) /\ Cardinality(inserted) \in Nat
      BY RowsAssumption, FS_Subset, FS_CardinalityType DEF Typed, TypeOK
    <2>4. IsFiniteSet(Repeating) /\ Cardinality(Repeating) \in Nat
      BY <2>2, RepeatingIs
    <2>5. Repeats \subseteq Repeating
      BY DEF Repeating
    <2>6. Cardinality(Repeats) <= Cardinality(Repeating) /\ Cardinality(Repeats) \in Nat
      BY <2>4, <2>5, FS_Subset, FS_CardinalityType
    <2> QED BY <2>1, <2>3, <2>4, <2>6
  <1> QED BY <1>1, <1>2, <1>3, PTL DEF Spec
=============================================================================
