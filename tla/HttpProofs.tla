------------------------------ MODULE HttpProofs ------------------------------
(***************************************************************************)
(* The shutdown, alone and in the server.  For every finite set of         *)
(* requests and every timeout, the counter is the number of unfinished     *)
(* requests, a wait that the counter ends drops nobody, and only the full  *)
(* wait lets the exit cut a request off.  The request pipeline implements  *)
(* that shutdown, so that the same holds of the whole server; and for any  *)
(* requests, names and table the signins find their accounts.              *)
(***************************************************************************)
EXTENDS HttpServer, FiniteSetTheorems, WellFoundedInduction, TLAPS

-----------------------------------------------------------------------------
(* The shutdown                                                            *)

\* The flag is set before the wait, which knows what ended it, and the timeout
\* needs the full wait.
Phased ==
  /\ phase # "up" => isShuttingDown
  /\ phase \in {"up", "waiting"} <=> endedBy = "none"
  /\ endedBy = "timeout" => clock = Timeout
  /\ endedBy = "poll" => Unfinished = {}

Typed ==
  /\ isShuttingDown \in BOOLEAN
  /\ req \in [Requests -> {"none", "running", "sending", "finished", "refused"}]
  /\ connected \in [Requests -> BOOLEAN]
  /\ phase \in {"up", "waiting", "ended", "closing", "exited"}
  /\ endedBy \in {"none", "poll", "timeout"}
  /\ clock \in 0 .. Timeout
  /\ pollDue \in BOOLEAN
  /\ interval \in BOOLEAN
  /\ keepAlive \in BOOLEAN

ShutdownInv == Typed /\ CounterIsUnfinished /\ Phased

\* Unfinished is finite, and changes with the requests only.
LEMMA UnfinishedFinite == IsFiniteSet(Unfinished) /\ Cardinality(Unfinished) \in Nat
                          /\ Cardinality(Unfinished) <= Cardinality(Requests)
<1>1. Unfinished \subseteq Requests
  BY DEF Unfinished
<1> QED
  BY <1>1, RequestsAssumption, FS_Subset, FS_CardinalityType

LEMMA InitInv == Init => ShutdownInv
<1> SUFFICES ASSUME Init PROVE ShutdownInv
  OBVIOUS
<1>1. Unfinished = {}
  BY DEF Init, Unfinished
<1>2. CounterIsUnfinished
  BY <1>1, FS_EmptySet DEF Init, CounterIsUnfinished
<1>3. Typed
  <2>1. 0 \in 0 .. Timeout
    BY TimeoutAssumption
  <2> QED
    BY <2>1, Zenon DEF Init, Typed
<1>4. Phased
  BY DEF Init, Phased
<1> QED
  BY <1>2, <1>3, <1>4 DEF ShutdownInv

\* A request that is let in is counted, one that finishes is not any more.
LEMMA ArriveInv ==
  ASSUME ShutdownInv, NEW r \in Requests, Arrive(r) PROVE ShutdownInv'
<1> USE DEF ShutdownInv
<1>1. Typed'
  BY DEF Typed, Arrive, timerVars
<1>2. CASE isShuttingDown
  <2>1. Unfinished' = Unfinished
    BY <1>2 DEF Unfinished, Arrive, Typed
  <2> QED
    BY <1>1, <1>2, <2>1 DEF CounterIsUnfinished, Phased, Arrive, timerVars
<1>3. CASE ~isShuttingDown
  <2>1. Unfinished' = Unfinished \cup {r} /\ r \notin Unfinished
    BY <1>3 DEF Unfinished, Arrive, Typed
  <2>2. Cardinality(Unfinished') = Cardinality(Unfinished) + 1
    BY <2>1, UnfinishedFinite, FS_AddElement
  <2>3. CounterIsUnfinished'
    BY <1>3, <2>2 DEF CounterIsUnfinished, Arrive
  <2>4. Phased'
    BY <1>3, <1>1 DEF Phased, Arrive, timerVars, Typed
  <2> QED
    BY <1>1, <2>3, <2>4
<1> QED
  BY <1>2, <1>3 DEF Typed

LEMMA FinishInv ==
  ASSUME ShutdownInv, NEW r \in Requests, Finish(r) PROVE ShutdownInv'
<1> USE DEF ShutdownInv
<1>1. Typed'
  BY DEF Typed, Finish, timerVars
<1>2. Unfinished' = Unfinished \ {r} /\ r \in Unfinished
  BY DEF Unfinished, Finish, Typed
<1>3. Cardinality(Unfinished') = Cardinality(Unfinished) - 1
  BY <1>2, UnfinishedFinite, FS_RemoveElement
<1>4. CounterIsUnfinished'
  BY <1>3 DEF CounterIsUnfinished, Finish
<1>5. Phased'
  BY <1>2 DEF Phased, Finish, timerVars
<1> QED
  BY <1>1, <1>4, <1>5

\* The steps that leave the requests where they are.
LEMMA OtherInv ==
  ASSUME ShutdownInv,
         \/ \E r \in Requests : HandlerEnds(r) \/ ClientLeaves(r)
         \/ Shutdown \/ Exited \/ UNCHANGED vars
  PROVE  ShutdownInv'
<1> USE DEF ShutdownInv
<1>1. ASSUME NEW r \in Requests, HandlerEnds(r) PROVE ShutdownInv'
  <2>1. Typed' /\ Unfinished' = Unfinished
    BY <1>1 DEF Typed, HandlerEnds, timerVars, Unfinished
  <2> QED
    BY <1>1, <2>1 DEF CounterIsUnfinished, Phased, HandlerEnds, timerVars
<1>2. ASSUME NEW r \in Requests, ClientLeaves(r) PROVE ShutdownInv'
  <2>1. Typed' /\ Unfinished' = Unfinished
    BY <1>2 DEF Typed, ClientLeaves, timerVars, Unfinished
  <2> QED
    BY <1>2, <2>1 DEF CounterIsUnfinished, Phased, ClientLeaves, timerVars
<1>3. ASSUME Shutdown \/ Exited \/ UNCHANGED vars PROVE ShutdownInv'
  <2>1. UNCHANGED requestVars
    BY <1>3 DEF Shutdown, Signal, Tick, Poll, TimeoutFires, OnShutdown, CloseAndExit,
                Exited, vars, requestVars
  <2>2. Unfinished' = Unfinished /\ CounterIsUnfinished'
    BY <2>1 DEF requestVars, Unfinished, CounterIsUnfinished
  <2>3. Typed'
    <3>1. clock' \in 0 .. Timeout
      BY <1>3, TimeoutAssumption
        DEF Typed, Shutdown, Signal, Tick, Poll, TimeoutFires, OnShutdown, CloseAndExit,
            Exited, vars, timerVars
    <3>2. req' = req /\ connected' = connected
      BY <2>1 DEF requestVars
    <3>3. CASE Signal
      BY <3>1, <3>2, <3>3, Zenon DEF Typed, Signal
    <3>4. CASE Tick
      BY <3>1, <3>2, <3>4, Zenon DEF Typed, Tick
    <3>5. CASE Poll
      <4>1. /\ isShuttingDown' \in BOOLEAN /\ keepAlive' \in BOOLEAN
            /\ pollDue' \in BOOLEAN /\ interval' \in BOOLEAN
        BY <3>5, Zenon DEF Typed, Poll
      <4>2. /\ phase' \in {"up", "waiting", "ended", "closing", "exited"}
            /\ endedBy' \in {"none", "poll", "timeout"}
        BY <3>5 DEF Typed, Poll
      <4> QED
        BY <3>1, <3>2, <4>1, <4>2, Zenon DEF Typed
    <3>6. CASE TimeoutFires
      BY <3>1, <3>2, <3>6, Zenon DEF Typed, TimeoutFires, timerVars
    <3>7. CASE OnShutdown
      BY <3>1, <3>2, <3>7, Zenon DEF Typed, OnShutdown, timerVars
    <3>8. CASE CloseAndExit
      BY <3>1, <3>2, <3>8, Zenon DEF Typed, CloseAndExit, timerVars
    <3>9. CASE Exited \/ UNCHANGED vars
      BY <3>9 DEF Typed, Exited, vars, timerVars, requestVars
    <3> QED
      BY <1>3, <3>3, <3>4, <3>5, <3>6, <3>7, <3>8, <3>9 DEF Shutdown
  <2>4. CASE Poll
    <3>1. connectionCounter = 0 => Unfinished = {}
      BY UnfinishedFinite, FS_EmptySet DEF CounterIsUnfinished
    <3> QED
      BY <2>2, <2>3, <2>4, <3>1 DEF Phased, Poll
  <2>5. CASE ~Poll
    BY <1>3, <2>2, <2>3, <2>5, TimeoutAssumption
      DEF Phased, Typed, Shutdown, Signal, Tick, TimeoutFires, OnShutdown, CloseAndExit,
          Exited, vars, requestVars, timerVars
  <2> QED
    BY <2>4, <2>5
<1> QED
  BY <1>1, <1>2, <1>3

THEOREM ShutdownInvariant == Spec => []ShutdownInv
<1>1. ASSUME ShutdownInv, [Next]_vars PROVE ShutdownInv'
  <2>1. CASE \E r \in Requests : Arrive(r)
    BY <1>1, <2>1, ArriveInv
  <2>2. CASE \E r \in Requests : Finish(r)
    BY <1>1, <2>2, FinishInv
  <2>3. CASE \/ \E r \in Requests : HandlerEnds(r) \/ ClientLeaves(r)
             \/ Shutdown \/ Exited \/ UNCHANGED vars
    BY <1>1, <2>3, OtherInv
  <2> QED
    BY <1>1, <2>1, <2>2, <2>3 DEF Next, Request
<1> QED
  BY <1>1, InitInv, PTL DEF Spec

\* The type invariant: the counter is never negative and never more than the
\* requests.
THEOREM ShutdownTyped == Spec => []TypeOK
<1>1. ShutdownInv => TypeOK
  <2> SUFFICES ASSUME ShutdownInv PROVE TypeOK
    OBVIOUS
  <2>1. Cardinality(Requests) \in Nat
    BY RequestsAssumption, FS_CardinalityType
  <2>2. connectionCounter \in 0 .. Cardinality(Requests)
    BY <2>1, UnfinishedFinite DEF ShutdownInv, CounterIsUnfinished
  <2> QED
    BY <2>2 DEF ShutdownInv, Typed, TypeOK
<1> QED
  BY <1>1, ShutdownInvariant, PTL

\* The middleware's counter is exact (shutdown.config.ts:31-46).
THEOREM CounterExact == Spec => []CounterIsUnfinished
<1>1. ShutdownInv => CounterIsUnfinished
  BY DEF ShutdownInv
<1> QED
  BY <1>1, ShutdownInvariant, PTL

\* A wait ended by the counter drops nobody, and nobody is let in after it.
THEOREM DrainSafe == Spec => []DrainedDropsNobody
<1>1. ShutdownInv => DrainedDropsNobody
  BY DEF ShutdownInv, Phased, Typed, DrainedDropsNobody, Unfinished
<1> QED
  BY <1>1, ShutdownInvariant, PTL

\* The exit cuts a request off only after the full wait.
THEOREM CutOffLate == Spec => []CutOffOnlyAfterTimeout
<1>1. ShutdownInv => CutOffOnlyAfterTimeout
  BY DEF ShutdownInv, Phased, Typed, CutOffOnlyAfterTimeout
<1> QED
  BY <1>1, ShutdownInvariant, PTL

USE DEF accountVars, pipelineVars

-----------------------------------------------------------------------------
(* Newest                                                                  *)

\* A nonempty set of ids has a greatest one: the least distance from n.
LEMMA NewestIs ==
  ASSUME NEW n \in Nat, NEW ids, ids \subseteq 0 .. n
  PROVE  /\ Newest(ids) \in 0 .. n
         /\ ids # {} => Newest(ids) \in ids
         /\ \A j \in ids : j <= Newest(ids)
  <1>1. CASE ids = {}
    BY <1>1 DEF Newest
  <1>2. CASE ids # {}
    <2> DEFINE dist == {n - i : i \in ids}
    <2>0. \A i \in ids : i \in 0 .. n /\ n - i \in Nat
      OBVIOUS
    <2>1. dist \subseteq Nat /\ dist # {}
      BY <1>2, <2>0, Zenon
    <2>2. PICK d \in dist : \A e \in dist : <<e, d>> \notin OpToRel(<, Nat)
      BY <2>1, WFMin, NatLessThanWellFounded
    <2>3. \A e \in dist : d <= e
      <3>1. d \in Nat /\ \A e \in dist : e \in Nat
        BY <2>1
      <3>2. \A e \in dist : ~(e < d)
        <4> SUFFICES ASSUME NEW e \in dist, e < d PROVE FALSE
          OBVIOUS
        <4>1. <<e, d>> \in Nat \X Nat /\ <<e, d>>[1] = e /\ <<e, d>>[2] = d
          BY <3>1
        <4>2. <<e, d>> \in OpToRel(<, Nat)
          BY <4>1 DEF OpToRel
        <4> QED BY <2>2, <4>2
      <3> HIDE DEF dist
      <3> QED BY <3>1, <3>2
    <2>4. PICK i \in ids : d = n - i
      BY <2>2
    <2>5. \A j \in ids : j <= i
      BY <2>3, <2>4
    <2>6. Newest(ids) \in ids /\ \A j \in ids : j <= Newest(ids)
      BY <1>2, <2>5 DEF Newest
    <2>7. Newest(ids) \in 0 .. n
      BY <2>6
    <2> HIDE DEF dist
    <2> QED BY <2>6, <2>7
  <1> QED BY <1>1, <1>2

-----------------------------------------------------------------------------
(* The pipeline implements the shutdown                                    *)

LEMMA HttpStepIsShutdownStep == [HttpNext]_httpVars => [Next]_vars
  <1> SUFFICES ASSUME [HttpNext]_httpVars PROVE [Next]_vars
    OBVIOUS
  <1>1. ASSUME NEW r \in Requests, Accept(r) PROVE Next
    BY <1>1 DEF Accept, Next, Request
  <1>2. ASSUME NEW r \in Requests, Handle(r) PROVE [Next]_vars
    <2>1. HandlerEnds(r) \/ UNCHANGED vars
      BY <1>2 DEF Handle, GuardAdmits, GuardRefuses, Store, StoreFails, EssayReturns,
                  HandlerThrows, Signup, Signin, Sign, SignFails, ReplyOk, ReplyFailed, Silently
    <2> QED BY <2>1 DEF Next, Request
  <1>3. ASSUME Surroundings PROVE Next
    BY <1>3 DEF Surroundings, Next, Request
  <1>4. CASE UNCHANGED httpVars
    BY <1>4 DEF httpVars
  <1> QED BY <1>1, <1>2, <1>3, <1>4 DEF HttpNext

\* The server with its guards, uploads, handlers and interceptors implements
\* the shutdown that counts its requests (shutdown.config.ts:31-98).
THEOREM PipelineImplementsShutdown == HttpSpec => Spec
  <1>1. HttpInit => Init
    BY DEF HttpInit
  <1> QED BY <1>1, HttpStepIsShutdownStep, PTL DEF HttpSpec, Spec

\* The middleware's counter is exact in the whole server.
COROLLARY HttpCounterExact == HttpSpec => []CounterIsUnfinished
  BY PipelineImplementsShutdown, CounterExact, PTL

\* A drain that the counter ends drops nobody.
COROLLARY HttpDrainSafe == HttpSpec => []DrainedDropsNobody
  BY PipelineImplementsShutdown, DrainSafe, PTL

\* The exit cuts a request of the pipeline off only after the full wait.
COROLLARY HttpCutOffLate == HttpSpec => []CutOffOnlyAfterTimeout
  BY PipelineImplementsShutdown, CutOffLate, PTL

-----------------------------------------------------------------------------
(* Types                                                                   *)

\* The table only grows: ids of the first rows stay those of the old students.
HttpTyped ==
  /\ HttpTypeOK
  /\ Len(OldStudents) <= Len(students)
  /\ Signups \subseteq Requests /\ Signins \subseteq Requests
  /\ \A r \in Requests : stage[r] = "store" => r \in Uploads

LEMMA HttpInitTyped == HttpInit => HttpTyped
  <1> SUFFICES ASSUME HttpInit PROVE HttpTyped
    OBVIOUS
  <1>1. OldStudents \in Seq(Names) /\ Len(OldStudents) \in Nat
    BY KindsAssumption
  <1> QED BY <1>1, KindsAssumption DEF HttpInit, HttpTyped, HttpTypeOK, Stages, Auths

\* Ids that a token or an answer names are rows of the table.
LEMMA IdsTyped ==
  ASSUME HttpTyped
  PROVE  /\ Tokens \subseteq 0 .. Len(students)
         /\ AnsweredIds(Signups) \subseteq 0 .. Len(students)
         /\ Len(students) \in Nat /\ DOMAIN students = 1 .. Len(students)
         /\ DOMAIN OldStudents \subseteq DOMAIN students
  <1>1. students \in Seq(Names) /\ OldStudents \in Seq(Names)
    BY KindsAssumption DEF HttpTyped, HttpTypeOK
  <1>2. /\ Len(students) \in Nat /\ DOMAIN students = 1 .. Len(students)
        /\ Len(OldStudents) \in Nat /\ DOMAIN OldStudents = 1 .. Len(OldStudents)
    BY <1>1
  <1>3. /\ AnsweredIds(Auths) \subseteq 0 .. Len(students)
        /\ AnsweredIds(Signups) \subseteq 0 .. Len(students)
    BY DEF AnsweredIds, Auths, HttpTyped, HttpTypeOK
  <1>4. DOMAIN OldStudents \subseteq 1 .. Len(students)
    BY <1>2 DEF HttpTyped
  <1> QED BY <1>2, <1>3, <1>4 DEF Tokens

\* A row that is inserted is of the type of the table, and moves no other.
LEMMA AppendedRow ==
  ASSUME HttpTyped, NEW r \in Signups, Signup(r)
  PROVE  /\ students' \in Seq(Names)
         /\ Len(students') = Len(students) + 1
         /\ DOMAIN students' = DOMAIN students \cup {Len(students) + 1}
         /\ students'[Len(students) + 1] = NameOf[r]
         /\ \A id \in DOMAIN students : students'[id] = students[id]
  <1>1. students \in Seq(Names) /\ NameOf[r] \in Names
    BY KindsAssumption DEF HttpTyped, HttpTypeOK, Auths
  <1> QED BY <1>1 DEF Signup

LEMMA HttpNextTyped ==
  ASSUME HttpTyped, [HttpNext]_httpVars
  PROVE  HttpTyped'
  <1>0. Len(students) \in Nat /\ Signups \subseteq Requests /\ Signins \subseteq Requests
    BY IdsTyped DEF HttpTyped
  <1>1. ASSUME NEW r \in Requests, Accept(r) PROVE HttpTyped'
    <2>1. stage' \in [Requests -> Stages] /\ students' = students /\ tmp' = tmp /\ logged' = logged
      BY <1>1 DEF HttpTyped, HttpTypeOK, Accept, Goto, FirstStage, Stages
    <2>s. \A q \in Requests : stage'[q] = "store" => q \in Uploads
      BY <1>1 DEF HttpTyped, HttpTypeOK, Accept, Goto, FirstStage
    <2>2. body' \in [Requests -> {"none", "ok", "failed", "unavailable"}]
      BY <1>1 DEF HttpTyped, HttpTypeOK, Accept
    <2>3. user' \in [Requests -> 0 .. Len(students)]
      BY <1>1, IdsTyped DEF HttpTyped, HttpTypeOK, Accept
    <2>4. known' \in [Requests -> 0 .. Len(students)]
      <3> DEFINE ids == {id \in AnsweredIds(Signups) \cup DOMAIN OldStudents :
                           students[id] = NameOf[r]}
      <3>1. ids \subseteq 0 .. Len(students)
        BY <1>0, IdsTyped
      <3>2. Newest(ids) \in 0 .. Len(students)
        BY <1>0, <3>1, NewestIs
      <3> QED BY <1>0, <1>1, <3>2 DEF HttpTyped, HttpTypeOK, Accept
    <2> QED BY <2>1, <2>s, <2>2, <2>3, <2>4 DEF HttpTyped, HttpTypeOK
  <1>2. ASSUME NEW r \in Signups, Signup(r) PROVE HttpTyped'
    <2>1. 0 .. Len(students) \subseteq 0 .. Len(students') /\ Len(students') \in 0 .. Len(students')
      BY <1>0, <1>2, AppendedRow
    <2>2. Len(OldStudents) <= Len(students')
      BY <1>0, <1>2, AppendedRow, KindsAssumption DEF HttpTyped
    <2>3. user' \in [Requests -> 0 .. Len(students')] /\ known' \in [Requests -> 0 .. Len(students')]
      BY <1>2, <2>1, AppendedRow DEF Signup, HttpTyped, HttpTypeOK
    <2> QED BY <1>2, <2>2, <2>3, AppendedRow
            DEF Signup, Silently, Goto, Stages, HttpTyped, HttpTypeOK
  <1>3. ASSUME NEW r \in Signins, Signin(r) PROVE HttpTyped'
    <2>1. WithName(NameOf[r]) \subseteq 1 .. Len(students)
      BY IdsTyped DEF WithName
    <2>2. FindByName(NameOf[r]) \in 0 .. Len(students)
      BY <1>0, <2>1, NewestIs DEF FindByName
    <2> QED BY <1>3, <2>2 DEF Signin, Silently, Goto, Stages, HttpTyped, HttpTypeOK
  <1>4. ASSUME NEW r \in Requests,
               \/ GuardAdmits(r) \/ GuardRefuses(r) \/ Store(r) \/ StoreFails(r)
               \/ EssayReturns(r) \/ HandlerThrows(r) \/ Sign(r) \/ SignFails(r)
        PROVE  HttpTyped'
    <2> USE DEF GuardAdmits, GuardRefuses, Store, StoreFails, EssayReturns, HandlerThrows,
                Sign, SignFails, ReplyOk, ReplyFailed, Silently
    <2>1. students' = students /\ user' = user /\ known' = known
      BY <1>4
    <2>2. /\ stage' \in [Requests -> Stages]
          /\ \A q \in Requests : stage'[q] = "store" => q \in Uploads
      <3>1. PICK to \in Stages : stage' = [stage EXCEPT ![r] = to] /\ (to = "store" => r \in Uploads)
        BY <1>4, Zenon DEF Goto, Stages
      <3> QED BY <3>1 DEF HttpTyped, HttpTypeOK
    <2>3. tmp' \subseteq Uploads
      BY <1>4 DEF Goto, HttpTyped, HttpTypeOK
    <2>4. /\ logged' \in [Requests -> {"none", "Request", "error"}]
          /\ body' \in [Requests -> {"none", "ok", "failed", "unavailable"}]
      BY <1>4 DEF HttpTyped, HttpTypeOK
    <2> QED BY <2>1, <2>2, <2>3, <2>4 DEF HttpTyped, HttpTypeOK
  <1>5. CASE Surroundings \/ UNCHANGED httpVars
    BY <1>5 DEF Surroundings, httpVars, HttpTyped, HttpTypeOK
  <1> QED BY <1>1, <1>2, <1>3, <1>4, <1>5 DEF HttpNext, Handle, Signup, Signin

LEMMA HttpTypedAlways == HttpSpec => []HttpTyped
  BY HttpInitTyped, HttpNextTyped, PTL DEF HttpSpec

\* Every variable of the pipeline holds a value of its type: a token is about
\* a row of the table, whatever requests and signups are under way.
THEOREM HttpTypeCorrect == HttpSpec => []HttpTypeOK
  <1>1. HttpTyped => HttpTypeOK
    BY DEF HttpTyped
  <1> QED BY <1>1, HttpTypedAlways, PTL

-----------------------------------------------------------------------------
(* Where a request is                                                      *)

\* The stages of the pipeline and the counts of the middleware agree.
Coupled ==
  \A r \in Requests :
    /\ stage[r] = "none" <=> req[r] = "none"
    /\ stage[r] \in {"guard", "store", "handler", "sign"} <=> req[r] = "running"
    /\ stage[r] = "answered" <=> body[r] # "none"

LEMMA CoupledAlways == HttpSpec => []Coupled
  <1>1. HttpInit => Coupled
    BY DEF HttpInit, Init, Coupled
  <1>2. HttpTyped /\ ShutdownInv /\ Coupled /\ [HttpNext]_httpVars => Coupled'
    <2> SUFFICES ASSUME HttpTyped, ShutdownInv, Coupled, [HttpNext]_httpVars PROVE Coupled'
      OBVIOUS
    <2>0. /\ stage \in [Requests -> Stages]
          /\ body \in [Requests -> {"none", "ok", "failed", "unavailable"}]
          /\ req \in [Requests -> {"none", "running", "sending", "finished", "refused"}]
      BY DEF HttpTyped, HttpTypeOK, ShutdownInv, Typed
    <2>1. ASSUME NEW r \in Requests, Accept(r) PROVE Coupled'
      BY <2>0, <2>1 DEF Accept, Arrive, Goto, FirstStage, Coupled
    <2>2. ASSUME NEW r \in Requests,
                 GuardAdmits(r) \/ Store(r) \/ Signup(r) \/ Signin(r)
          PROVE  Coupled'
      <3>1. PICK to \in {"store", "handler", "sign"} : stage' = [stage EXCEPT ![r] = to]
        BY <2>2, Zenon DEF GuardAdmits, Store, Signup, Signin, Goto
      <3>2. req' = req /\ body' = body /\ stage[r] \in {"guard", "store", "handler"}
        BY <2>2 DEF GuardAdmits, Store, Signup, Signin, Goto, Silently, vars, requestVars
      <3> QED BY <2>0, <3>1, <3>2 DEF Coupled
    <2>3. ASSUME NEW r \in Requests,
                 \/ GuardRefuses(r) \/ StoreFails(r) \/ EssayReturns(r)
                 \/ HandlerThrows(r) \/ Sign(r) \/ SignFails(r)
          PROVE  Coupled'
      <3>1. /\ stage' = [stage EXCEPT ![r] = "answered"] /\ stage[r] # "none"
            /\ req' = [req EXCEPT ![r] = "sending"]
        BY <2>3 DEF GuardRefuses, StoreFails, EssayReturns, HandlerThrows, Sign, SignFails,
                    ReplyOk, ReplyFailed, Goto, HandlerEnds
      <3>2. PICK b \in {"ok", "failed"} : body' = [body EXCEPT ![r] = b]
        BY <2>3, Zenon DEF GuardRefuses, StoreFails, EssayReturns, HandlerThrows, Sign, SignFails,
                    ReplyOk, ReplyFailed
      <3> QED BY <2>0, <3>1, <3>2 DEF Coupled
    <2>4. CASE Surroundings \/ UNCHANGED httpVars
      <3>1. stage' = stage /\ body' = body
        BY <2>4 DEF Surroundings, httpVars
      <3>2. \/ req' = req
            \/ \E r \in Requests : req[r] = "sending" /\ req' = [req EXCEPT ![r] = "finished"]
        BY <2>4 DEF Surroundings, httpVars, Finish, ClientLeaves, Shutdown, Signal, Tick, Poll,
                    TimeoutFires, OnShutdown, CloseAndExit, Exited, vars, requestVars
      <3> QED BY <2>0, <3>1, <3>2 DEF Coupled
    <2> QED BY <2>1, <2>2, <2>3, <2>4 DEF HttpNext, Handle
  <1> QED
    BY <1>1, <1>2, HttpTypedAlways, PipelineImplementsShutdown, ShutdownInvariant, PTL DEF HttpSpec

-----------------------------------------------------------------------------
(* Accounts                                                                *)

Named(id, r) == id \in DOMAIN students /\ students[id] = NameOf[r]

\* From its lookup on, a signin is about a row of its name that is not older
\* than the one known to its client.
AccountInv ==
  \A r \in Signins :
    /\ known[r] # 0 => Named(known[r], r)
    /\ stage[r] = "sign" \/ body[r] = "ok" => Named(user[r], r) /\ user[r] >= known[r]

\* Rows are only appended: what a row is named does not change.
LEMMA NamedStays ==
  ASSUME HttpTyped, [HttpNext]_httpVars
  PROVE  /\ \A id : \A r \in Auths : Named(id, r) => Named(id, r)'
         /\ DOMAIN students \subseteq DOMAIN students'
  <1>1. CASE \E r \in Signups : Signup(r)
    BY <1>1, AppendedRow DEF Named
  <1>2. CASE students' = students
    BY <1>2 DEF Named
  <1> QED
    BY <1>1, <1>2
    DEF HttpNext, httpVars, Accept, Handle, Surroundings, GuardAdmits, GuardRefuses, Store,
        StoreFails, EssayReturns, HandlerThrows, Signup, Signin, Sign, SignFails

\* The account known to the client of a signin has its name.
LEMMA KnownIsNamed ==
  ASSUME HttpTyped, AccountInv, NEW q \in Requests, Accept(q), NEW r \in Signins, known'[r] # 0
  PROVE  Named(known[r], r)'
  <1>0. known \in [Requests -> 0 .. Len(students)] /\ r \in Requests /\ r \in Auths
    BY DEF HttpTyped, HttpTypeOK, Auths
  <1>1. students' = students
    BY DEF Accept
  <1>2. CASE r # q
    BY <1>0, <1>1, <1>2 DEF Accept, AccountInv, Named
  <1>3. CASE r = q
    <2> DEFINE ids == {id \in AnsweredIds(Signups) \cup DOMAIN OldStudents :
                         students[id] = NameOf[r]}
    <2>1. ids \subseteq 0 .. Len(students) /\ Len(students) \in Nat
      BY IdsTyped
    <2>2. known'[r] = Newest(ids)
      BY <1>0, <1>3 DEF Accept
    <2>3. Newest(ids) \in 0 .. Len(students) /\ (ids # {} => Newest(ids) \in ids)
      BY <2>1, NewestIs
    <2>4. ids # {}
      BY <2>2 DEF Newest
    <2>5. known'[r] \in 1 .. Len(students) /\ students[known'[r]] = NameOf[r]
      BY <2>2, <2>3, <2>4
    <2> QED BY <1>1, <2>5, IdsTyped DEF Named
  <1> QED BY <1>2, <1>3

\* The lookup finds the newest row of the name.
LEMMA SigninFindsNewest ==
  ASSUME HttpTyped, AccountInv, NEW r \in Signins, Signin(r)
  PROVE  Named(user'[r], r) /\ user'[r] >= known[r]
  <1>0. /\ user \in [Requests -> 0 .. Len(students)] /\ known \in [Requests -> 0 .. Len(students)]
        /\ r \in Requests /\ Len(students) \in Nat
    BY IdsTyped DEF HttpTyped, HttpTypeOK
  <1>1. WithName(NameOf[r]) \subseteq 0 .. Len(students)
    BY IdsTyped DEF WithName
  <1>2. user'[r] = Newest(WithName(NameOf[r])) /\ Newest(WithName(NameOf[r])) # 0
    BY <1>0 DEF Signin, FindByName
  <1>3. /\ Newest(WithName(NameOf[r])) \in 0 .. Len(students)
        /\ WithName(NameOf[r]) # {} => Newest(WithName(NameOf[r])) \in WithName(NameOf[r])
        /\ \A j \in WithName(NameOf[r]) : j <= Newest(WithName(NameOf[r]))
    BY <1>0, <1>1, NewestIs
  <1>4. WithName(NameOf[r]) # {}
    BY <1>2 DEF Newest
  <1>5. Named(user'[r], r)
    BY <1>2, <1>3, <1>4 DEF Named, WithName
  <1>6. CASE known[r] = 0
    BY <1>0, <1>2, <1>3, <1>5, <1>6
  <1>7. CASE known[r] # 0
    <2>1. known[r] \in WithName(NameOf[r])
      BY <1>7 DEF AccountInv, Named, WithName
    <2> QED BY <1>0, <1>2, <1>3, <1>5, <2>1
  <1> QED BY <1>6, <1>7

\* A signin is answered "ok" from the step after its lookup, and the account
\* known to its client is fixed before.
LEMMA SigninStages ==
  ASSUME HttpTyped, Coupled, [HttpNext]_httpVars, NEW r \in Signins,
         stage'[r] = "sign" \/ body'[r] = "ok"
  PROVE  /\ known'[r] = known[r]
         /\ \/ Signin(r)
            \/ user'[r] = user[r] /\ (stage[r] = "sign" \/ body[r] = "ok")
  <1>0. /\ user \in [Requests -> 0 .. Len(students)] /\ stage \in [Requests -> Stages]
        /\ body \in [Requests -> {"none", "ok", "failed", "unavailable"}]
        /\ known \in [Requests -> 0 .. Len(students)]
        /\ r \in Requests /\ r \in Auths /\ r \notin Signups
    BY KindsAssumption DEF HttpTyped, HttpTypeOK, Auths
  <1>1. ASSUME NEW q \in Requests, Accept(q)
        PROVE  q # r /\ user'[r] = user[r] /\ (stage[r] = "sign" \/ body[r] = "ok")
    BY <1>0, <1>1 DEF Accept, Goto, FirstStage, Coupled
  <1>2. ASSUME NEW q \in Requests, Handle(q), known' = known
        PROVE  \/ Signin(r)
               \/ user'[r] = user[r] /\ (stage[r] = "sign" \/ body[r] = "ok")
    BY <1>0, <1>2 DEF Handle, GuardAdmits, GuardRefuses, Store,
                StoreFails, EssayReturns, HandlerThrows, Signup, Signin, Sign, SignFails,
                ReplyOk, ReplyFailed, Goto, Silently
  <1>3. ASSUME NEW q \in Requests, Handle(q) PROVE known' = known
    BY <1>3 DEF Handle, GuardAdmits, GuardRefuses, Store,
                StoreFails, EssayReturns, HandlerThrows, Signup, Signin, Sign, SignFails
  <1>4. CASE Surroundings \/ UNCHANGED httpVars
    BY <1>4 DEF Surroundings, httpVars
  <1>5. ASSUME NEW q \in Requests, Accept(q) PROVE known'[r] = known[r]
    BY <1>0, <1>1, <1>5 DEF Accept
  <1> QED BY <1>1, <1>2, <1>3, <1>4, <1>5 DEF HttpNext

LEMMA AccountsAlways == HttpSpec => []AccountInv
  <1>1. HttpInit => AccountInv
    BY KindsAssumption DEF HttpInit, AccountInv, Auths
  <1>2. HttpTyped /\ Coupled /\ AccountInv /\ [HttpNext]_httpVars => AccountInv'
    <2> SUFFICES ASSUME HttpTyped, Coupled, AccountInv, [HttpNext]_httpVars PROVE AccountInv'
      OBVIOUS
    <2>1. ASSUME NEW r \in Signins, known'[r] # 0 PROVE Named(known[r], r)'
      <3>1. CASE \E q \in Requests : Accept(q)
        BY <2>1, <3>1, KnownIsNamed
      <3>2. CASE known' = known
        BY <2>1, <3>2, NamedStays DEF AccountInv, Auths
      <3> QED
        BY <3>1, <3>2
        DEF HttpNext, httpVars, Handle, Surroundings, GuardAdmits, GuardRefuses, Store,
            StoreFails, EssayReturns, HandlerThrows, Signup, Signin, Sign, SignFails
    <2>2. ASSUME NEW r \in Signins, stage'[r] = "sign" \/ body'[r] = "ok"
          PROVE  Named(user[r], r)' /\ user'[r] >= known'[r]
      <3>1. CASE Signin(r)
        <4>1. students' = students
          BY <3>1 DEF Signin
        <4>2. Named(user[r], r)'
          BY <3>1, <4>1, SigninFindsNewest DEF Named
        <4> QED BY <2>2, <3>1, <4>2, SigninFindsNewest, SigninStages
      <3>2. CASE user'[r] = user[r] /\ (stage[r] = "sign" \/ body[r] = "ok")
        <4>1. Named(user[r], r) /\ user[r] >= known[r]
          BY <3>2 DEF AccountInv
        <4>2. Named(user[r], r)'
          BY <3>2, <4>1, NamedStays DEF Named, Auths
        <4> QED BY <2>2, <3>2, <4>1, <4>2, SigninStages
      <3> QED BY <2>2, <3>1, <3>2, SigninStages
    <2> QED BY <2>1, <2>2 DEF AccountInv
  <1> QED BY <1>1, <1>2, HttpTypedAlways, CoupledAlways, PTL DEF HttpSpec

\* A signin is answered with an account of its name, never with an older one
\* than its client knew of, however signups of that name interleave
\* (students.service.ts:13, auth.service.ts:13).
THEOREM SigninFindsItsAccount == HttpSpec => []SigninSeesSignups
  <1>1. AccountInv => SigninSeesSignups
    BY DEF AccountInv, SigninSeesSignups, Named
  <1> QED BY <1>1, AccountsAlways, PTL
=============================================================================
