----------------------------- MODULE HttpServer -----------------------------
(***************************************************************************)
(* The way of a request through the server, and the accounts its token is  *)
(* about.  The middleware of GracefulShutdown lets it in; then come        *)
(*                                                                         *)
(*   guard -> store -> handler -> (sign) -> answered                       *)
(*                                                                         *)
(* where only essay requests have a guard and only uploads are stored.     *)
(* The global interceptors surround everything after the guard; an         *)
(* exception at any stage is answered by HttpExceptionFilter.  What the    *)
(* essay handlers do is in EssayService: here they return or throw.        *)
(***************************************************************************)
EXTENDS GracefulShutdown, Sequences

CONSTANTS
  Signups, Signins,   \* POST /v1/auth/signup and /v1/auth/signin
  Uploads,            \* POST /v1/submissions with a video
  Names, NameOf,      \* the name each signup and signin is for
  OldStudents         \* the rows of the table when the process starts

Auths == Signups \cup Signins

ASSUME KindsAssumption ==
  /\ Auths \cup Uploads \subseteq Requests
  /\ Signups \cap Signins = {} /\ Auths \cap Uploads = {}
  /\ NameOf \in [Auths -> Names]
  /\ OldStudents \in Seq(Names)

VARIABLES
  stage,      \* where each request is
  students,   \* the rows of the table: the name of student id is students[id]
  user,       \* the id a request is about: of its token, or of the row it found
  tmp,        \* the uploads whose video multer has written to tmp/
  logged,     \* the line LoggingInterceptor wrote for a request
  body,       \* what a request is answered with
  known       \* history: the newest account of its name answered before a signin

accountVars == <<students, user>>
pipelineVars == <<stage, tmp, logged, body>>
httpVars == <<vars, accountVars, pipelineVars, known>>

Stages == {"none", "guard", "store", "handler", "sign", "answered"}

HttpTypeOK ==
  /\ stage \in [Requests -> Stages]
  /\ students \in Seq(Names)
  /\ user \in [Requests -> 0 .. Len(students)]
  /\ tmp \subseteq Uploads
  /\ logged \in [Requests -> {"none", "Request", "error"}]
  /\ body \in [Requests -> {"none", "ok", "failed", "unavailable"}]
  /\ known \in [Requests -> 0 .. Len(students)]

HttpInit ==
  /\ Init
  /\ stage = [r \in Requests |-> "none"]
  /\ students = OldStudents
  /\ user = [r \in Requests |-> 0]
  /\ tmp = {}
  /\ logged = [r \in Requests |-> "none"]
  /\ body = [r \in Requests |-> "none"]
  /\ known = [r \in Requests |-> 0]

-----------------------------------------------------------------------------
Newest(ids) == IF ids = {} THEN 0 ELSE CHOOSE i \in ids : \A j \in ids : j <= i

AnsweredIds(kind) == {user[q] : q \in {a \in kind : body[a] = "ok"}}

\* A token is a signed {id, name}: the client got it from signup or signin.
\* 0 stands for none, an expired one or one that does not verify.
Tokens == AnsweredIds(Auths) \cup DOMAIN OldStudents \cup {0}

Goto(r, from, to) ==
  /\ Alive /\ stage[r] = from
  /\ stage' = [stage EXCEPT ![r] = to]

\* Past the middleware a request meets its guard, or the first interceptor.
FirstStage(r) == IF isShuttingDown THEN "answered"
                 ELSE IF r \in Auths THEN "handler" ELSE "guard"

Accept(r) ==
  /\ Arrive(r)
  /\ Goto(r, "none", FirstStage(r))
  /\ body' = IF isShuttingDown THEN [body EXCEPT ![r] = "unavailable"] ELSE body
  /\ IF r \in Auths THEN UNCHANGED user
     ELSE \E id \in Tokens : user' = [user EXCEPT ![r] = id]
  /\ known' = [known EXCEPT ![r] =
       IF r \in Signins
       THEN Newest({id \in AnsweredIds(Signups) \cup DOMAIN OldStudents :
                      students[id] = NameOf[r]})
       ELSE 0]
  /\ UNCHANGED <<students, tmp, logged>>

\* The interceptors map and log what the handler returned.
ReplyOk(r, from) ==
  /\ Goto(r, from, "answered")
  /\ HandlerEnds(r)
  /\ body' = [body EXCEPT ![r] = "ok"]
  /\ logged' = [logged EXCEPT ![r] = "Request"]

\* catchError of the logging interceptor, then the exception filter.
ReplyFailed(r, from) ==
  /\ Goto(r, from, "answered")
  /\ HandlerEnds(r)
  /\ body' = [body EXCEPT ![r] = "failed"]
  /\ logged' = [logged EXCEPT ![r] = "error"]

Silently == UNCHANGED <<vars, logged, body>>

-----------------------------------------------------------------------------
(* JwtAuthGuard and FileInterceptor                                        *)

\* The token verifies and validate() finds its student.
GuardAdmits(r) ==
  /\ Goto(r, "guard", IF r \in Uploads THEN "store" ELSE "handler")
  /\ user[r] \in DOMAIN students
  /\ Silently /\ UNCHANGED <<accountVars, tmp, known>>

\* Guards run outside the interceptors: the filter answers, nothing is logged.
\* findById may fail for a valid token too.
GuardRefuses(r) ==
  /\ Goto(r, "guard", "answered")
  /\ HandlerEnds(r)
  /\ body' = [body EXCEPT ![r] = "failed"]
  /\ UNCHANGED <<accountVars, tmp, logged, known>>

Store(r) ==
  /\ Goto(r, "store", "handler")
  /\ tmp' = tmp \cup {r}
  /\ Silently /\ UNCHANGED <<accountVars, known>>

StoreFails(r) ==
  /\ ReplyFailed(r, "store")
  /\ UNCHANGED <<accountVars, tmp, known>>

-----------------------------------------------------------------------------
(* Pipes and handlers                                                      *)

EssayReturns(r) ==
  /\ r \notin Auths
  /\ ReplyOk(r, "handler")
  /\ UNCHANGED <<accountVars, tmp, known>>

\* The pipes reject the body or the type of the file, or the handler throws:
\* a name too long for its column, a failing call.  A stored video stays.
HandlerThrows(r) ==
  /\ ReplyFailed(r, "handler")
  /\ UNCHANGED <<accountVars, tmp, known>>

\* Variant: the token is signed for an account that is not inserted yet.
Signup_SignsFirst(r) ==
  /\ r \in Signups
  /\ Goto(r, "handler", "sign")
  /\ user' = [user EXCEPT ![r] = Len(students) + 1]
  /\ Silently /\ UNCHANGED <<students, tmp, known>>

\* Several students may have one name.
Signup(r) ==
  /\ r \in Signups
  /\ Goto(r, "handler", "sign")
  /\ students' = Append(students, NameOf[r])
  /\ user' = [user EXCEPT ![r] = Len(students) + 1]
  /\ Silently /\ UNCHANGED <<tmp, known>>

WithName(name) == {id \in DOMAIN students : students[id] = name}

\* Variant: without the order by id, the first row is found.
FindByName_Oldest(name) ==
  IF WithName(name) = {} THEN 0
  ELSE CHOOSE i \in WithName(name) : \A j \in WithName(name) : i <= j

FindByName(name) == Newest(WithName(name))

Signin(r) ==
  /\ r \in Signins
  /\ FindByName(NameOf[r]) # 0
  /\ Goto(r, "handler", "sign")
  /\ user' = [user EXCEPT ![r] = FindByName(NameOf[r])]
  /\ Silently /\ UNCHANGED <<students, tmp, known>>

\* createToken ends after other requests may have inserted students.
Sign(r) ==
  /\ ReplyOk(r, "sign")
  /\ UNCHANGED <<accountVars, tmp, known>>

SignFails(r) ==
  /\ ReplyFailed(r, "sign")
  /\ UNCHANGED <<accountVars, tmp, known>>

-----------------------------------------------------------------------------
Handle(r) ==
  \/ GuardAdmits(r) \/ GuardRefuses(r)
  \/ Store(r) \/ StoreFails(r)
  \/ EssayReturns(r) \/ HandlerThrows(r)
  \/ Signup(r) \/ Signin(r) \/ Sign(r) \/ SignFails(r)

\* What happens to the connection and the process leaves the pipeline alone.
Surroundings ==
  /\ \/ \E r \in Requests : Finish(r) \/ ClientLeaves(r)
     \/ Shutdown \/ Exited
  /\ UNCHANGED <<accountVars, pipelineVars, known>>

HttpNext == (\E r \in Requests : Accept(r) \/ Handle(r)) \/ Surroundings

HttpSpec == HttpInit /\ [][HttpNext]_httpVars

HttpFairSpec == HttpSpec /\ WF_vars(Tick) /\ WF_vars(Poll) /\ WF_vars(TimeoutFires)

-----------------------------------------------------------------------------
(* Properties                                                              *)

\* A signin is about an account of its name, and never about an older one
\* than was answered to a signup before the signin was sent.
SigninSeesSignups ==
  \A r \in Signins : body[r] = "ok" =>
    /\ user[r] \in DOMAIN students /\ students[user[r]] = NameOf[r]
    /\ user[r] >= known[r]
=============================================================================
