--------------------------- MODULE GracefulShutdown ---------------------------
(***************************************************************************)
(* The shutdown of the process (bootstrap/shutdown.config.ts): a           *)
(* middleware counts the requests it lets in and answers 503 once a signal *)
(* has arrived; the first signal closes the listening socket and waits for *)
(* the counter to become 0, which it looks at every second, for at most    *)
(* Timeout seconds.  Requests on connections that are already open still   *)
(* arrive during that wait.                                                *)
(***************************************************************************)
EXTENDS Naturals, FiniteSets

CONSTANTS
  Requests,   \* the HTTP requests of the life of the process
  Timeout     \* seconds the wait may take

ASSUME RequestsAssumption == IsFiniteSet(Requests)
ASSUME TimeoutAssumption == Timeout \in Nat \ {0}

VARIABLES
  isShuttingDown, connectionCounter,
  req,         \* where each request is
  connected,   \* the client of the request is still there
  phase,       \* of the process: up, waiting, ended (the wait), closing, exited
  endedBy,     \* what ended the wait
  clock,       \* seconds since the wait began, at most Timeout
  pollDue,     \* the interval has elapsed and its callback has not run
  interval,    \* the interval is set
  keepAlive    \* responses may keep their connection

requestVars == <<connectionCounter, req, connected>>
timerVars == <<clock, pollDue, interval>>
vars == <<isShuttingDown, requestVars, phase, endedBy, timerVars, keepAlive>>

TypeOK ==
  /\ isShuttingDown \in BOOLEAN
  /\ connectionCounter \in 0 .. Cardinality(Requests)
  /\ req \in [Requests -> {"none", "running", "sending", "finished", "refused"}]
  /\ connected \in [Requests -> BOOLEAN]
  /\ phase \in {"up", "waiting", "ended", "closing", "exited"}
  /\ endedBy \in {"none", "poll", "timeout"}
  /\ clock \in 0 .. Timeout
  /\ pollDue \in BOOLEAN
  /\ interval \in BOOLEAN
  /\ keepAlive \in BOOLEAN

Init ==
  /\ isShuttingDown = FALSE
  /\ connectionCounter = 0
  /\ req = [r \in Requests |-> "none"]
  /\ connected = [r \in Requests |-> TRUE]
  /\ phase = "up"
  /\ endedBy = "none"
  /\ clock = 0
  /\ pollDue = FALSE
  /\ interval = FALSE
  /\ keepAlive = TRUE

Alive == phase # "exited"

-----------------------------------------------------------------------------
(* Requests                                                                *)

Arrive(r) ==
  /\ Alive /\ req[r] = "none"
  /\ req' = [req EXCEPT ![r] = IF isShuttingDown THEN "refused" ELSE "running"]
  /\ connectionCounter' = IF isShuttingDown THEN connectionCounter
                          ELSE connectionCounter + 1
  /\ UNCHANGED <<isShuttingDown, connected, phase, endedBy, timerVars, keepAlive>>

\* The handler has ended its response, which the client may yet have to read.
HandlerEnds(r) ==
  /\ Alive /\ req[r] = "running"
  /\ req' = [req EXCEPT ![r] = "sending"]
  /\ UNCHANGED <<isShuttingDown, connectionCounter, connected, phase, endedBy,
                 timerVars, keepAlive>>

\* The event 'finish': the whole response has been handed over.
Finish(r) ==
  /\ Alive /\ req[r] = "sending" /\ connected[r]
  /\ req' = [req EXCEPT ![r] = "finished"]
  /\ connectionCounter' = connectionCounter - 1
  /\ UNCHANGED <<isShuttingDown, connected, phase, endedBy, timerVars, keepAlive>>

\* Variant: the counter follows the event 'close' of the connection.
ClientLeaves_Counts(r) ==
  /\ Alive /\ req[r] \in {"running", "sending"} /\ connected[r]
  /\ connected' = [connected EXCEPT ![r] = FALSE]
  /\ connectionCounter' = connectionCounter - 1
  /\ UNCHANGED <<isShuttingDown, req, phase, endedBy, timerVars, keepAlive>>

\* The connection breaks: the handler goes on, its response never finishes.
ClientLeaves(r) ==
  /\ Alive /\ req[r] \in {"running", "sending"} /\ connected[r]
  /\ connected' = [connected EXCEPT ![r] = FALSE]
  /\ UNCHANGED <<isShuttingDown, connectionCounter, req, phase, endedBy,
                 timerVars, keepAlive>>

-----------------------------------------------------------------------------
(* gracefulShutdown                                                        *)

\* Variant: the flag is set once the wait is over.
Signal_FlagLater ==
  /\ phase = "up"
  /\ phase' = "waiting"
  /\ interval' = TRUE
  /\ UNCHANGED <<isShuttingDown, requestVars, endedBy, clock, pollDue, keepAlive>>

\* SIGTERM or SIGINT; a second one returns at once.
Signal ==
  /\ phase = "up" /\ ~isShuttingDown
  /\ isShuttingDown' = TRUE
  /\ phase' = "waiting"
  /\ interval' = TRUE
  /\ UNCHANGED <<requestVars, endedBy, clock, pollDue, keepAlive>>

\* A second passes; a busy event loop may skip callbacks of the interval.
Tick ==
  /\ Alive /\ interval
  /\ clock' = IF clock < Timeout THEN clock + 1 ELSE clock
  /\ pollDue' = TRUE
  /\ UNCHANGED <<isShuttingDown, requestVars, phase, endedBy, interval, keepAlive>>

\* The callback of the interval, which the timeout does not clear.
Poll ==
  /\ Alive /\ interval /\ pollDue
  /\ pollDue' = FALSE
  /\ interval' = (connectionCounter # 0)
  /\ IF connectionCounter = 0 /\ phase = "waiting"
     THEN phase' = "ended" /\ endedBy' = "poll"
     ELSE UNCHANGED <<phase, endedBy>>
  /\ UNCHANGED <<isShuttingDown, requestVars, clock, keepAlive>>

\* Variant: the timeout fires only when a callback of the interval is due too.
TimeoutFires_Polled ==
  /\ phase = "waiting" /\ clock = Timeout /\ connectionCounter = 0
  /\ phase' = "ended"
  /\ endedBy' = "timeout"
  /\ UNCHANGED <<isShuttingDown, requestVars, timerVars, keepAlive>>

TimeoutFires ==
  /\ phase = "waiting" /\ clock = Timeout
  /\ phase' = "ended"
  /\ endedBy' = "timeout"
  /\ UNCHANGED <<isShuttingDown, requestVars, timerVars, keepAlive>>

\* The option onShutdown of main.ts.
OnShutdown ==
  /\ phase = "ended"
  /\ phase' = "closing"
  /\ keepAlive' = FALSE
  /\ UNCHANGED <<isShuttingDown, requestVars, endedBy, timerVars>>

\* app.close() resolves or rejects, whenever it does; the process exits.
CloseAndExit ==
  /\ phase = "closing"
  /\ phase' = "exited"
  /\ UNCHANGED <<isShuttingDown, requestVars, endedBy, timerVars, keepAlive>>

-----------------------------------------------------------------------------
Request(r) == Arrive(r) \/ HandlerEnds(r) \/ Finish(r) \/ ClientLeaves(r)

Shutdown == Signal \/ Tick \/ Poll \/ TimeoutFires \/ OnShutdown \/ CloseAndExit

\* A process that has exited stays so.
Exited == phase = "exited" /\ UNCHANGED vars

Next == (\E r \in Requests : Request(r)) \/ Shutdown \/ Exited

Spec == Init /\ [][Next]_vars

\* Timers elapse; nothing is assumed of handlers, clients and signals.
FairSpec == Spec /\ WF_vars(Tick) /\ WF_vars(Poll) /\ WF_vars(TimeoutFires)

-----------------------------------------------------------------------------
(* Properties                                                              *)

Unfinished == {r \in Requests : req[r] \in {"running", "sending"}}

\* The middleware's counter is the number of requests it let in whose response
\* has not finished, those of clients that went away included.
CounterIsUnfinished == connectionCounter = Cardinality(Unfinished)

\* When the counter ends the wait, every request that was let in has been
\* handled and answered whole, and none is let in until the process exits.
DrainedDropsNobody ==
  endedBy = "poll" =>
    \A r \in Requests : req[r] \in {"none", "finished", "refused"}

\* A request is cut off by the exit only after the full wait.
CutOffOnlyAfterTimeout ==
  phase = "exited" /\ Unfinished # {} => endedBy = "timeout" /\ clock = Timeout

\* The wait ends, whatever handlers and clients do.
WaitEnds == phase = "waiting" ~> phase # "waiting"
=============================================================================
