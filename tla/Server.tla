------------------------------- MODULE Server -------------------------------
(***************************************************************************)
(* The life of the process: the two HTTP servers, the access log of the S3 *)
(* router, the clean-up worker and Shutdown (internal/server/server.go,    *)
(* internal/s3api/router.go, cmd/stiva/main.go).                           *)
(*                                                                         *)
(* A request on the S3 port may end in a log line, which it sends to       *)
(* logChan without blocking; one goroutine collects the lines per target   *)
(* and stores them with PutObject.  Shutdown must let the requests finish, *)
(* then the log worker, and only then close the storage engine.            *)
(*                                                                         *)
(* A line is named after its request.  The engine is open or closed; what  *)
(* its Close waits for is the subject of Dispatcher and BucketDBCache.     *)
(***************************************************************************)
EXTENDS Naturals, Sequences, FiniteSets

CONSTANTS Requests,         \* requests on the S3 port
          ConsoleRequests,  \* requests on the console port
          Callers,          \* callers of Shutdown
          Targets,          \* log targets: bucket and prefix
          QueueCap,         \* capacity of logChan
          FlushAt,          \* lines that make the worker flush at once
          Nobody

ASSUME ServerAssumption ==
    /\ QueueCap \in Nat \ {0} /\ FlushAt \in Nat \ {0}
    /\ Nobody \notin Callers

VARIABLES
    listening,    \* the ports that accept connections
    req,          \* S3 request -> "none", "headers", "serving", "logging", "done"
    console,      \* console request -> "none", "serving", "done"
    logChan,      \* the queue of the log worker
    open,         \* logChan is not closed
    lines,        \* target -> lines buffered by the worker
    worker,       \* "run", "flush", "last" (flush on close), "stopped"
    flushing,     \* targets the worker has still to flush
    cleanupStop,  \* that channel is closed
    sweep,        \* clean-up worker: "waiting", "sweeping", "stopped"
    engine,       \* "open" or "closed"
    expired,      \* the deadline of the shutdown context has passed
    pc, owner,    \* per caller: where it is in Shutdown; who runs shutdownOnce
    errs, result, \* what it has collected, and what it returned
    settled,      \* history: lines stored, refused by PutObject or dropped at
                  \* the full queue,
    panicked,     \* requests that sent on the closed channel,
    late,         \* requests whose headers were unread at the deadline,
    cut           \* requests in flight when the engine was closed

log == <<logChan, open, lines, worker, flushing, settled>>
requests == <<req, console, panicked>>
shutdown == <<pc, owner, errs, result, cleanupStop, expired, late, cut>>
serverVars == <<listening, requests, log, sweep, engine, shutdown>>

ServerInit ==
    /\ listening = {"s3", "console"}
    /\ req = [r \in Requests |-> "none"] /\ console = [r \in ConsoleRequests |-> "none"]
    /\ logChan = <<>> /\ open = TRUE
    /\ lines = [t \in Targets |-> {}] /\ worker = "run" /\ flushing = {}
    /\ cleanupStop = FALSE /\ sweep = "sweeping"
    /\ engine = "open" /\ expired = FALSE
    /\ pc = [c \in Callers |-> "none"] /\ owner = Nobody
    /\ errs = FALSE /\ result = [c \in Callers |-> "none"]
    /\ settled = {} /\ panicked = {} /\ late = {} /\ cut = {}

(* activeReqs: between Add at the start of ServeHTTP and the deferred Done. *)
ActiveReqs == {r \in Requests : req[r] \in {"serving", "logging"}}
-----------------------------------------------------------------------------
(***************************************************************************)
(* Requests on the S3 port.                                                *)
(***************************************************************************)
Goto(r, to) == req' = [req EXCEPT ![r] = to]

(* A connection, new or kept alive, whose headers are still to be read;    *)
(* they may take up to the 30 seconds of ReadHeaderTimeout.                *)
Connect(r) ==
    /\ "s3" \in listening /\ req[r] = "none"
    /\ Goto(r, "headers")
    /\ UNCHANGED <<listening, console, panicked, log, sweep, engine, shutdown>>

(* The client goes away, ReadHeaderTimeout strikes, or net/http's Shutdown *)
(* closes the connection as idle, without an error: a kept-alive one at    *)
(* once, a new one some seconds after it was accepted.                     *)
HeadersNeverCome(r) ==
    /\ req[r] = "headers"
    /\ Goto(r, "done")
    /\ UNCHANGED <<listening, console, panicked, log, sweep, engine, shutdown>>

ServeHTTP(r) ==
    /\ req[r] = "headers"
    /\ Goto(r, "serving")
    /\ UNCHANGED <<listening, console, panicked, log, sweep, engine, shutdown>>

(* serveHTTPInternal is over.  Nothing is logged for a service-level       *)
(* request, a bucket without logging and the log target itself.            *)
Handled(r) ==
    /\ req[r] = "serving"
    /\ Goto(r, "logging") \/ Goto(r, "done")
    /\ UNCHANGED <<listening, console, panicked, log, sweep, engine, shutdown>>

(* The non-blocking send; on a closed channel it panics all the same, and  *)
(* net/http recovers.                                                      *)
LogAccess(r, t) ==
    /\ req[r] = "logging"
    /\ Goto(r, "done")
    /\ IF ~open THEN panicked' = panicked \cup {r} /\ UNCHANGED <<logChan, settled>>
       ELSE IF Len(logChan) < QueueCap
       THEN logChan' = Append(logChan, <<r, t>>) /\ UNCHANGED <<panicked, settled>>
       ELSE settled' = settled \cup {r} /\ UNCHANGED <<logChan, panicked>>
    /\ UNCHANGED <<listening, console, open, lines, worker, flushing, sweep, engine, shutdown>>

(* The console's handlers call the engine directly. *)
ConsoleServe(r) ==
    /\ "console" \in listening /\ console[r] = "none"
    /\ console' = [console EXCEPT ![r] = "serving"]
    /\ UNCHANGED <<listening, req, panicked, log, sweep, engine, shutdown>>

ConsoleDone(r) ==
    /\ console[r] = "serving"
    /\ console' = [console EXCEPT ![r] = "done"]
    /\ UNCHANGED <<listening, req, panicked, log, sweep, engine, shutdown>>
-----------------------------------------------------------------------------
(***************************************************************************)
(* The log worker (startLogWorkers).                                       *)
(***************************************************************************)
Receive ==
    /\ worker = "run" /\ logChan # <<>>
    /\ LET r == Head(logChan)[1]
           t == Head(logChan)[2]
       IN /\ lines' = [lines EXCEPT ![t] = @ \cup {r}]
          /\ IF Cardinality(lines[t] \cup {r}) >= FlushAt
             THEN worker' = "flush" /\ flushing' = {t}
             ELSE UNCHANGED <<worker, flushing>>
    /\ logChan' = Tail(logChan)
    /\ UNCHANGED <<listening, requests, open, settled, sweep, engine, shutdown>>

(* The ticker: flushAll. *)
Tick ==
    /\ worker = "run" /\ \E t \in Targets : lines[t] # {}
    /\ worker' = "flush" /\ flushing' = Targets
    /\ UNCHANGED <<listening, requests, logChan, open, lines, settled, sweep, engine, shutdown>>

(* flushBucketLogs: the buffer is emptied whether PutObject succeeds or    *)
(* fails; a failure is only logged.                                        *)
FlushBucketLogs(t) ==
    /\ t \in flushing
    /\ settled' = settled \cup lines[t]
    /\ lines' = [lines EXCEPT ![t] = {}]
    /\ flushing' = flushing \ {t}
    /\ UNCHANGED <<listening, requests, logChan, open, worker, sweep, engine, shutdown>>

(* After the flush of the closed channel the goroutine returns. *)
FlushedNoReturn ==
    /\ worker \in {"flush", "last"} /\ flushing = {}
    /\ worker' = "run"
    /\ UNCHANGED <<listening, requests, logChan, open, lines, flushing, settled, sweep, engine, shutdown>>

Flushed ==
    /\ worker \in {"flush", "last"} /\ flushing = {}
    /\ worker' = IF worker = "last" THEN "stopped" ELSE "run"
    /\ UNCHANGED <<listening, requests, logChan, open, lines, flushing, settled, sweep, engine, shutdown>>

(* A closed channel is drained before it reads as closed. *)
ChannelClosedNoFlush ==
    /\ worker = "run" /\ ~open /\ logChan = <<>>
    /\ worker' = "last"
    /\ UNCHANGED <<listening, requests, logChan, open, lines, flushing, settled, sweep, engine, shutdown>>

ChannelClosed ==
    /\ worker = "run" /\ ~open /\ logChan = <<>>
    /\ worker' = "last" /\ flushing' = Targets
    /\ UNCHANGED <<listening, requests, logChan, open, lines, settled, sweep, engine, shutdown>>
-----------------------------------------------------------------------------
(***************************************************************************)
(* The clean-up worker: a sweep at the start and one every hour.  It looks *)
(* at cleanupStop only between sweeps, and nobody waits for it.            *)
(***************************************************************************)
Sweep ==
    /\ sweep = "waiting"
    /\ sweep' = "sweeping"
    /\ UNCHANGED <<listening, requests, log, engine, shutdown>>

SweepDone ==
    /\ sweep = "sweeping"
    /\ sweep' = "waiting"
    /\ UNCHANGED <<listening, requests, log, engine, shutdown>>

CleanupStopped ==
    /\ sweep = "waiting" /\ cleanupStop
    /\ sweep' = "stopped"
    /\ UNCHANGED <<listening, requests, log, engine, shutdown>>
-----------------------------------------------------------------------------
(***************************************************************************)
(* Shutdown: the first caller does the work, the others wait in            *)
(* sync.Once.Do.                                                           *)
(***************************************************************************)
Advance(c, from, to) == pc[c] = from /\ pc' = [pc EXCEPT ![c] = to]

Call(c) ==
    /\ pc[c] = "none"
    /\ pc' = [pc EXCEPT ![c] = IF owner = Nobody THEN "stop" ELSE "once"]
    /\ owner' = IF owner = Nobody THEN c ELSE owner
    /\ UNCHANGED <<listening, requests, log, sweep, engine, errs, result, cleanupStop, expired, late, cut>>

StopCleanup(c) ==
    /\ Advance(c, "stop", "s3")
    /\ cleanupStop' = TRUE
    /\ UNCHANGED <<listening, requests, log, sweep, engine, owner, errs, result, expired, late, cut>>

(* http.Server.Shutdown closes the listener, then waits. *)
CloseListener(c, port) ==
    /\ \/ port = "s3" /\ Advance(c, "s3", "s3 wait")
       \/ port = "console" /\ Advance(c, "console", "console wait")
    /\ listening' = listening \ {port}
    /\ UNCHANGED <<requests, log, sweep, engine, owner, errs, result, cleanupStop, expired, late, cut>>

Busy(port) == IF port = "s3" THEN \E r \in Requests : req[r] \in {"headers", "serving", "logging"}
              ELSE \E r \in ConsoleRequests : console[r] = "serving"

(* The 15 seconds of main are over. *)
Expire ==
    /\ ~expired /\ listening # {"s3", "console"}
    /\ expired' = TRUE
    /\ late' = {r \in Requests : req[r] = "headers"}
    /\ UNCHANGED <<listening, requests, log, sweep, engine, pc, owner, errs, result, cleanupStop, cut>>

ServerIdle(c, port) ==
    /\ ~Busy(port)
    /\ \/ port = "s3" /\ Advance(c, "s3 wait", "requests")
       \/ port = "console" /\ Advance(c, "console wait", "engine")
    /\ UNCHANGED <<listening, requests, log, sweep, engine, owner, errs, result, cleanupStop, expired, late, cut>>

ServerTimeoutUnreported(c, port) ==
    /\ expired
    /\ \/ port = "s3" /\ Advance(c, "s3 wait", "requests")
       \/ port = "console" /\ Advance(c, "console wait", "engine")
    /\ UNCHANGED <<listening, requests, log, sweep, engine, owner, errs, result, cleanupStop, expired, late, cut>>

ServerTimeout(c, port) ==
    /\ expired
    /\ \/ port = "s3" /\ Advance(c, "s3 wait", "requests")
       \/ port = "console" /\ Advance(c, "console wait", "engine")
    /\ errs' = TRUE
    /\ UNCHANGED <<listening, requests, log, sweep, engine, owner, result, cleanupStop, expired, late, cut>>

(* Router.Close. *)
WaitNoRequests(c) ==
    /\ Advance(c, "requests", "close")
    /\ UNCHANGED <<listening, requests, log, sweep, engine, owner, errs, result, cleanupStop, expired, late, cut>>

WaitRequests(c) ==
    /\ ActiveReqs = {}
    /\ Advance(c, "requests", "close")
    /\ UNCHANGED <<listening, requests, log, sweep, engine, owner, errs, result, cleanupStop, expired, late, cut>>

CloseLogChan(c) ==
    /\ Advance(c, "close", "log")
    /\ open' = FALSE
    /\ UNCHANGED <<listening, requests, logChan, lines, worker, flushing, settled, sweep, engine, owner,
                   errs, result, cleanupStop, expired, late, cut>>

WaitNoLogWorker(c) ==
    /\ Advance(c, "log", "console")
    /\ UNCHANGED <<listening, requests, log, sweep, engine, owner, errs, result, cleanupStop, expired, late, cut>>

WaitLogWorker(c) ==
    /\ worker = "stopped"
    /\ Advance(c, "log", "console")
    /\ UNCHANGED <<listening, requests, log, sweep, engine, owner, errs, result, cleanupStop, expired, late, cut>>

CloseEngine(c) ==
    /\ Advance(c, "engine", "return")
    /\ engine' = "closed"
    /\ cut' = {r \in Requests : req[r] \in {"headers", "serving", "logging"}}
              \cup {r \in ConsoleRequests : console[r] = "serving"}
    /\ \/ UNCHANGED errs
       \/ errs' = TRUE
    /\ UNCHANGED <<listening, requests, log, sweep, owner, result, cleanupStop, expired, late>>

ReturnResult(c) ==
    /\ Advance(c, "return", "done")
    /\ result' = [result EXCEPT ![c] = IF errs THEN "error" ELSE "nil"]
    /\ UNCHANGED <<listening, requests, log, sweep, engine, owner, errs, cleanupStop, expired, late, cut>>

(* err is a variable of the call and only the owner's closure sets it: the *)
(* others return nil, also after an error.                                 *)
ReturnLater(c) ==
    /\ pc[owner] = "done"
    /\ Advance(c, "once", "done")
    /\ result' = [result EXCEPT ![c] = "nil"]
    /\ UNCHANGED <<listening, requests, log, sweep, engine, owner, errs, cleanupStop, expired, late, cut>>
-----------------------------------------------------------------------------
Client(r) == Connect(r) \/ HeadersNeverCome(r) \/ ServeHTTP(r) \/ Handled(r)

LogWorker == Receive \/ Tick \/ Flushed \/ ChannelClosed \/ \E t \in Targets : FlushBucketLogs(t)

Shutdown(c) ==
    \/ StopCleanup(c) \/ WaitRequests(c) \/ CloseLogChan(c) \/ WaitLogWorker(c)
    \/ CloseEngine(c) \/ ReturnResult(c) \/ (owner # Nobody /\ ReturnLater(c))
    \/ \E port \in {"s3", "console"} :
          CloseListener(c, port) \/ ServerIdle(c, port) \/ ServerTimeout(c, port)

Finished == (\A c \in Callers : pc[c] = "done") /\ UNCHANGED serverVars

ServerNext ==
    \/ \E r \in Requests : Client(r) \/ \E t \in Targets : LogAccess(r, t)
    \/ \E r \in ConsoleRequests : ConsoleServe(r) \/ ConsoleDone(r)
    \/ LogWorker \/ Sweep \/ SweepDone \/ CleanupStopped \/ Expire
    \/ \E c \in Callers : Call(c) \/ Shutdown(c)
    \/ Finished

ServerSpec == ServerInit /\ [][ServerNext]_serverVars

(* The goroutines of the process run on, its ticker ticks and time passes. *)
(* Nothing is assumed of the clients: no handler is fair, because there is *)
(* no read timeout on bodies.                                              *)
ServerFairness ==
    /\ \A r \in Requests : WF_serverVars(\E t \in Targets : LogAccess(r, t))
    /\ WF_serverVars(LogWorker)
    /\ WF_serverVars(Expire)
    /\ \A c \in Callers : WF_serverVars(Shutdown(c))

ServerFairSpec == ServerSpec /\ ServerFairness
-----------------------------------------------------------------------------
(* No request sends a log line on the closed channel, not even one that    *)
(* outlives the deadline of http.Server.Shutdown: Router.Close waits for   *)
(* it.  The one exception is a request whose headers took longer than the  *)
(* deadline.                                                               *)
NoLogOnClosed == panicked \subseteq late

(* The engine is closed last: no S3 request is being served, except one    *)
(* whose headers came too late, and every log line that was accepted has   *)
(* been handed to PutObject before, whatever the deadline does.            *)
EngineClosedLast ==
    engine = "closed" =>
        /\ ActiveReqs \subseteq late
        /\ worker = "stopped" /\ logChan = <<>> /\ \A t \in Targets : lines[t] = {}

(* "Ensure no connection is dropped mid-flight" (README): when the engine  *)
(* is closed under a request, on either port, that happens only after the  *)
(* deadline, and the call of Shutdown that does the work returns an error. *)
(* Later calls return nil whatever happened, and not "the same result" as  *)
(* their comment says: their nil means nothing.  Nor does this speak of    *)
(* connections that were closed before their headers were read.            *)
CutIsReported ==
    owner # Nobody /\ cut # {} => expired /\ result[owner] # "nil"

(* A log line that was sent is stored, refused or dropped in the end; a    *)
(* shutdown does not lose the lines of the last seconds.                   *)
Logged == {logChan[i][1] : i \in DOMAIN logChan} \cup UNION {lines[t] : t \in Targets}
LinesSettle == \A r \in Requests : (r \in Logged) ~> (r \in settled)

(* Shutdown returns to every caller, deadline or not, once the requests on *)
(* the S3 port end.  They need not: Router.Close waits for a stalled       *)
(* upload beyond any deadline.                                             *)
ShutdownReturns ==
    \A c \in Callers :
        (<>[](ActiveReqs = {})) => ((pc[c] # "none") ~> (pc[c] = "done"))
=============================================================================
