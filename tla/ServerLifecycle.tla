-------------------------- MODULE ServerLifecycle --------------------------
(***************************************************************************)
(* How a process of this system starts, serves and stops: the Identity API *)
(* (APIServer.Run), the Identity worker (Worker.Run) and the Workspace API *)
(* (Server.Run), each under its main function.                             *)
(*                                                                         *)
(* A process connects to its database, serves requests from one to three   *)
(* servers, and stops at a signal or when a server fails: it shuts its     *)
(* servers down, each until its requests have ended or a shared deadline   *)
(* has passed, closes what it opened, the pool last, which waits for the   *)
(* connections that are in use and drops them, flushes its telemetry and   *)
(* exits.  Kubernetes kills a process that needs longer than its grace     *)
(* period.                                                                 *)
(*                                                                         *)
(* Only what takes time lets the clock tick: a step that can be taken at   *)
(* once is taken before the next tick.                                     *)
(***************************************************************************)
EXTENDS Configuration, Sequences, FiniteSets

CONSTANTS
  Kinds,           \* bound of the model: the processes of a run
  Configs,         \* bound of the model: the configurations that each kind may have
  Request,
  StopTimeout,     \* of all calls to Shutdown together, 5 seconds
  ReadTimeout,     \* until the request has been read, 5 seconds
  RequestTimeout,  \* of a handler, 5 seconds
  ProbeTimeout,    \* of a readiness check, 2 seconds
  MailTimeout,     \* of a call to the mail server, 5 seconds
  MetricTimeout,   \* of a measurement of the worker, 5 seconds
  FlushTimeout,    \* of the last export of telemetry, 4 seconds
  BrokerTimeout,   \* of a call to the broker that no context ends: given by the Kafka client
  DropTimeout      \* of the connections that a closed pool drops: given by pgxpool

ASSUME KindsAssumption == Kinds \subseteq {"identity-api", "identity-worker", "workspace-api"}
ASSUME ConfigsAssumption == Kinds \subseteq DOMAIN Configs
ASSUME TimeoutsAssumption ==
  /\ {StopTimeout, ReadTimeout, RequestTimeout, ProbeTimeout, MailTimeout, MetricTimeout, FlushTimeout,
       BrokerTimeout, DropTimeout} \subseteq Nat \ {0}
  /\ ProbeTimeout <= RequestTimeout /\ RequestTimeout <= StopTimeout
  /\ ReadTimeout + ProbeTimeout <= StopTimeout + MetricTimeout

VARIABLES
  kind, config,    \* the process, and its configuration
  at,              \* where its main goroutine is
  timer,           \* how long the main goroutine may still stay there
  result,          \* what Run returns: "ok" or "error"
  pool,            \* the connections of the database
  open,            \* the other resources that are open
  server,          \* each server: "off", "serving", "failed" or "closed"
  results,         \* the channel on which servers and the email loop report their end
  received,        \* how many reports the main goroutine has taken
  shutting,        \* the server that Shutdown waits for
  email,           \* the email loop of the worker
  metrics,         \* the measurements of the worker, taken by the exporter of its metrics
  ticker,          \* a tick of the worker's ticker waits
  req,             \* the requests
  signalled,       \* SIGTERM has arrived
  \* history
  failed,          \* servers that failed
  late,            \* requests that were still being read when the servers were told to stop
  cut,             \* requests that lost the pool or the process within their deadline
  elapsed          \* ticks since the process had to stop, but for those that only a failure record took

lifecycleVars == <<kind, config, at, timer, result, pool, open, server, results, received, shutting, email, metrics,
                   ticker, req, signalled, failed, late, cut, elapsed>>
run == <<kind, config>>
work == <<email, metrics, ticker, req>>
history == <<failed, late, cut, elapsed>>

Server == {"public", "internal", "session", "health"}
NoRequest == [at |-> "none", server |-> "public", left |-> 0, conn |-> FALSE]

\* The servers of the process.
servers ==
  CASE kind = "identity-api"    -> {"public", "internal"} \cup
                                     (IF sessionRPCEnabled(config) = "on" THEN {"session"} ELSE {})
    [] kind = "identity-worker" -> {"health"}
    [] kind = "workspace-api"   -> {"public"}

\* The resources that it holds while it serves, beside the pool.
Telemetry == {"spans", "metrics"}
Clients ==
  CASE kind = "identity-api"    -> {}
    [] kind = "identity-worker" -> {"producer", "consumer"}
    [] kind = "workspace-api"   -> {"identity"}

\* The steps of a start, of which each kind takes its own.
StartSteps == {"telemetry", "load", "connect", "schema", "handlers", "producer", "publisher", "consumer",
               "verifier", "transport", "listen"}
StopSteps == {"stop", "drain", "close", "leaving", "closing", "dropping", "flush", "exited"}

HandlerTimeout(s) == IF s \in {"internal", "health"} THEN ProbeTimeout ELSE RequestTimeout

\* The longest call in a tick of the worker that goes on when its context is
\* cancelled: a message is being sent, or an event is under way to the broker.
StepTimeout == IF MailTimeout >= BrokerTimeout THEN MailTimeout ELSE BrokerTimeout

LifecycleInit ==
  /\ kind \in Kinds /\ config \in Configs[kind]
  /\ at = "telemetry" /\ timer = 0 /\ result = "ok" /\ pool = "none" /\ open = {}
  /\ server = [s \in Server |-> "off"]
  /\ results = <<>> /\ received = 0 /\ shutting = "public"
  /\ email = [at |-> "off", left |-> 0] /\ metrics = [at |-> "off", left |-> 0] /\ ticker = FALSE
  /\ req = [r \in Request |-> NoRequest]
  /\ signalled = FALSE
  /\ failed = {} /\ late = {} /\ cut = {} /\ elapsed = 0

Active(r) == req[r].at \in {"reading", "working", "recording"}
Idle(s) == \A r \in Request : Active(r) => req[r].server # s
Cancelled == signalled \/ at \notin {"run", "step"}  \* runCtx of the worker
ConnectionsHeld == (\E r \in Request : req[r].conn) \/ email.at = "mailing"
Recording == \E r \in Request : req[r].at = "recording" /\ req[r].conn

------------------------------------------------------------------------------
(* Starting.                                                               *)

\* An exporter that cannot start is left out: telemetry stops no process.
StartTelemetry ==
  /\ at = "telemetry"
  /\ at' = "load" /\ open' = Telemetry
  /\ UNCHANGED <<run, timer, result, pool, server, results, received, shutting, work, signalled, history>>

\* An error return closes the clients closes, and the pool if it is open; the
\* error is what the process ends with.
ErrorReturn(closes) ==
  /\ result' = "error" /\ open' = open \ closes
  /\ IF pool = "open" THEN at' = "closing" /\ pool' = "closing" /\ UNCHANGED timer
                      ELSE at' = "flush" /\ timer' = FlushTimeout /\ UNCHANGED pool

\* One step of the start, which opens opens, or its error return.
GoOn(step, opens) == at' = step /\ open' = open \cup opens /\ UNCHANGED <<result, timer>>
StartStepOf(k, from, ok, to, opens, closes) ==
  /\ kind = k /\ at = from
  /\ IF ok THEN GoOn(to, opens) /\ UNCHANGED pool ELSE ErrorReturn(closes)
  /\ UNCHANGED <<run, server, results, received, shutting, work, signalled, history>>

\* The configuration is loaded, and what needs no connection is built.
LoadAPI == StartStepOf("identity-api", "load", LoadAPIConfig(config) /\ ReadKeys(config), "connect", {}, {})
LoadWorker ==
  StartStepOf("identity-worker", "load",
              LoadWorkerConfig(config) /\ readMountedFile(config.delivery) /\ NewMailpitSender(config), "connect", {}, {})
LoadWorkspace == StartStepOf("workspace-api", "load", LoadConfig(config) /\ NoOIDC(config), "connect", {}, {})

AfterConnect ==
  CASE kind = "identity-api" -> "schema" [] kind = "identity-worker" -> "producer" [] kind = "workspace-api" -> "verifier"

\* The pool is pinged until it answers, or the start-up time or the process
\* ends: then it is closed.
Connect ==
  /\ at = "connect"
  /\ \/ ~signalled /\ config.database # "bad" /\ GoOn(AfterConnect, {}) /\ pool' = "open"
     \/ ErrorReturn({})
     \/ result' = "error" /\ at' = "closing" /\ pool' = "closing" /\ UNCHANGED <<open, timer>>
  /\ UNCHANGED <<run, server, results, received, shutting, work, signalled, history>>

\* NewAPIServer: the schema check runs under the context of the process.
CheckSchema == \E found \in BOOLEAN : StartStepOf("identity-api", "schema", found /\ ~signalled, "handlers", {}, {})
BuildHandlers == StartStepOf("identity-api", "handlers", newSessionTLSConfig(config), "listen", {}, {})

\* NewWorker opens a client of the broker, then one of the schema registry,
\* whose answer it awaits under the context of the process.
OpenProducer ==
  StartStepOf("identity-worker", "producer", config.broker = "good", "publisher", {"producer"}, {})

\* Bug: the error return forgets the client of the broker.
BuildPublisherBug ==
  \E answers \in BOOLEAN :
    StartStepOf("identity-worker", "publisher", config.registry = "good" /\ answers /\ ~signalled, "consumer", {}, {})

BuildPublisher ==
  \E answers \in BOOLEAN :
    StartStepOf("identity-worker", "publisher", config.registry = "good" /\ answers /\ ~signalled, "consumer", {},
                {"producer"})

\* The options of the producer with a group and a topic: it may fail on its own.
OpenConsumer ==
  \E ok \in BOOLEAN : StartStepOf("identity-worker", "consumer", ok, "listen", {"consumer"}, {"producer"})

\* NewServer: nothing in it notices a signal.  Its deferred calls close what is not kept.
OpenVerifier ==
  StartStepOf("workspace-api", "verifier", NewTokenVerifier(config), "transport", {"identity"}, {})
BuildTransport ==
  \E ok \in BOOLEAN : StartStepOf("workspace-api", "transport", ok, "listen", {}, {"identity"})

StartServers ==
  /\ at' = "run"
  /\ server' = [s \in Server |-> IF s \in servers THEN "serving" ELSE "off"]
  /\ UNCHANGED <<result, timer>>

\* An error of Run before it serves; Run closes what it was given.
StartFails == at' = "close" /\ result' = "error" /\ UNCHANGED <<timer, server>>

\* All listeners are opened before any serves; Run returns if one cannot be.
ServeAPI ==
  /\ kind = "identity-api" /\ at = "listen"
  /\ StartServers \/ StartFails
  /\ UNCHANGED <<run, pool, open, results, received, shutting, work, signalled, history>>

\* Old deliveries are purged first, under the context of the process, and the
\* measurements are registered.
ServeWorker ==
  /\ kind = "identity-worker" /\ at = "listen"
  /\ \/ ~signalled /\ StartServers /\ email' = [email EXCEPT !.at = "polling"] /\ metrics' = [metrics EXCEPT !.at = "idle"]
     \/ StartFails /\ UNCHANGED <<email, metrics>>
  /\ UNCHANGED <<run, pool, open, results, received, shutting, ticker, req, signalled, history>>

\* A process that was signalled by now stops at once.
ServeWorkspace ==
  /\ kind = "workspace-api" /\ at = "listen"
  /\ \/ ~signalled /\ StartServers
     \/ signalled /\ at' = "close" /\ UNCHANGED <<result, timer, server>>
  /\ UNCHANGED <<run, pool, open, results, received, shutting, work, signalled, history>>

------------------------------------------------------------------------------
(* Stopping.                                                               *)

\* The listener of s is closed, and its Serve returns and reports so.
Close(s) ==
  /\ server' = [server EXCEPT ![s] = "closed"]
  /\ results' = IF server[s] = "serving" THEN Append(results, "closed") ELSE results

\* Bug: the deadline is derived from the context that the signal cancelled.
BeginShutdownBug(s, reports) ==
  /\ at' = "stop" /\ shutting' = s /\ timer' = IF signalled THEN 0 ELSE StopTimeout
  /\ server' = [server EXCEPT ![s] = "closed"]
  /\ results' = IF server[s] = "serving" THEN Append(reports, "closed") ELSE reports
  /\ late' = {r \in Request : req[r].at = "reading"}

\* The first call to Shutdown, under the deadline that all of them share.
BeginShutdown(s, reports) ==
  /\ at' = "stop" /\ shutting' = s /\ timer' = StopTimeout
  /\ server' = [server EXCEPT ![s] = "closed"]
  /\ results' = IF server[s] = "serving" THEN Append(reports, "closed") ELSE reports
  /\ late' = {r \in Request : req[r].at = "reading"}

\* Bug: the signal is not among the cases of the select.
StopAPIBug ==
  /\ kind = "identity-api" /\ at = "run"
  /\ results # <<>> /\ BeginShutdown("public", Tail(results)) /\ result' = "error" /\ received' = 1
  /\ UNCHANGED <<run, pool, open, work, signalled, failed, cut, elapsed>>

\* APIServer.Run: its select, then Shutdown of the public server.
StopAPI ==
  /\ kind = "identity-api" /\ at = "run"
  /\ \/ signalled /\ BeginShutdown("public", results) /\ UNCHANGED <<result, received>>
     \/ results # <<>> /\ BeginShutdown("public", Tail(results)) /\ result' = "error" /\ received' = 1
  /\ UNCHANGED <<run, pool, open, work, signalled, failed, cut, elapsed>>

\* Worker.Run: its select takes any of what is ready.  The end of the email
\* loop is an error of the worker, as is that of the server.  A goroutine that
\* already waits in the select is woken by the first of the two, which is the
\* signal; where it waits is left out, so that this takes the report there too.
StopWorker ==
  /\ kind = "identity-worker" /\ at = "run"
  /\ \/ signalled /\ BeginShutdown("health", results) /\ UNCHANGED <<result, received>>
     \/ results # <<>> /\ BeginShutdown("health", Tail(results)) /\ result' = "error" /\ received' = 1
  /\ UNCHANGED <<run, pool, open, work, signalled, failed, cut, elapsed>>

\* serve: a server that fails ends Run with no Shutdown.
StopWorkspace ==
  /\ kind = "workspace-api" /\ at = "run"
  /\ \/ signalled /\ results = <<>> /\ BeginShutdown("public", results) /\ UNCHANGED result
     \/ /\ results # <<>> /\ result' = "error" /\ at' = "close"
        /\ UNCHANGED <<timer, server, results, shutting, late>>
  /\ UNCHANGED <<run, pool, open, received, work, signalled, failed, cut, elapsed>>

\* Shutdown returns when no request is left, or at the deadline.
ShutdownReturns == at = "stop" /\ (Idle(shutting) \/ timer = 0)

\* The API shuts the internal server down next.
ShutInternal ==
  /\ kind = "identity-api" /\ ShutdownReturns /\ shutting = "public"
  /\ Close("internal") /\ shutting' = "internal"
  /\ UNCHANGED <<run, at, timer, result, pool, open, received, work, signalled, history>>

\* Stop of the session server cancels the requests it serves, and waits for none.
StopSession ==
  /\ kind = "identity-api" /\ ShutdownReturns /\ shutting = "internal"
  /\ at' = "drain"
  /\ IF "session" \in servers THEN Close("session") ELSE UNCHANGED <<server, results>>
  /\ req' = [r \in Request |-> IF Active(r) /\ req[r].server = "session" THEN [req[r] EXCEPT !.left = 0] ELSE req[r]]
  /\ UNCHANGED <<run, timer, result, pool, open, received, shutting, email, metrics, ticker, signalled, history>>

StopHealth ==
  /\ kind = "identity-worker" /\ ShutdownReturns
  /\ at' = "drain"
  /\ UNCHANGED <<run, timer, result, pool, open, server, results, received, shutting, work, signalled, history>>

\* The Workspace API reports a deadline that passed.
StopPublic ==
  /\ kind = "workspace-api" /\ ShutdownReturns
  /\ at' = "close" /\ result' = IF Idle(shutting) THEN "ok" ELSE "error"
  /\ UNCHANGED <<run, timer, pool, open, server, results, received, shutting, work, signalled, history>>

Reports == IF kind = "identity-worker" THEN 2 ELSE Cardinality(servers)

\* Bug: the last report is not awaited.
DrainBug ==
  /\ at = "drain"
  /\ \/ /\ received + 1 < Reports /\ results # <<>>
        /\ received' = received + 1 /\ results' = Tail(results)
        /\ result' = IF kind = "identity-api" /\ Head(results) = "failed" THEN "error" ELSE result
        /\ UNCHANGED at
     \/ received + 1 >= Reports /\ at' = "close" /\ UNCHANGED <<result, results, received>>
  /\ UNCHANGED <<run, timer, pool, open, server, shutting, work, signalled, history>>

\* The other reports are awaited.  The API keeps the first failure.
Drain ==
  /\ at = "drain"
  /\ \/ /\ received < Reports /\ results # <<>>
        /\ received' = received + 1 /\ results' = Tail(results)
        /\ result' = IF kind = "identity-api" /\ Head(results) = "failed" THEN "error" ELSE result
        /\ UNCHANGED at
     \/ received = Reports /\ at' = "close" /\ UNCHANGED <<result, results, received>>
  /\ UNCHANGED <<run, timer, pool, open, server, shutting, work, signalled, history>>

\* Run of the worker returns.  Its deferred calls come last first: Unregister
\* waits for the measurement that is being taken, then the consumer leaves its group.
Unregister ==
  /\ kind = "identity-worker" /\ at = "close" /\ metrics.at # "measuring"
  /\ metrics' = [at |-> "off", left |-> 0] /\ at' = "leaving" /\ timer' = BrokerTimeout
  /\ UNCHANGED <<run, result, pool, open, server, results, received, shutting, email, ticker, req, signalled, history>>

\* Bug: the worker closes its clients and the pool before it unregisters its measurements.
ClosePoolBug ==
  /\ at = "leaving" \/ at = "close"
  /\ at' = "closing" /\ open' = open \ Clients /\ pool' = "closing"
  /\ UNCHANGED <<run, timer, result, server, results, received, shutting, work, signalled, history>>

\* The clients are closed, then the pool, which gives out no more connections
\* and waits for the rest.
ClosePool ==
  /\ at = "leaving" \/ (at = "close" /\ kind # "identity-worker")
  /\ at' = "closing" /\ open' = open \ Clients /\ pool' = "closing"
  /\ UNCHANGED <<run, timer, result, server, results, received, shutting, work, signalled, history>>

\* All are back, and each is dropped: the server is told so, and may be silent.
ConnectionsBack ==
  /\ at = "closing" /\ ~ConnectionsHeld
  /\ at' = "dropping" /\ timer' = DropTimeout
  /\ UNCHANGED <<run, pool, open, result, server, results, received, shutting, work, signalled, history>>

\* Bug: the two exports run one after the other.
PoolClosedBug ==
  /\ at = "dropping"
  /\ at' = "flush" /\ pool' = "closed" /\ timer' = 2 * FlushTimeout
  /\ UNCHANGED <<run, open, result, server, results, received, shutting, work, signalled, history>>

PoolClosed ==
  /\ at = "dropping"
  /\ at' = "flush" /\ pool' = "closed" /\ timer' = FlushTimeout
  /\ UNCHANGED <<run, open, result, server, results, received, shutting, work, signalled, history>>

\* The exports end, or their time does, and the process exits with what runs.
Exit ==
  /\ at = "flush"
  /\ at' = "exited" /\ open' = open \ Telemetry
  /\ cut' = cut \cup {r \in Request : Active(r) /\ req[r].left > 0}
  /\ req' = [r \in Request |-> IF Active(r) THEN [req[r] EXCEPT !.at = "done", !.left = 0, !.conn = FALSE] ELSE req[r]]
  /\ UNCHANGED <<run, timer, result, pool, server, results, received, shutting, email, metrics, ticker, signalled,
                 failed, late, elapsed>>

\* What the main function hands to os.Exit.
ExitCode == IF result = "error" THEN 1 ELSE 0

------------------------------------------------------------------------------
(* What runs beside the main goroutine.                                    *)

Signal ==
  /\ ~signalled /\ at # "exited"
  /\ signalled' = TRUE
  /\ UNCHANGED <<run, at, timer, result, pool, open, server, results, received, shutting, work, history>>

ServerFails(s) ==
  /\ server[s] = "serving" /\ at \notin {"exited"}
  /\ server' = [server EXCEPT ![s] = "failed"] /\ results' = Append(results, "failed")
  /\ failed' = failed \cup {s}
  /\ UNCHANGED <<run, at, timer, result, pool, open, received, shutting, work, signalled, late, cut, elapsed>>

\* A request comes in, also over a connection that outlived its listener.
Arrive(r, s) ==
  /\ req[r].at = "none" /\ server[s] \in {"serving", "failed"} /\ at # "exited"
  /\ req' = [req EXCEPT ![r] = [at |-> "reading", server |-> s, left |-> ReadTimeout, conn |-> FALSE]]
  /\ UNCHANGED <<run, at, timer, result, pool, open, server, results, received, shutting, email, metrics, ticker, signalled, history>>

\* It has been read, and its handler starts with a deadline of its own.
Handle(r) ==
  /\ req[r].at = "reading"
  /\ req' = [req EXCEPT ![r] = [@ EXCEPT !.at = "working", !.left = HandlerTimeout(req[r].server)]]
  /\ UNCHANGED <<run, at, timer, result, pool, open, server, results, received, shutting, email, metrics, ticker, signalled, history>>

\* A failure record has no deadline, and may be lost.
Acquire(r) ==
  /\ ~req[r].conn /\ at # "exited"
  /\ req[r].at = "recording" \/ (req[r].at = "working" /\ req[r].left > 0)
  /\ IF pool = "open"
       THEN req' = [req EXCEPT ![r].conn = TRUE] /\ UNCHANGED cut
       ELSE /\ req' = [req EXCEPT ![r] = [@ EXCEPT !.at = "done", !.left = 0]]
            /\ cut' = IF req[r].left > 0 THEN cut \cup {r} ELSE cut
  /\ UNCHANGED <<run, at, timer, result, pool, open, server, results, received, shutting, email, metrics, ticker, signalled,
                 failed, late, elapsed>>

GiveBack(r) ==
  /\ req[r].at = "working" /\ req[r].conn
  /\ req' = [req EXCEPT ![r].conn = FALSE]
  /\ UNCHANGED <<run, at, timer, result, pool, open, server, results, received, shutting, email, metrics, ticker, signalled, history>>

\* The callback of a provider failed, perhaps because its time is over.  It
\* records that under a context that neither a deadline nor the client ends.
FailCallback(r) ==
  /\ kind = "identity-api" /\ config.clients # {}
  /\ req[r].at = "working" /\ req[r].server = "public" /\ ~req[r].conn
  /\ req' = [req EXCEPT ![r].at = "recording"]
  /\ UNCHANGED <<run, at, timer, result, pool, open, server, results, received, shutting, email, metrics, ticker, signalled, history>>

\* The request ends: it is answered, or its time is over.  Nothing is left of it.
Answer(r) ==
  /\ Active(r) /\ (req[r].at = "reading" => req[r].left = 0)
  /\ req' = [req EXCEPT ![r] = [NoRequest EXCEPT !.at = "done"]]
  /\ UNCHANGED <<run, at, timer, result, pool, open, server, results, received, shutting, email, metrics, ticker, signalled, history>>

\* The email loop holds a connection while it sends a message.  Once the call
\* to the mail server runs, only its deadline ends it.
SendEmail ==
  /\ email.at = "polling" /\ ~Cancelled
  /\ email' = [at |-> "mailing", left |-> MailTimeout]
  /\ UNCHANGED <<run, at, timer, result, pool, open, server, results, received, shutting, metrics, ticker, req, signalled, history>>

EmailSent ==
  /\ email.at = "mailing"
  /\ email' = [at |-> "polling", left |-> 0]
  /\ UNCHANGED <<run, at, timer, result, pool, open, server, results, received, shutting, metrics, ticker, req, signalled, history>>

EmailLoopEnds ==
  /\ email.at = "polling" /\ Cancelled
  /\ email' = [at |-> "ended", left |-> 0] /\ results' = Append(results, "done")
  /\ UNCHANGED <<run, at, timer, result, pool, open, server, received, shutting, metrics, ticker, req, signalled, history>>

\* The exporter of the metrics measures the outbox over a connection of the
\* pool and the consumer group over the producer, under a context of its own.
Measure ==
  /\ metrics.at = "idle" /\ at \in {"run", "step", "stop", "drain"}
  /\ metrics' = [at |-> "measuring", left |-> MetricTimeout]
  /\ UNCHANGED <<run, at, timer, result, pool, open, server, results, received, shutting, email, ticker, req, signalled, history>>

Measured ==
  /\ metrics.at = "measuring"
  /\ metrics' = [at |-> "idle", left |-> 0]
  /\ UNCHANGED <<run, at, timer, result, pool, open, server, results, received, shutting, email, ticker, req, signalled, history>>

\* A tick of the worker: the relay, then a notice, then the purge.  What has a
\* cancelled context fails at once, but for the calls of StepTimeout.
StartStep ==
  /\ kind = "identity-worker" /\ at = "run" /\ ticker
  /\ at' = "step" /\ ticker' = FALSE /\ timer' = IF Cancelled THEN 0 ELSE StepTimeout
  /\ UNCHANGED <<run, result, pool, open, server, results, received, shutting, email, metrics, req, signalled, history>>

EndStep ==
  /\ at = "step"
  /\ at' = "run"
  /\ UNCHANGED <<run, timer, result, pool, open, server, results, received, shutting, work, signalled, history>>

\* Something can be done at once.
Urgent ==
  \/ at \in StartSteps \cup {"exited"}
  \/ at = "close" /\ metrics.at # "measuring"
  \/ at = "run" /\ (signalled \/ results # <<>>)
  \/ at \in {"step", "leaving", "dropping", "flush"} /\ timer = 0
  \/ ShutdownReturns
  \/ at = "drain" /\ (results # <<>> \/ received = Reports)
  \/ at = "closing" /\ ~ConnectionsHeld
  \/ \E r \in Request : req[r].at \in {"reading", "working"} /\ req[r].left = 0
  \/ email.at = "polling" /\ Cancelled
  \/ email.at = "mailing" /\ email.left = 0
  \/ metrics.at = "measuring" /\ metrics.left = 0

\* Someone waits for time to pass.
Waiting ==
  at = "run" \/ timer > 0 \/ email.at = "mailing" \/ metrics.at = "measuring" \/ \E r \in Request : Active(r)

Stopping == signalled \/ at \notin {"run", "step"}
Down(n) == IF n > 0 THEN n - 1 ELSE 0

TimePasses ==
  /\ Waiting /\ ~Urgent
  /\ timer' = Down(timer)
  /\ req' = [r \in Request |-> IF Active(r) THEN [req[r] EXCEPT !.left = Down(@)] ELSE req[r]]
  /\ email' = [email EXCEPT !.left = Down(@)] /\ metrics' = [metrics EXCEPT !.left = Down(@)]
  /\ ticker' = (kind = "identity-worker")
  /\ elapsed' = IF Stopping /\ ~(at = "closing" /\ Recording) THEN elapsed + 1 ELSE elapsed
  /\ UNCHANGED <<run, at, result, pool, open, server, results, received, shutting, signalled, failed, late, cut>>

Exited == at = "exited" /\ UNCHANGED lifecycleVars

Main ==
  \/ StartTelemetry \/ LoadAPI \/ LoadWorker \/ LoadWorkspace \/ Connect
  \/ CheckSchema \/ BuildHandlers \/ OpenProducer \/ BuildPublisher \/ OpenConsumer
  \/ OpenVerifier \/ BuildTransport \/ ServeAPI \/ ServeWorker \/ ServeWorkspace
  \/ StopAPI \/ StopWorker \/ StopWorkspace \/ ShutInternal \/ StopSession \/ StopHealth \/ StopPublic
  \/ Drain \/ Unregister \/ ClosePool \/ ConnectionsBack \/ PoolClosed \/ Exit \/ StartStep \/ EndStep

LifecycleNext ==
  \/ Main \/ Signal \/ TimePasses \/ Exited
  \/ \E s \in Server : ServerFails(s)
  \/ \E r \in Request, s \in Server : Arrive(r, s)
  \/ \E r \in Request : Handle(r) \/ Acquire(r) \/ GiveBack(r) \/ FailCallback(r) \/ Answer(r)
  \/ SendEmail \/ EmailSent \/ EmailLoopEnds \/ Measure \/ Measured

LifecycleSpec == LifecycleInit /\ [][LifecycleNext]_lifecycleVars

\* The scheduler runs every goroutine, and time passes.  select picks one of
\* the ready cases at random: the worker does not take its ticker for ever.
\* The database answers each statement or drops it, also one without a deadline.
Fairness ==
  /\ WF_lifecycleVars(Main) /\ SF_lifecycleVars(StopWorker) /\ WF_lifecycleVars(TimePasses)
  /\ WF_lifecycleVars(EmailSent) /\ WF_lifecycleVars(EmailLoopEnds) /\ WF_lifecycleVars(Measured)
  /\ \A r \in Request : WF_lifecycleVars(Answer(r))

FairLifecycle == LifecycleSpec /\ Fairness

------------------------------------------------------------------------------
LifecycleTypeOK ==
  /\ kind \in Kinds /\ config \in Configs[kind]
  /\ at \in StartSteps \cup {"run", "step"} \cup StopSteps
  /\ timer \in Nat /\ result \in {"ok", "error"}
  /\ pool \in {"none", "open", "closing", "closed"} /\ open \subseteq Telemetry \cup Clients
  /\ server \in [Server -> {"off", "serving", "failed", "closed"}]
  /\ results \in Seq({"failed", "closed", "done"}) /\ received \in Nat /\ shutting \in Server
  /\ email \in [at : {"off", "polling", "mailing", "ended"}, left : Nat] /\ ticker \in BOOLEAN
  /\ metrics \in [at : {"off", "idle", "measuring"}, left : Nat]
  /\ req \in [Request -> [at : {"none", "reading", "working", "recording", "done"}, server : Server, left : Nat,
                          conn : BOOLEAN]]
  /\ signalled \in BOOLEAN /\ failed \subseteq servers /\ {late, cut} \subseteq SUBSET Request /\ elapsed \in Nat

(* NothingIsCutOff: a request that was being handled when the process had  *)
(* to stop keeps the pool and the process until it ends or its deadline    *)
(* passes.  The exceptions are those of the code: the session server       *)
(* cancels its requests, the internal server gets what the public one left *)
(* of the deadline, a request that was still being read has a deadline of  *)
(* its own that ends later, and a Workspace API whose server fails does    *)
(* not wait for any.                                                       *)
NothingIsCutOff ==
  \A r \in cut \ late : req[r].server \in {"internal", "session"} \/ (kind = "workspace-api" /\ failed # {})

(* NobodyUsesAClosedPool: the pool of the Identity API and of the worker is *)
(* closed after all that Run started has ended and has been heard: each     *)
(* server, the email loop with the message it was sending, and the          *)
(* measurements, which also need the producer.                              *)
NobodyUsesAClosedPool ==
  pool \in {"closing", "closed"} /\ kind # "workspace-api" =>
    /\ \A s \in Server : server[s] \in {"off", "closed"}
    /\ email.at \in {"off", "ended"} /\ metrics.at = "off" /\ results = <<>>

(* ExitCodeIsRight: an API that served exits with an error exactly if one  *)
(* of its servers failed, even if that happens while another one is being  *)
(* shut down; a Workspace API also does when Shutdown ran out of time.  A  *)
(* process that never served exits with an error, unless the signal came   *)
(* before a Workspace API began.                                           *)
ExitCodeIsRight ==
  at = "exited" =>
    /\ kind = "identity-api" => (ExitCode = 1 <=> failed # {} \/ server["public"] = "off")
    /\ kind = "workspace-api" /\ server["public"] # "off" =>
         /\ failed # {} => ExitCode = 1
         /\ ExitCode = 1 => failed # {} \/ elapsed >= StopTimeout
    /\ ExitCode = 0 => signalled

(* StopsInBoundedTime: all calls to Shutdown share one deadline; before it *)
(* begins, a worker ends its tick, and after it, the measurement under way *)
(* and its place in the consumer group; the connections of the APIs are    *)
(* back when the deadline of the last handler passes, and are dropped; and *)
(* the two exports run side by side.  The time for which the pool waits    *)
(* for the record of a failed callback is not bounded by the code, and not *)
(* counted: Stops says that it ends if the database lets it.               *)
StopsInBoundedTime ==
  elapsed <= StopTimeout + DropTimeout + FlushTimeout
               + (IF kind = "identity-worker" THEN StepTimeout + MetricTimeout + BrokerTimeout ELSE RequestTimeout)

(* Stops: a process that was signalled, or lost a server, exits.           *)
Stops == signalled \/ failed # {} ~> at = "exited"

(* WholeOrNothing: a process serves with everything it opened, or not at   *)
(* all: what an earlier step opened is closed when a later step of the     *)
(* start fails, when the listeners cannot be opened, and at the end.  What *)
(* is configured in part is not left out: the process does not serve.      *)
WholeOrNothing ==
  /\ at = "run" => open = Telemetry \cup Clients /\ pool = "open"
  /\ at = "run" /\ kind = "identity-api" =>
       /\ server["session"] = "off" => \A f \in SessionFields : config.session[f] = ""
       /\ config.origin # "" => config.clients # {}
  /\ at = "flush" => open = Telemetry /\ pool \in {"none", "closed"}
  /\ at = "exited" => open = {}

(* WorkerStopsCleanly: what the worker's test expects: a worker that       *)
(* served, whose server did not fail and that is then told to stop ends    *)
(* with no error.                                                          *)
WorkerStopsCleanly ==
  at = "exited" /\ kind = "identity-worker" /\ server["health"] # "off" /\ failed = {} => ExitCode = 0

------------------------------------------------------------------------------
(* The invariant: what is so at each step of a process.                    *)

\* Each kind takes its own steps, and shuts down the servers it has.
StepsFitKinds ==
  /\ at \in {"schema", "handlers"} => kind = "identity-api"
  /\ at \in {"producer", "publisher", "consumer", "step"} => kind = "identity-worker"
  /\ at \in {"verifier", "transport"} => kind = "workspace-api"
  /\ at = "drain" => kind # "workspace-api"
  /\ at = "leaving" => kind = "identity-worker"
  /\ at = "stop" => shutting \in servers \ {"session"}
  /\ kind = "identity-api" /\ (pool # "none" \/ at = "connect") => LoadAPIConfig(config)

\* The worker measures from when it serves until its Run returns.
MeasuresWhileItRuns ==
  metrics.at # "off" => kind = "identity-worker" /\ at \in {"run", "step", "stop", "drain", "close"}

\* What is open when: each step opens one resource, and each error return closes what is open.
OpenAt ==
  CASE at \in {"telemetry", "exited"} -> {}
    [] at \in {"load", "connect", "schema", "handlers", "producer", "verifier", "closing", "dropping", "flush"} -> Telemetry
    [] at \in {"publisher", "consumer", "transport"} -> Telemetry \cup (Clients \ {"consumer"})
    [] at \in {"listen", "run", "step", "stop", "drain", "close", "leaving"} -> Telemetry \cup Clients

ResourcesMatchProgress ==
  /\ open = OpenAt
  /\ IF at \in {"telemetry", "load", "connect"} THEN pool = "none"
     ELSE IF at \in {"closing", "dropping"} THEN pool = "closing"
     ELSE IF at \in {"flush", "exited"} THEN pool \in {"none", "closed"} ELSE pool = "open"

\* A process has all of its servers or none, and those of the APIs and of the worker are
\* closed and heard of before the pool is.
ServersMatchProgress ==
  /\ at \in {"run", "step", "stop", "drain"} => \A s \in Server : server[s] = "off" <=> s \notin servers
  /\ at \in StartSteps => \A s \in Server : server[s] = "off"
  /\ (\A s \in Server : server[s] = "off") \/ (\A s \in Server : server[s] = "off" <=> s \notin servers)
  /\ at \in {"run", "step"} => \A s \in Server : server[s] # "closed"
  /\ at = "stop" => server[shutting] = "closed" /\ (shutting = "internal" => server["public"] = "closed")
  /\ at \in StopSteps \ {"stop"} =>
       \A s \in Server : server[s] # "serving" /\ (kind = "workspace-api" \/ server[s] # "failed")
  /\ email.at = "off" <=> server["health"] = "off"

\* A process that never had a pool never served.
NoPoolNoServer == pool = "none" => \A s \in Server : server[s] = "off"

\* Each server and the email loop reports its end once, and the report waits or was received.
Reported(s) == IF server[s] \in {"failed", "closed"} THEN 1 ELSE 0
Ended ==
  Reported("public") + Reported("internal") + Reported("session") + Reported("health")
    + (IF email.at = "ended" THEN 1 ELSE 0)
ReportsAddUp ==
  /\ received + Len(results) = Ended
  /\ at \in {"run", "step"} \/ kind = "workspace-api" => received = 0
  /\ at \in {"close", "leaving"} /\ kind # "workspace-api" => email.at \in {"off", "ended"} /\ results = <<>>

\* A failure is in the channel until it is in the result.
FailureWaits == \E i \in 1..Len(results) : results[i] = "failed"
FailuresAreKept ==
  /\ at \in StartSteps \cup {"run", "step"} => result = "ok"
  /\ at \in StartSteps => failed = {}
  /\ kind = "identity-api" =>
       /\ failed # {} <=> FailureWaits \/ (result = "error" /\ server["public"] # "off")
       /\ at = "run" => \A i \in 1..Len(results) : results[i] = "failed"
       /\ at \in StopSteps /\ server["public"] = "off" => result = "error"
  /\ at \in StopSteps /\ (result = "ok" \/ (at = "stop" /\ kind = "workspace-api")) => signalled
  /\ kind = "workspace-api" =>
       /\ failed # {} <=> server["public"] = "failed"
       /\ at \in StopSteps /\ failed # {} => result = "error"
       /\ at \in StopSteps \ {"stop"} /\ server["public"] # "off" /\ result = "error" =>
            failed # {} \/ elapsed >= StopTimeout

\* By when a worker has ended its tick and its message, the calls to Shutdown have returned, the last
\* measurement has ended, and the last connection is back, but for one that a failure record holds.
WorkBy == IF kind = "identity-worker" THEN StepTimeout ELSE 0
StopBy == WorkBy + StopTimeout
MetricBy == StopBy + MetricTimeout
AnswerBy == IF kind = "identity-worker" THEN MetricBy + BrokerTimeout ELSE StopBy + RequestTimeout

\* The deadlines of the requests.  Those of the worker come in before its server is shut down.
InTime(r) ==
  IF kind = "identity-worker"
    THEN /\ req[r].at = "reading" => elapsed + req[r].left <= WorkBy + ReadTimeout
         /\ req[r].at = "working" => elapsed + req[r].left <= WorkBy + ReadTimeout + ProbeTimeout
    ELSE req[r].at = "working" /\ req[r].conn => elapsed + req[r].left <= AnswerBy

MainInTime ==
  /\ at \in StartSteps \/ (at \in {"run", "step"} /\ ~signalled) => elapsed = 0
  /\ at = "run" => elapsed <= WorkBy
  /\ at = "step" => elapsed + timer <= WorkBy
  /\ at = "stop" => StopTimeout <= elapsed + timer /\ elapsed + timer <= StopBy
  /\ at = "drain" => elapsed <= StopBy
  /\ at = "close" => elapsed <= IF kind = "identity-worker" THEN MetricBy ELSE StopBy
  /\ at = "leaving" => elapsed + timer <= AnswerBy
  /\ at = "closing" => elapsed <= AnswerBy
  /\ at = "dropping" => elapsed + timer <= AnswerBy + DropTimeout
  /\ at = "flush" => elapsed + timer <= AnswerBy + DropTimeout + FlushTimeout
  /\ at = "exited" => elapsed <= AnswerBy + DropTimeout + FlushTimeout

OthersInTime ==
  /\ email.at = "mailing" => elapsed + email.left <= WorkBy
  /\ metrics.at = "measuring" => elapsed + metrics.left <= MetricBy
  /\ \A r \in Request : InTime(r)

TimeIsBounded == MainInTime /\ OthersInTime

\* A request that was being handled when its server began to shut down is over when Shutdown returns.
Promised(r) == Active(r) /\ r \notin late /\ req[r].server \in {"public", "health"}
RequestsKeepTheirTime ==
  /\ \A r \in Request :
       /\ Active(r) => server[req[r].server] # "off"
       /\ req[r].at \in {"working", "recording"} => req[r].left <= HandlerTimeout(req[r].server)
       /\ req[r].at = "recording" => kind = "identity-api" /\ req[r].server = "public"
       /\ req[r].conn => req[r].at \in {"working", "recording"}
       /\ r \in cut => req[r].at = "done"
  /\ at \in StartSteps \cup {"run", "step"} => cut = {} /\ late = {}
  /\ at \in StopSteps /\ (kind = "workspace-api" => failed = {}) =>
       \A r \in Request : Promised(r) =>
         /\ req[r].at # "reading"
         /\ req[r].left <= (IF at = "stop" /\ shutting # "internal" THEN timer ELSE 0)
  /\ NothingIsCutOff

\* What holds in every state.
LifecycleInv ==
  /\ LifecycleTypeOK /\ StepsFitKinds /\ MeasuresWhileItRuns /\ ResourcesMatchProgress /\ ServersMatchProgress
  /\ NoPoolNoServer /\ NobodyUsesAClosedPool /\ ReportsAddUp /\ FailuresAreKept
  /\ TimeIsBounded /\ RequestsKeepTheirTime
=============================================================================
