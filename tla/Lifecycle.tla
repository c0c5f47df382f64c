------------------------------ MODULE Lifecycle ------------------------------
(***************************************************************************)
(* How the two processes of the backend start, stop and report themselves: *)
(* the API server (server.js, app.js, systemController.js) and the worker  *)
(* (worker.js, and the closing of monitorWorker.js, monitorQueue.js and    *)
(* telegramBot.js).  They share nothing but the services, so a behaviour   *)
(* has one of them.  Requests and jobs are work in two steps; what they do *)
(* is the subject of other modules.                                        *)
(***************************************************************************)
EXTENDS Naturals, FiniteSets

CONSTANTS Clients,     \* connections to the API
          Slots,       \* concurrent jobs of the worker
          MaxOutages   \* bound: times a service goes down or comes back

ASSUME LifecycleAssumption ==
  IsFiniteSet(Clients) /\ IsFiniteSet(Slots) /\ MaxOutages \in Nat

Procs == {"api", "worker"}
Services == {"mongo", "redis"}
Signals == {"SIGTERM", "SIGINT"}
Resources == {"queue", "redis", "mongo"}   \* what the API closes at the end

VARIABLES
  up,        \* up[v]: service v answers
  outages,   \* bound counter
  phase,     \* phase[p]: how far process p has come
  ended,     \* ended[p]: how it ended, "no" while it runs
  taken,     \* taken[p]: the signals whose once-handlers have run
  conn,      \* conn[c]: a connection is "closed", "idle" or has a request, "busy"
  work,      \* work[c]: what its handler has left to do
  cleanup,   \* cleanup[r]: the API's Promise.allSettled
  link,      \* mongoose.connection.readyState = 1 in the API: what its driver knows
  probe,     \* a call of GET /api/system/ready
  bot,       \* the Telegram loop
  job,       \* job[s]: slot s runs a job
  stop,      \* stop[g]: how far the shutdown that signal g began has come
  lock,      \* the worker's lockConnection
  again      \* the shutdowns that called quit() on a connection that was quitting

services == <<up, outages>>
apiVars == <<conn, work, cleanup, link, probe>>
workerVars == <<bot, job, stop, lock, again>>
vars == <<services, phase, ended, taken, apiVars, workerVars>>

Phases == {"env", "mongo", "redis", "ping", "serving", "closing", "cleanup",
           "sync", "running", "stuck"}
Endings == {"no", "absent", "clean", "failed", "forced", "killed", "crashed"}
NoProbe == [at |-> "none", mongo |-> FALSE]

TypeOK ==
  /\ up \in [Services -> BOOLEAN] /\ outages \in 0 .. MaxOutages
  /\ phase \in [Procs -> Phases]
  /\ ended \in [Procs -> Endings]
  /\ taken \in [Procs -> SUBSET Signals]
  /\ conn \in [Clients -> {"closed", "idle", "busy"}]
  /\ work \in [Clients -> 0 .. 2]
  /\ cleanup \in [Resources -> {"none", "pending", "ok", "rejected"}]
  /\ link \in BOOLEAN
  /\ probe \in [at : {"none", "limiter", "ping", "ready", "not_ready"}, mongo : BOOLEAN]
  /\ bot \in {"off", "working", "sleeping", "quitting", "lost"}
  /\ job \in [Slots -> BOOLEAN]
  /\ stop \in [Signals -> {"none", "bot", "worker", "lock", "queue", "exit"}]
  /\ lock \in {"open", "quitting", "closed"}
  /\ again \subseteq Signals

Init ==
  /\ up \in [Services -> BOOLEAN] /\ outages = 0
  /\ phase = [p \in Procs |-> "env"]
  /\ \E q \in Procs : ended = [p \in Procs |-> IF p = q THEN "no" ELSE "absent"]
  /\ taken = [p \in Procs |-> {}]
  /\ conn = [c \in Clients |-> "closed"]
  /\ work = [c \in Clients |-> 0]
  /\ cleanup = [r \in Resources |-> "none"]
  /\ link = FALSE
  /\ probe = NoProbe
  /\ bot = "off"
  /\ job = [s \in Slots |-> FALSE]
  /\ stop = [g \in Signals |-> "none"]
  /\ lock = "open"
  /\ again = {}

-----------------------------------------------------------------------------
(* Processes *)

At(p, f) == ended[p] = "no" /\ phase[p] = f
GoTo(p, f) == phase' = [phase EXCEPT ![p] = f]
End(p, how) == ended' = [ended EXCEPT ![p] = how]

Outage(v) ==
  /\ outages < MaxOutages
  /\ outages' = outages + 1
  /\ up' = [up EXCEPT ![v] = ~ @]
  /\ UNCHANGED <<phase, ended, taken, apiVars, workerVars>>

OnlyPhases == UNCHANGED <<services, ended, taken, apiVars, workerVars>>

\* Nothing keeps the event loop alive yet, so the process ends with exit code 1.
validateEnvironment(p) ==
  /\ At(p, "env")
  /\ \/ GoTo(p, "mongo") /\ UNCHANGED ended
     \/ End(p, "failed") /\ UNCHANGED phase
  /\ UNCHANGED <<services, taken, apiVars, workerVars>>

\* connectDB tries until MongoDB is there.
connectDB(p) ==
  /\ At(p, "mongo") /\ up["mongo"]
  /\ GoTo(p, IF p = "api" THEN "redis" ELSE "sync")
  /\ link' = (p = "api" \/ link)
  /\ UNCHANGED <<services, ended, taken, conn, work, cleanup, probe, workerVars>>

\* The driver of the API finds out that MongoDB is gone or back, some time after it is.
DriverNotices ==
  /\ ended["api"] = "no" /\ phase["api"] \in Phases \ {"env", "mongo", "cleanup"}
  /\ link' = up["mongo"]
  /\ UNCHANGED <<services, phase, ended, taken, conn, work, cleanup, probe, workerVars>>

\* The client of connectRedis connects, however often it has to try, ...
connectRedis ==
  /\ At("api", "redis") /\ up["redis"]
  /\ GoTo("api", "ping")
  /\ OnlyPhases

\* ... the ping is answered, and the server listens.
Listen ==
  /\ At("api", "ping") /\ up["redis"]
  /\ GoTo("api", "serving")
  /\ OnlyPhases

\* start() rejects: the exit code is set, but the open connection to MongoDB
\* keeps the process alive, and it does nothing any more.
StartFails(p) ==
  /\ \/ At("api", "ping") /\ p = "api" /\ ~up["redis"]
     \/ At("worker", "sync") /\ p = "worker" /\ ~(up["mongo"] /\ up["redis"])
  /\ GoTo(p, "stuck")
  /\ OnlyPhases

\* startMonitorWorker and startTelegramBot.
StartWorker ==
  /\ At("worker", "sync") /\ up["mongo"] /\ up["redis"]
  /\ GoTo("worker", "running")
  /\ \E token \in BOOLEAN : bot' = IF token THEN "working" ELSE "off"
  /\ UNCHANGED <<services, ended, taken, apiVars, job, stop, lock, again>>

\* SIGKILL, at any time.
Kill(p) ==
  /\ ended[p] = "no"
  /\ End(p, "killed")
  /\ UNCHANGED <<services, phase, taken, apiVars, workerVars>>

\* A signal that has no handler (any more) kills the process.
Unhandled(p, g) ==
  /\ ended[p] = "no"
  /\ g \in taken[p] \/ phase[p] \in Phases \ {"serving", "closing", "cleanup", "running"}
  /\ End(p, "killed")
  /\ UNCHANGED <<services, phase, taken, apiVars, workerVars>>

Take(p, g) ==
  /\ ended[p] = "no" /\ g \notin taken[p]
  /\ taken' = [taken EXCEPT ![p] = @ \cup {g}]

-----------------------------------------------------------------------------
(* The API *)

OnlyWork == UNCHANGED <<services, phase, ended, taken, cleanup, link, probe, workerVars>>

Connect(c) ==
  /\ At("api", "serving")
  /\ conn[c] = "closed" /\ work[c] = 0
  /\ conn' = [conn EXCEPT ![c] = "idle"]
  /\ UNCHANGED work
  /\ OnlyWork

\* A connection that is kept alive can carry a request to a server that closes.
Request(c) ==
  /\ At("api", "serving") \/ At("api", "closing")
  /\ conn[c] = "idle"
  /\ conn' = [conn EXCEPT ![c] = "busy"]
  /\ work' = [work EXCEPT ![c] = 2]
  /\ OnlyWork

\* Mutant: a handler that has answered goes on.
HandleAgain(c) ==
  /\ ended["api"] = "no"
  /\ work' = [work EXCEPT ![c] = @ - 1]
  /\ conn' = [conn EXCEPT ![c] = IF work'[c] = 0 /\ @ = "busy" THEN "idle" ELSE @]
  /\ OnlyWork

\* The handler takes a step; the last one answers.
Handle(c) ==
  /\ ended["api"] = "no" /\ work[c] > 0
  /\ work' = [work EXCEPT ![c] = @ - 1]
  /\ conn' = [conn EXCEPT ![c] = IF work'[c] = 0 /\ @ = "busy" THEN "idle" ELSE @]
  /\ OnlyWork

\* The client hangs up, or the connection has been idle for too long; a handler
\* goes on.
HangUp(c) ==
  /\ ended["api"] = "no" /\ conn[c] # "closed"
  /\ conn' = [conn EXCEPT ![c] = "closed"]
  /\ UNCHANGED work
  /\ OnlyWork

\* The idle connections are closed and no others accepted; a timer is set.
Closing == conn' = [c \in Clients |-> IF conn[c] = "idle" THEN "closed" ELSE conn[c]]

shutdown(g) ==
  /\ Take("api", g)
  /\ IF phase["api"] = "serving"
       THEN GoTo("api", "closing") /\ Closing
       ELSE phase["api"] \in {"closing", "cleanup"} /\ UNCHANGED <<phase, conn>>
  /\ UNCHANGED <<services, ended, work, cleanup, link, probe, workerVars>>

\* close() calls back when the last connection is gone.
ServerClosed ==
  /\ At("api", "closing")
  /\ \A c \in Clients : conn[c] = "closed"
  /\ GoTo("api", "cleanup")
  /\ cleanup' = [r \in Resources |-> "pending"]
  /\ UNCHANGED <<services, ended, taken, conn, work, link, probe, workerVars>>

\* Without Redis, the queue's or the client's goodbye may be rejected.
Settle(r) ==
  /\ At("api", "cleanup") /\ cleanup[r] = "pending"
  /\ \E how \in {"ok", "rejected"} :
       /\ how = "rejected" => r # "mongo" /\ ~up["redis"]
       /\ cleanup' = [cleanup EXCEPT ![r] = how]
  /\ link' = (link /\ r # "mongo")
  /\ UNCHANGED <<services, phase, ended, taken, conn, work, probe, workerVars>>

Exit ==
  /\ At("api", "cleanup")
  /\ \A r \in Resources : cleanup[r] \in {"ok", "rejected"}
  /\ End("api", IF \A r \in Resources : cleanup[r] = "ok" THEN "clean" ELSE "failed")
  /\ UNCHANGED <<services, phase, taken, apiVars, workerVars>>

\* Mutant: the timer is set after the server is closed.
TimerAfterClose ==
  /\ At("api", "cleanup")
  /\ End("api", "forced")
  /\ UNCHANGED <<services, phase, taken, apiVars, workerVars>>

\* The timer of the shutdown.
forceShutdown ==
  /\ At("api", "closing") \/ At("api", "cleanup")
  /\ End("api", "forced")
  /\ UNCHANGED <<services, phase, taken, apiVars, workerVars>>

-----------------------------------------------------------------------------
(* The readiness probe *)

OnlyProbe == UNCHANGED <<services, phase, ended, taken, conn, work, cleanup, link, workerVars>>

AskReady ==
  /\ At("api", "serving")
  /\ probe.at \in {"none", "ready", "not_ready"}
  /\ probe' = [probe EXCEPT !.at = "limiter"]
  /\ OnlyProbe

\* Mutant: the answer is that of the probe before.
CachedReadiness ==
  /\ ended["api"] = "no" /\ probe.at = "limiter" /\ up["redis"]
  /\ probe' = [probe EXCEPT !.at = "ping"]
  /\ OnlyProbe

\* The rate limiter of /api, which the probe passes too, has asked Redis; readyCheck
\* reads what the driver knows of MongoDB and sends its ping.
readyCheck ==
  /\ ended["api"] = "no" /\ probe.at = "limiter" /\ up["redis"]
  /\ probe' = [probe EXCEPT !.at = "ping", !.mongo = link]
  /\ OnlyProbe

\* The rest of readyCheck.
Pong ==
  /\ ended["api"] = "no" /\ probe.at = "ping" /\ up["redis"]
  /\ probe' = [probe EXCEPT !.at = IF probe.mongo THEN "ready" ELSE "not_ready"]
  /\ OnlyProbe

\* The connection to Redis is lost while the limiter or the ping waits: 500 or 503.
ProbeFails ==
  /\ ended["api"] = "no" /\ probe.at \in {"limiter", "ping"} /\ ~up["redis"]
  /\ probe' = [probe EXCEPT !.at = "not_ready"]
  /\ OnlyProbe

-----------------------------------------------------------------------------
(* The worker *)

Running == At("worker", "running")
Stopping == \E g \in Signals : stop[g] # "none"
Draining == \E g \in Signals : stop[g] \in {"worker", "lock", "queue", "exit"}
Stop(g, to) == stop' = [stop EXCEPT ![g] = to]
OnlyWorker == UNCHANGED <<services, phase, ended, taken, apiVars>>

TakeJob(s) ==
  /\ Running /\ ~Draining /\ ~job[s]
  /\ job' = [job EXCEPT ![s] = TRUE]
  /\ OnlyWorker
  /\ UNCHANGED <<bot, stop, lock, again>>

\* The worker tells the queue how the job ended, as soon as Redis listens.
FinishJob(s) ==
  /\ Running /\ job[s] /\ up["redis"]
  /\ job' = [job EXCEPT ![s] = FALSE]
  /\ OnlyWorker
  /\ UNCHANGED <<bot, stop, lock, again>>

\* delay(): one that begins after the abort does not notice it and waits its time.
BotDelays ==
  /\ Running /\ bot = "working"
  /\ bot' = "sleeping"
  /\ OnlyWorker
  /\ UNCHANGED <<job, stop, lock, again>>

\* The delay is over, or aborted.
BotWakes ==
  /\ Running /\ bot = "sleeping"
  /\ bot' = IF Stopping THEN "quitting" ELSE "working"
  /\ OnlyWorker
  /\ UNCHANGED <<job, stop, lock, again>>

\* The abort cuts off the call in progress, and the loop ends.
BotAborted ==
  /\ Running /\ bot = "working" /\ Stopping
  /\ bot' = "quitting"
  /\ OnlyWorker
  /\ UNCHANGED <<job, stop, lock, again>>

\* pollingRedis.quit() is answered, or finds that there is no connection to close.
BotQuits ==
  /\ Running /\ bot = "quitting"
  /\ bot' = "off"
  /\ OnlyWorker
  /\ UNCHANGED <<job, stop, lock, again>>

\* The connection drops before QUIT is answered: pollingPromise rejects, so does the
\* shutdown that awaits it, and nobody handles that, whatever jobs are running.
BotQuitRejects ==
  /\ Running /\ bot = "quitting" /\ ~up["redis"]
  /\ bot' = "lost"
  /\ End("worker", "crashed")
  /\ UNCHANGED <<services, phase, taken, apiVars, job, stop, lock, again>>

\* worker.js: each of the two signals begins a shutdown of its own.
shutdownWorker(g) ==
  /\ Running /\ Take("worker", g)
  /\ Stop(g, "bot")
  /\ UNCHANGED <<services, phase, ended, apiVars, bot, job, lock, again>>

\* closeTelegramBot returns, and the worker takes no more jobs.
closeTelegramBot(g) ==
  /\ Running /\ stop[g] = "bot" /\ bot = "off"
  /\ Stop(g, "worker")
  /\ OnlyWorker
  /\ UNCHANGED <<bot, job, lock, again>>

\* Mutant: nobody awaits worker.close().
closeMonitorWorkerAtOnce(g) ==
  /\ Running /\ stop[g] = "worker"
  /\ Stop(g, IF lock = "closed" THEN "queue" ELSE "lock")
  /\ lock' = IF lock = "open" THEN "quitting" ELSE lock
  /\ again' = IF lock = "quitting" THEN again \cup {g} ELSE again
  /\ OnlyWorker
  /\ UNCHANGED <<bot, job>>

\* closeMonitorWorker: worker.close() returns after the last job; then quit().
closeMonitorWorker(g) ==
  /\ Running /\ stop[g] = "worker"
  /\ \A s \in Slots : ~job[s]
  /\ Stop(g, IF lock = "closed" THEN "queue" ELSE "lock")
  /\ lock' = IF lock = "open" THEN "quitting" ELSE lock
  /\ again' = IF lock = "quitting" THEN again \cup {g} ELSE again
  /\ OnlyWorker
  /\ UNCHANGED <<bot, job>>

LockClosed(g) ==
  /\ Running /\ stop[g] = "lock"
  /\ Stop(g, "queue")
  /\ lock' = "closed"
  /\ OnlyWorker
  /\ UNCHANGED <<bot, job, again>>

\* The connection drops before QUIT is answered, or a second quit() finds it closed;
\* nobody handles the rejection.
LockRejects(g) ==
  /\ Running /\ stop[g] = "lock"
  /\ g \in again \/ ~up["redis"]
  /\ End("worker", "crashed")
  /\ UNCHANGED <<services, phase, taken, apiVars, workerVars>>

closeMonitorQueue(g) ==
  /\ Running /\ stop[g] = "queue"
  /\ Stop(g, "exit")
  /\ OnlyWorker
  /\ UNCHANGED <<bot, job, lock, again>>

\* The queue's goodbye is rejected (compare Settle), and nobody handles that either.
QueueRejects(g) ==
  /\ Running /\ stop[g] = "queue" /\ ~up["redis"]
  /\ End("worker", "crashed")
  /\ UNCHANGED <<services, phase, taken, apiVars, workerVars>>

\* mongoose.disconnect() and process.exit(0).
ExitWorker(g) ==
  /\ Running /\ stop[g] = "exit"
  /\ End("worker", "clean")
  /\ UNCHANGED <<services, phase, taken, apiVars, workerVars>>

-----------------------------------------------------------------------------
ServerStep == ServerClosed \/ Exit \/ \E r \in Resources : Settle(r)
BotStep == BotWakes \/ BotAborted \/ BotQuits
StopStep(g) == closeTelegramBot(g) \/ closeMonitorWorker(g) \/ LockClosed(g)
               \/ LockRejects(g) \/ closeMonitorQueue(g) \/ QueueRejects(g) \/ ExitWorker(g)

Over == \A p \in Procs : ended[p] # "no"

Next ==
  \/ \E v \in Services : Outage(v)
  \/ \E p \in Procs : validateEnvironment(p) \/ connectDB(p) \/ StartFails(p) \/ Kill(p)
                      \/ \E g \in Signals : Unhandled(p, g)
  \/ connectRedis \/ Listen \/ StartWorker
  \/ \E c \in Clients : Connect(c) \/ Request(c) \/ Handle(c) \/ HangUp(c)
  \/ \E g \in Signals : shutdown(g) \/ shutdownWorker(g) \/ StopStep(g)
  \/ ServerStep \/ forceShutdown
  \/ DriverNotices \/ AskReady \/ readyCheck \/ Pong \/ ProbeFails
  \/ \E s \in Slots : TakeJob(s) \/ FinishJob(s)
  \/ BotDelays \/ BotStep \/ BotQuitRejects
  \/ Over /\ UNCHANGED vars

Spec == Init /\ [][Next]_vars

\* Timers fire, jobs end, and the closing calls return; the worker's may wait for
\* Redis.  The container is probed every 30 seconds (docker-compose.yml:55-59), a probe
\* goes on while Redis answers, and the driver's heartbeat notices.  Nothing is asked of
\* clients, of requests or of the services.
FairSpec ==
  /\ Spec
  /\ WF_vars(forceShutdown)
  /\ WF_vars(up["redis"] /\ BotStep)
  /\ \A s \in Slots : WF_vars(FinishJob(s))
  /\ \A g \in Signals : WF_vars(up["redis"] /\ StopStep(g))
  /\ WF_vars(DriverNotices)
  /\ WF_vars(AskReady) /\ WF_vars(readyCheck) /\ WF_vars(Pong)

-----------------------------------------------------------------------------
(* Properties *)

\* An API that ends by itself leaves no client waiting for an answer.  A worker that
\* exits has no job running and has closed the bot and the lock's connection, whatever
\* signals came in whatever order.  One that crashes on its way out got both signals or
\* met an outage, and abandons a job only if the bot's goodbye was what failed.
OrderlyExit ==
  /\ ended["api"] \in {"clean", "failed"} => \A c \in Clients : conn[c] # "busy"
  /\ ended["worker"] = "clean" =>
       bot = "off" /\ lock = "closed" /\ \A s \in Slots : ~job[s]
  /\ ended["worker"] = "crashed" =>
       /\ taken["worker"] = Signals \/ outages > 0
       /\ (\E s \in Slots : job[s]) => bot = "lost"

\* The readiness answer, which is made of a cached state and a ping, comes to be the
\* true one: while a service stays away the last answer is not ready, and while both
\* stay the last answer is not "not ready", whatever it was and however late the driver.
ReadinessSettles ==
  /\ \A v \in Services :
       <>[](At("api", "serving") /\ ~up[v]) => <>[](probe.at # "ready")
  /\ <>[](At("api", "serving") /\ \A v \in Services : up[v]) => <>[](probe.at # "not_ready")

\* Every shutdown of the API ends, whatever its clients and Redis do; the worker, which
\* has no timer, needs Redis for it (a job has to be reported, the lease given back).
ShutdownEnds ==
  /\ At("api", "closing") ~> ended["api"] # "no"
  /\ <>[]up["redis"] => (Running /\ Stopping ~> ended["worker"] # "no")
=============================================================================
