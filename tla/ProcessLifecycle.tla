-------------------------- MODULE ProcessLifecycle --------------------------
(***************************************************************************)
(* Startup and graceful shutdown of the gateway's processes: the worker    *)
(* (four poll loops), the blockchain monitor (one loop per network, or     *)
(* none), the API and the web server, with the ops server and the          *)
(* dependency gauge they share.  A behaviour follows one process, `app`.   *)
(***************************************************************************)
EXTENDS Naturals, FiniteSets

CONSTANTS
  WatchedNetworks,  \* the networks the monitor has an RPC URL for
  HttpRequests      \* requests the API or the web server may receive

ASSUME LifecycleConstants == IsFiniteSet(HttpRequests)

VARIABLES
  app,            \* which entry point this process runs
  phase,          \* where its main() or shutdown() is
  shuttingDown,   \* the signal handler has run
  loop,           \* what each poll loop is doing
  request,        \* what became of each HTTP request
  inFlight,       \* the http in-flight gauge
  db,             \* the Prisma client is connected
  redis,          \* the ioredis client's status
  gaugeTimer,     \* the dependency gauge's interval is armed
  probe,          \* the answer of the last GET /ready
  drainTimedOut   \* shutdownTimeoutMs elapsed before the drain ended

lifecycleVars == <<app, phase, shuttingDown, loop, request, inFlight, db,
                   redis, gaugeTimer, probe, drainTimedOut>>

WorkerLoops == {"webhooks", "expiry", "reconciliation", "financial_health"}

Pollers == {"worker", "monitor", "idle_monitor"}

\* The loops main() passes to Promise.all.
AppLoops(a) ==
  CASE a = "worker"  -> WorkerLoops
    [] a = "monitor" -> WatchedNetworks
    [] OTHER         -> {}

\* Requests that have no answer yet; a stranded one has lost the database or
\* Redis.
Unanswered == {r \in HttpRequests : request[r] \in {"running", "stranded"}}

\* What the end of the process makes of them.
Cut == [r \in HttpRequests |-> IF r \in Unanswered THEN "torn" ELSE request[r]]

LifecycleInit ==
  /\ app \in Pollers \cup {"api", "web"}
  /\ phase = "starting"
  /\ shuttingDown = FALSE
  /\ loop = [l \in WorkerLoops \cup WatchedNetworks |-> "off"]
  /\ request = [r \in HttpRequests |-> "none"]
  /\ inFlight = 0
  /\ db = FALSE
  /\ redis = "wait"
  /\ gaugeTimer = FALSE
  /\ probe = "none"
  /\ drainTimedOut = FALSE

-----------------------------------------------------------------------------
(* The worker and the monitor                                              *)

\* $connect, the ops server and the gauge; the handlers are installed and
\* every loop begins its first tick.
PollerStarts ==
  /\ app \in Pollers /\ phase = "starting"
  /\ phase' = "serving"
  /\ db' = TRUE
  /\ gaugeTimer' = TRUE
  /\ loop' = [l \in DOMAIN loop |->
                IF l \in AppLoops(app) THEN "tick" ELSE loop[l]]
  /\ UNCHANGED <<app, shuttingDown, request, inFlight, redis, probe,
                 drainTimedOut>>

\* A tick returns or throws; the catch keeps the loop alive either way.
EndTick(l) ==
  /\ loop[l] = "tick"
  /\ loop' = [loop EXCEPT ![l] = "sleep"]
  /\ UNCHANGED <<app, phase, shuttingDown, request, inFlight, db, redis,
                 gaugeTimer, probe, drainTimedOut>>

\* The sleep ends, at once if aborted, and `while (!signal.aborted)` decides.
WakeUp(l) ==
  /\ loop[l] = "sleep"
  /\ loop' = [loop EXCEPT ![l] = IF shuttingDown THEN "done" ELSE "tick"]
  /\ UNCHANGED <<app, phase, shuttingDown, request, inFlight, db, redis,
                 gaugeTimer, probe, drainTimedOut>>

\* (Mutant: Promise.race of the loops.)
firstLoopEnded ==
  IF AppLoops(app) = {} THEN shuttingDown
                        ELSE \E l \in AppLoops(app) : loop[l] = "done"

\* The await that ends main(): Promise.all of the loops, or waitForShutdown
\* where no network is configured.
LoopsEnded ==
  IF AppLoops(app) = {} THEN shuttingDown
                        ELSE \A l \in AppLoops(app) : loop[l] = "done"

\* dependencyHealth.stop() and opsServer.close().
PollerClosesOps ==
  /\ app \in Pollers /\ phase = "serving" /\ LoopsEnded
  /\ phase' = "disconnecting"
  /\ gaugeTimer' = FALSE
  /\ UNCHANGED <<app, shuttingDown, loop, request, inFlight, db, redis, probe,
                 drainTimedOut>>

PollerDisconnects ==
  /\ app \in Pollers /\ phase = "disconnecting"
  /\ phase' = "exited"
  /\ db' = FALSE
  /\ UNCHANGED <<app, shuttingDown, loop, request, inFlight, redis,
                 gaugeTimer, probe, drainTimedOut>>

-----------------------------------------------------------------------------
(* The API                                                                 *)

\* createApp constructs the providers.  With metrics enabled the gauge's
\* first redis.ping() makes the lazy client connect on its own.
ApiStartsOps ==
  /\ app = "api" /\ phase = "starting"
  /\ phase' = "created"
  /\ \/ gaugeTimer' = TRUE /\ redis' = "connecting"
     \/ UNCHANGED <<gaugeTimer, redis>>
  /\ UNCHANGED <<app, shuttingDown, loop, request, inFlight, db, probe,
                 drainTimedOut>>

\* app.listen runs the init hooks.  RedisLifecycle connects only a client
\* that nothing has touched, and otherwise waits for the attempt under way.
RedisOnModuleInit ==
  /\ app = "api" /\ phase = "created"
  /\ phase' = "initialising"
  /\ redis' = IF redis = "wait" THEN "connecting" ELSE redis
  /\ UNCHANGED <<app, shuttingDown, loop, request, inFlight, db, gaugeTimer,
                 probe, drainTimedOut>>

PrismaOnModuleInit ==
  /\ app = "api" /\ phase = "initialising" /\ ~db
  /\ db' = TRUE
  /\ UNCHANGED <<app, phase, shuttingDown, loop, request, inFlight, redis,
                 gaugeTimer, probe, drainTimedOut>>

RedisConnects ==
  /\ redis = "connecting" /\ phase # "exited"
  /\ redis' = "ready"
  /\ UNCHANGED <<app, phase, shuttingDown, loop, request, inFlight, db,
                 gaugeTimer, probe, drainTimedOut>>

\* Before the hook waits for it, a failed attempt is retried by ioredis.
RedisRefuses ==
  /\ redis = "connecting" /\ phase = "initialising"
  /\ phase' = "exited"
  /\ UNCHANGED <<app, shuttingDown, loop, request, inFlight, db, redis,
                 gaugeTimer, probe, drainTimedOut>>

\* The connection is lost; ioredis reconnects or gives up.
RedisDrops ==
  /\ redis = "ready" /\ phase \in {"serving", "draining", "closing"}
  /\ redis' \in {"connecting", "end"}
  /\ UNCHANGED <<app, phase, shuttingDown, loop, request, inFlight, db,
                 gaugeTimer, probe, drainTimedOut>>

ApiListens ==
  /\ app = "api" /\ phase = "initialising" /\ db /\ redis = "ready"
  /\ phase' = "serving"
  /\ UNCHANGED <<app, shuttingDown, loop, request, inFlight, db, redis,
                 gaugeTimer, probe, drainTimedOut>>

\* Promise.race: httpAdapter.close() resolves once every request is answered,
\* or the timer rejects first.
ApiDrains ==
  /\ app = "api" /\ phase = "draining"
  /\ \/ Unanswered = {} /\ UNCHANGED drainTimedOut
     \/ drainTimedOut' = TRUE
  /\ phase' = "closing"
  /\ UNCHANGED <<app, shuttingDown, loop, request, inFlight, db, redis,
                 gaugeTimer, probe>>

\* app.close() runs the destroy hooks first: RedisLifecycle quits unless the
\* connection is already gone, PrismaLifecycle disconnects.  A quit that
\* throws ends app.close(), perhaps before the Prisma hook.
ApiDestroysProviders ==
  /\ app = "api" /\ phase = "closing"
  /\ \/ redis' = "end" /\ db' = FALSE /\ phase' = "disposing"
     \/ redis # "end" /\ UNCHANGED redis /\ db' \in {db, FALSE} /\ phase' = "exiting"
  /\ request' = [r \in HttpRequests |->
                   IF r \in Unanswered /\ (~db' \/ redis' = "end")
                     THEN "stranded" ELSE request[r]]
  /\ UNCHANGED <<app, shuttingDown, loop, inFlight, gaugeTimer, probe,
                 drainTimedOut>>

\* Then it closes the HTTP adapter again, and waits for the requests that the
\* first close was waiting for; nothing bounds this wait.
ApiDisposes ==
  /\ app = "api" /\ phase = "disposing" /\ Unanswered = {}
  /\ phase' = "exiting"
  /\ UNCHANGED <<app, shuttingDown, loop, request, inFlight, db, redis,
                 gaugeTimer, probe, drainTimedOut>>

\* opsServer.close(), then process.exit(0).
ApiExits ==
  /\ app = "api" /\ phase = "exiting"
  /\ phase' = "exited"
  /\ request' = Cut
  /\ UNCHANGED <<app, shuttingDown, loop, inFlight, db, redis, gaugeTimer,
                 probe, drainTimedOut>>

-----------------------------------------------------------------------------
(* The web server                                                          *)

WebListens ==
  /\ app = "web" /\ phase = "starting"
  /\ phase' = "serving"
  /\ UNCHANGED <<app, shuttingDown, loop, request, inFlight, db, redis,
                 gaugeTimer, probe, drainTimedOut>>

\* server.close's callback once every request is answered, or the timer's
\* process.exit(1).
WebExits ==
  /\ app = "web" /\ phase = "draining"
  /\ phase' = "exited"
  /\ \/ Unanswered = {} /\ UNCHANGED drainTimedOut
     \/ drainTimedOut' = TRUE
  /\ request' = Cut
  /\ UNCHANGED <<app, shuttingDown, loop, inFlight, db, redis, gaugeTimer,
                 probe>>

-----------------------------------------------------------------------------
(* HTTP requests and readiness probes                                      *)

\* The onRequest hook (API) or createServer's listener (web).
RequestArrives(r) ==
  /\ app \in {"api", "web"} /\ phase = "serving" /\ request[r] = "none"
  /\ request' = [request EXCEPT ![r] = "running"]
  /\ inFlight' = inFlight + 1
  /\ UNCHANGED <<app, phase, shuttingDown, loop, db, redis, gaugeTimer, probe,
                 drainTimedOut>>

\* fastify's onResponse always runs; the web server counts only the `finish`
\* event, which a client that goes away first never causes.
RequestEnds(r) ==
  /\ r \in Unanswered /\ phase # "exited"
  /\ request' = [request EXCEPT ![r] = "done"]
  /\ \/ inFlight' = inFlight - 1
     \/ app = "web" /\ UNCHANGED inFlight
  /\ UNCHANGED <<app, phase, shuttingDown, loop, db, redis, gaugeTimer, probe,
                 drainTimedOut>>

\* GET /ready on the ops port: 503 once shutdown has begun, otherwise the
\* checks are awaited.
OpsReadyAsked ==
  /\ app \in Pollers /\ phase = "serving" /\ probe # "checking"
  /\ probe' = IF shuttingDown THEN "503" ELSE "checking"
  /\ UNCHANGED <<app, phase, shuttingDown, loop, request, inFlight, db, redis,
                 gaugeTimer, drainTimedOut>>

\* runCheck: SELECT 1 answers, or fails or times out.  The flag is not read
\* again, so a check begun before the signal may still answer 200.
\* opsServer.close() drops a connection that is still waiting.
OpsReadyAnswers ==
  /\ probe = "checking"
  /\ probe' \in IF phase = "serving" THEN {"200", "503"} ELSE {"none"}
  /\ UNCHANGED <<app, phase, shuttingDown, loop, request, inFlight, db, redis,
                 gaugeTimer, drainTimedOut>>

\* GET /v1/ready asks the database and Redis, whichever of them fails.
ApiReady ==
  /\ app = "api" /\ phase = "serving"
  /\ \/ redis = "ready" /\ probe' = "200"
     \/ probe' = "503"
  /\ UNCHANGED <<app, phase, shuttingDown, loop, request, inFlight, db, redis,
                 gaugeTimer, drainTimedOut>>

-----------------------------------------------------------------------------
(* Signals                                                                 *)

\* SIGTERM or SIGINT once the handlers are installed.
Shutdown ==
  /\ ~shuttingDown /\ phase \in {"initialising", "serving"}
  /\ shuttingDown' = TRUE
  /\ phase' = IF app \in Pollers THEN phase ELSE "draining"
  /\ gaugeTimer' = (gaugeTimer /\ app # "api")
  /\ UNCHANGED <<app, loop, request, inFlight, db, redis, probe,
                 drainTimedOut>>

\* Before that a signal, or a failed $connect or listen, ends the process.
StartupFails ==
  /\ phase \in {"starting", "created", "initialising"} /\ ~shuttingDown
  /\ phase' = "exited"
  /\ UNCHANGED <<app, shuttingDown, loop, request, inFlight, db, redis,
                 gaugeTimer, probe, drainTimedOut>>

LoopStep(l) == EndTick(l) \/ WakeUp(l)

\* The steps of main() and shutdown().
ProcessStep ==
  \/ PollerStarts \/ PollerClosesOps \/ PollerDisconnects
  \/ ApiStartsOps \/ RedisOnModuleInit \/ PrismaOnModuleInit \/ ApiListens
  \/ ApiDrains \/ ApiDestroysProviders \/ ApiDisposes \/ ApiExits
  \/ WebListens \/ WebExits

LifecycleNext ==
  \/ ProcessStep
  \/ \E l \in DOMAIN loop : LoopStep(l)
  \/ \E r \in HttpRequests : RequestArrives(r) \/ RequestEnds(r)
  \/ RedisConnects \/ RedisRefuses \/ RedisDrops
  \/ OpsReadyAsked \/ OpsReadyAnswers \/ ApiReady
  \/ Shutdown \/ StartupFails

\* A tick ends (its RPC calls, deliveries and statements are bounded by
\* timeouts) and the process goes on; no request is assumed to finish.
LifecycleFairness ==
  /\ WF_lifecycleVars(ProcessStep)
  /\ \A l \in WorkerLoops \cup WatchedNetworks :
       WF_lifecycleVars(LoopStep(l))

LifecycleSpec ==
  LifecycleInit /\ [][LifecycleNext]_lifecycleVars /\ LifecycleFairness

-----------------------------------------------------------------------------

LifecycleTypeOK ==
  /\ app \in Pollers \cup {"api", "web"}
  /\ phase \in {"starting", "created", "initialising", "serving",
                "disconnecting", "draining", "closing", "disposing", "exiting",
                "exited"}
  /\ shuttingDown \in BOOLEAN
  /\ loop \in [WorkerLoops \cup WatchedNetworks ->
                 {"off", "tick", "sleep", "done"}]
  /\ request \in [HttpRequests -> {"none", "running", "stranded", "torn", "done"}]
  /\ inFlight \in 0..Cardinality(HttpRequests)
  /\ db \in BOOLEAN
  /\ redis \in {"wait", "connecting", "ready", "end"}
  /\ gaugeTimer \in BOOLEAN
  /\ probe \in {"none", "checking", "200", "503"}
  /\ drainTimedOut \in BOOLEAN

\* A tick runs only on a connected database, and an HTTP request loses its
\* database, Redis or process only if the drain timed out.
TicksConnected == \A l \in DOMAIN loop : loop[l] = "tick" => db
TornByTimeout ==
  \A r \in HttpRequests : request[r] \in {"stranded", "torn"} => drainTimedOut

\* app.close() waits for a request that the drain gave up on.
HeldUp == phase = "disposing" /\ drainTimedOut /\ Unanswered # {}

\* Nothing is cut off by a shutdown (main()'s Promise.all before $disconnect;
\* the API's and the web server's drain), and a process that was told to stop
\* does stop, though no request need ever end, unless app.close() waits for
\* one: worker, monitor and web server always, the API if its drain is clean.
DrainsCleanly ==
  /\ [](TicksConnected /\ TornByTimeout)
  /\ <>[](shuttingDown => phase = "exited" \/ HeldUp)
=============================================================================
