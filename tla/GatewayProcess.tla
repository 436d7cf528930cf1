--------------------------- MODULE GatewayProcess ---------------------------
(***************************************************************************)
(* One gateway process from start to exit: the PostgreSQL notification     *)
(* listener with its reconnects and its bounded retries of a job push      *)
(* (startJobNotificationListener in src/server/ws.ts), the wiring that     *)
(* stops it, the maintenance sweeps and the shutdown drain (server.ts).    *)
(*                                                                         *)
(* A connect attempt is a task of its own: it awaits the pool, then the    *)
(* three LISTEN statements, then is adopted.  The pool's end() waits for   *)
(* every client still checked out, so a leaked client would hold up the    *)
(* exit until the hard timeout.                                            *)
(***************************************************************************)
EXTENDS Integers, FiniteSets

CONSTANTS
  MaxConnects,  \* bound on connect attempts in one behaviour
  Jobs,         \* jobs named by notifications
  Slots,        \* pushes that may be in flight at once
  MaxTimers,    \* MAX_NOTIFICATION_RETRY_TIMERS
  MaxRetries,   \* the length of NOTIFICATION_RETRY_DELAYS_MS
  Sweeps,       \* the maintenance tasks of server.ts
  Requests      \* HTTP requests that may be open when the drain starts

BoundsAreNatural == MaxConnects \in Nat \ {0} /\ MaxTimers \in Nat /\ MaxRetries \in Nat

VARIABLES
  task,      \* each connect attempt: "none", "acquiring", "subscribing", "adopted", "leaving", "gone"
  active,    \* activeClient, 0 for none
  timer,     \* reconnectTimer is set
  stopped,   \* the listener's own stopped flag
  outer,     \* attachAgentWSS's stopped flag
  hook,      \* stopNotificationListener has been set
  retry,     \* notificationRetryTimers: retry count of the timer of each job, 0 for none
  push,      \* each slot: the job and retry count of a claimAndPush in flight
  sweep,     \* the maintenance tasks that are running
  open,      \* open HTTP requests
  phase      \* "running", "draining", "closed" (pool.end called), "clean" or "hard"

vars == <<task, active, timer, stopped, outer, hook, retry, push, sweep, open, phase>>
listener == <<task, active, timer, stopped, retry>>
process == <<outer, hook, sweep, open, phase>>

NoPush == [job |-> 0, n |-> 0]
Exited == phase \in {"clean", "hard"}
Held == {c \in 1..MaxConnects : task[c] \in {"subscribing", "adopted", "leaving"}}
InFlight == {c \in 1..MaxConnects : task[c] \in {"acquiring", "subscribing"}}

Init ==
  /\ task = [c \in 1..MaxConnects |-> IF c = 1 THEN "acquiring" ELSE "none"]
  /\ active = 0 /\ timer = FALSE /\ stopped = FALSE
  /\ outer = FALSE /\ hook = FALSE
  /\ retry = [j \in Jobs |-> 0]
  /\ push = [x \in Slots |-> NoPush]
  /\ sweep = {} /\ open = Requests /\ phase = "running"

-----------------------------------------------------------------------------
\* The LISTEN connection.

\* scheduleReconnect: one timer at a time, none after the stop.
scheduleReconnect == timer' = (timer \/ ~stopped)

\* The timer fires and connect() starts, unless there is nothing to do.
reconnect(c) ==
  /\ timer /\ ~Exited
  /\ timer' = FALSE
  /\ IF stopped \/ active # 0 THEN UNCHANGED task
     ELSE task[c] = "none" /\ task' = [task EXCEPT ![c] = "acquiring"]
  /\ UNCHANGED <<active, stopped, retry, push, process>>

\* pool.connect() answered; a stop in between only releases the client.
acquired(c) ==
  /\ task[c] = "acquiring" /\ phase \in {"running", "draining"}
  /\ task' = [task EXCEPT ![c] = IF stopped THEN "gone" ELSE "subscribing"]
  /\ UNCHANGED <<active, timer, stopped, retry, push, process>>

acquireFails(c) ==
  /\ task[c] = "acquiring" /\ ~Exited
  /\ task' = [task EXCEPT ![c] = "gone"]
  /\ scheduleReconnect
  /\ UNCHANGED <<active, stopped, retry, push, process>>

\* What becomes of a client whose three LISTENs succeeded.
Adoption(c) == IF stopped THEN "leaving" ELSE "adopted"

listened(c) ==
  /\ task[c] = "subscribing" /\ ~Exited
  /\ task' = [task EXCEPT ![c] = Adoption(c)]
  /\ active' = IF Adoption(c) = "adopted" THEN c ELSE active
  /\ UNCHANGED <<timer, stopped, retry, push, process>>

\* A variant of the code that the properties below must reject.
KeepFailedClient == "subscribing"

\* A client whose LISTEN failed is released before the error is rethrown.
FailedSetup == "gone"

listenFails(c) ==
  /\ task[c] = "subscribing" /\ ~Exited
  /\ task' = [task EXCEPT ![c] = FailedSetup]
  /\ scheduleReconnect
  /\ UNCHANGED <<active, stopped, retry, push, process>>

\* A variant of the code that the properties below must reject.
DropWithoutReconnect == timer' = timer

reconnectAfterLoss == timer' = (timer \/ ~stopped)

\* "error" or "end" of the adopted client: disconnect().
connectionLost(c) ==
  /\ task[c] = "adopted" /\ active = c /\ ~Exited
  /\ active' = 0
  /\ task' = [task EXCEPT ![c] = "gone"]
  /\ reconnectAfterLoss
  /\ UNCHANGED <<stopped, retry, push, process>>

\* The last UNLISTEN returned: the client goes back to the pool.
unlistened(c) ==
  /\ task[c] = "leaving" /\ ~Exited
  /\ task' = [task EXCEPT ![c] = "gone"]
  /\ UNCHANGED <<active, timer, stopped, retry, push, process>>

\* A variant of the code that the properties below must reject.
TimersSurvive == retry

\* Teardown cancels every delayed claim.
CancelledTimers == [j \in Jobs |-> 0]

\* The function startJobNotificationListener returns.
stopListener ==
  IF stopped THEN UNCHANGED listener
  ELSE /\ stopped' = TRUE /\ timer' = FALSE /\ active' = 0
       /\ retry' = CancelledTimers
       /\ task' = IF active = 0 THEN task ELSE [task EXCEPT ![active] = "leaving"]

-----------------------------------------------------------------------------
\* The wiring of attachAgentWSS.

\* A variant of the code that the properties below must reject.
HookOnly == FALSE

\* The server closed while the first connect was still running.
ClosedMeanwhile == outer

\* The first connect() settled and the promise delivers the stop function.
listenerStarted ==
  /\ ~hook /\ ~Exited /\ task[1] \notin {"acquiring", "subscribing"}
  /\ hook' = TRUE
  /\ IF ClosedMeanwhile THEN stopListener ELSE UNCHANGED listener
  /\ UNCHANGED <<push, outer, sweep, open, phase>>

\* "close" of the WebSocket server, reported after the drain began.
wssClosed ==
  /\ phase # "running" /\ ~Exited /\ ~outer
  /\ outer' = TRUE
  /\ IF hook THEN stopListener ELSE UNCHANGED listener
  /\ UNCHANGED <<push, hook, sweep, open, phase>>

-----------------------------------------------------------------------------
\* Job notifications and their retries.

\* A notification reaches the adopted listener: pushNotifiedJob(notice, 0).
notification(x, j) ==
  /\ active # 0 /\ ~stopped /\ ~Exited /\ push[x] = NoPush
  /\ push' = [push EXCEPT ![x] = [job |-> j, n |-> 1]]
  /\ UNCHANGED <<listener, process>>

\* A variant of the code that the properties below must reject.
OneRetryTooMany(x) == ~stopped /\ push[x].n <= MaxRetries + 1 /\ retry[push[x].job] = 0

mayRetry(x) ==
  /\ ~stopped /\ push[x].n <= MaxRetries
  /\ retry[push[x].job] = 0
  /\ Cardinality({j \in Jobs : retry[j] # 0}) < MaxTimers

\* The claim was not possible (SKIP LOCKED): arm a timer, within the budget.
notClaimable(x) ==
  /\ push[x] # NoPush /\ ~Exited
  /\ push' = [push EXCEPT ![x] = NoPush]
  /\ retry' = IF mayRetry(x) THEN [retry EXCEPT ![push[x].job] = push[x].n] ELSE retry
  /\ UNCHANGED <<task, active, timer, stopped, process>>

\* Delivered, released, unknown, or an error: no retry.
pushSettled(x) ==
  /\ push[x] # NoPush /\ ~Exited
  /\ push' = [push EXCEPT ![x] = NoPush]
  /\ UNCHANGED <<listener, process>>

retryFires(x, j) ==
  /\ retry[j] # 0 /\ push[x] = NoPush /\ ~Exited
  /\ retry' = [retry EXCEPT ![j] = 0]
  /\ push' = [push EXCEPT ![x] = IF stopped THEN NoPush ELSE [job |-> j, n |-> retry[j] + 1]]
  /\ UNCHANGED <<task, active, timer, stopped, process>>

-----------------------------------------------------------------------------
\* Maintenance and shutdown.

\* maintenanceTask: the interval skips a sweep that is still running.
startSweep(m) ==
  /\ phase = "running" /\ m \notin sweep
  /\ sweep' = sweep \cup {m}
  /\ UNCHANGED <<listener, push, outer, hook, open, phase>>

\* The operation settled; the finally clause lets the next one start.
sweepSettled(m) ==
  /\ m \in sweep /\ ~Exited
  /\ sweep' = sweep \ {m}
  /\ UNCHANGED <<listener, push, outer, hook, open, phase>>

\* SIGTERM: close the sockets and both servers.
shutdown ==
  /\ phase = "running"
  /\ phase' = "draining"
  /\ UNCHANGED <<listener, push, outer, hook, sweep, open>>

requestEnds ==
  /\ open > 0 /\ ~Exited
  /\ open' = open - 1
  /\ UNCHANGED <<listener, push, outer, hook, sweep, phase>>

\* The HTTP server's "close": the listener is stopped and pool.end() is called.
serverClosed ==
  /\ phase = "draining" /\ open = 0
  /\ phase' = "closed" /\ outer' = TRUE
  /\ IF hook THEN stopListener ELSE UNCHANGED listener
  /\ UNCHANGED <<push, hook, sweep, open>>

\* pool.end() settles once every client is back: process.exit(0).
poolEnded ==
  /\ phase = "closed" /\ Held = {} /\ sweep = {}
  /\ phase' = "clean"
  /\ UNCHANGED <<listener, push, outer, hook, sweep, open>>

\* SHUTDOWN_DRAIN_TIMEOUT_MS elapsed: process.exit(1).
hardExit ==
  /\ phase \in {"draining", "closed"}
  /\ phase' = "hard"
  /\ UNCHANGED <<listener, push, outer, hook, sweep, open>>

-----------------------------------------------------------------------------
Connecting(c) == acquired(c) \/ acquireFails(c) \/ listened(c) \/ listenFails(c)
Pushing(x) == notClaimable(x) \/ pushSettled(x)

Next ==
  \/ \E c \in 1..MaxConnects : reconnect(c) \/ Connecting(c) \/ connectionLost(c) \/ unlistened(c)
  \/ listenerStarted \/ wssClosed
  \/ \E x \in Slots : Pushing(x) \/ \E j \in Jobs : notification(x, j) \/ retryFires(x, j)
  \/ \E m \in Sweeps : startSweep(m) \/ sweepSettled(m)
  \/ shutdown \/ requestEnds \/ serverClosed \/ poolEnded \/ hardExit

Spec == Init /\ [][Next]_vars

-----------------------------------------------------------------------------
\* The type invariant of the process.
TypeOK ==
  /\ task \in [1..MaxConnects -> {"none", "acquiring", "subscribing", "adopted", "leaving", "gone"}]
  /\ active \in 0..MaxConnects
  /\ retry \in [Jobs -> 0..MaxRetries]
  /\ \A x \in Slots : push[x].n \in 0..MaxRetries + 1
  /\ sweep \subseteq Sweeps /\ open \in 0..Requests
  /\ phase \in {"running", "draining", "closed", "clean", "hard"}

\* Push delivery never dies silently: until it is stopped, the listener has an adopted
\* connection, a connect attempt in flight or a reconnect timer, whatever sequence of
\* failed connects, failed LISTENs and lost connections came before.
NeverSilentlyDead == ~stopped /\ ~Exited => active # 0 \/ timer \/ InFlight # {}

\* The process owns at most one LISTEN connection, and the one it owns is the one that
\* stop() will release.
OneListener ==
  /\ Cardinality(Held) <= 1
  /\ \A c \in 1..MaxConnects : task[c] = "adopted" => active = c

\* After the stop nothing re-arms: no reconnect timer and no delayed claim survives the
\* server that owns them.
StoppedIsQuiet == stopped => ~timer /\ active = 0 /\ \A j \in Jobs : retry[j] = 0

\* The drain completes by itself: once a shutdown began every pooled connection is
\* returned and the process exits, even when the shutdown overtook the listener's
\* start-up or a reconnect.
DrainCompletes == (phase = "draining") ~> Exited

=============================================================================
