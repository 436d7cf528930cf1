------------------------------ MODULE MCEdge ------------------------------
(* The edge of a Gateway process for TLC: agent sockets and frames, the    *)
(* notification listener and shutdown, sign-in limits, body admission,     *)
(* diagnostic reads and the calibrated clock. One component takes steps in *)
(* a behaviour, in the instance its scenario names; the components share   *)
(* no variable, so what holds of each alone holds of them together.        *)
EXTENDS Naturals, TLC

CONSTANTS s1, s2, s3, u1, x1, x2, m1, p1, p2, r1, r2, r3, r4, c1, c2, NoSet, Free

\* Two attempts of one pairing code, or two sign-ins of one account from one address.
OneCode       == (p1 :> {1}) @@ (p2 :> {1})
SharedAddress == (p1 :> {1, 2}) @@ (p2 :> {1, 2})
Curve1 == <<<<2, 3>>>>
Curve2 == <<<<2, 3>>, <<3, 4>>>>
LockTimes == <<0, 1, 2>>
\* Pools that hold one or two bodies of at most two units.
Pools == [authenticated \in BOOLEAN |-> IF authenticated THEN 3 ELSE 2]

VARIABLES
    scenario,  \* the component that takes steps, and its instance
    agent, tenant, sock, sets, cur, total, pendRes, pendReg, push, queue, acting, listening,  \* SocketRegistry
    task, active, timer, stopped, outer, hook, retry, gatewayProcessPush, sweep, open, phase,  \* GatewayProcess
    now, row, lock, tx, spent,  \* RateLimit
    req, reserved, resp, drain, requestAdmissionTimer,  \* RequestAdmission
    agentFramesSock, bucket, inFlight, running, clock, admitted,  \* AgentFrames
    state, failureCount, cooled, probing, read, outstanding, healthy,  \* DiagnosticReads
    databaseClockNow, lag, steps, offset, lastAttempt, probe, caller, measured  \* DatabaseClock

Limits == INSTANCE SocketRegistry WITH
    Socks <- {s1, s2, s3}, Pushes <- {u1}, MaxAgentSockets <- 3, MaxTotal <- 2,
    MaxRev <- 0, MaxSuspensions <- 0, ListenerFails <- FALSE
Evict == INSTANCE SocketRegistry WITH
    Socks <- {s1, s2, s3}, Pushes <- {}, MaxAgentSockets <- 1, MaxTotal <- 4,
    MaxRev <- 0, MaxSuspensions <- 0, ListenerFails <- TRUE
Fence == INSTANCE SocketRegistry WITH
    Socks <- {s1, s2}, Pushes <- {}, MaxAgentSockets <- 2, MaxTotal <- 3,
    MaxRev <- 2, MaxSuspensions <- 1, ListenerFails <- FALSE

Listener == INSTANCE GatewayProcess WITH
    MaxConnects <- 3, Jobs <- {1, 2}, Slots <- {x1, x2}, MaxTimers <- 1,
    MaxRetries <- 2, Sweeps <- {m1}, Requests <- 1, push <- gatewayProcessPush

PairingLimit == INSTANCE RateLimit WITH
    Procs <- {p1, p2}, Durations <- LockTimes, Keys <- {1}, Wanted <- OneCode,
    Thresholds <- Curve1, Window <- 3, Retention <- 4, MaxTime <- 5
SignInLimit == INSTANCE RateLimit WITH
    Procs <- {p1, p2}, Durations <- LockTimes, Keys <- {1, 2},
    Wanted <- SharedAddress, Thresholds <- Curve2, Window <- 1, Retention <- 2,
    MaxTime <- 2

Bodies == INSTANCE RequestAdmission WITH
    Reqs <- {s1, s2, s3}, MaxBytes <- 2, PoolMax <- Pools, DrainMax <- 2,
    timer <- requestAdmissionTimer

Frames == INSTANCE AgentFrames WITH
    Socks <- {c1, c2}, MaxFrames <- 3, Sizes <- {1, 2}, MaxBytes <- 3,
    MaxInFlight <- 2, Capacity <- 3, Refill <- 1, IdleTtl <- 3, MaxTime <- 4,
    sock <- agentFramesSock

Breaker == INSTANCE DiagnosticReads WITH
    Reads <- {r1, r2, r3, r4}, failureThreshold <- 2, maximum <- 3

Calibration == INSTANCE DatabaseClock WITH
    Callers <- {c1, c2}, MaxTime <- 6, Ttl <- 3, Timeout <- 2, Lags <- {0, 2},
    MaxSteps <- 1, now <- databaseClockNow

socketRegistryVars == <<agent, tenant, sock, sets, cur, total, pendRes, pendReg, push, queue, acting, listening>>
gatewayProcessVars == <<task, active, timer, stopped, outer, hook, retry, gatewayProcessPush, sweep, open, phase>>
rateLimitVars == <<now, row, lock, tx, spent>>
requestAdmissionVars == <<req, reserved, resp, drain, requestAdmissionTimer>>
agentFramesVars == <<agentFramesSock, bucket, inFlight, running, clock, admitted>>
diagnosticReadsVars == <<state, failureCount, cooled, probing, read, outstanding, healthy>>
databaseClockVars == <<databaseClockNow, lag, steps, offset, lastAttempt, probe, caller, measured>>
vars == <<scenario, socketRegistryVars, gatewayProcessVars, rateLimitVars, requestAdmissionVars, agentFramesVars, diagnosticReadsVars, databaseClockVars>>

\* A component that takes no steps stays as it is at the start.
SocketRegistryAtRest == Limits!Init
GatewayProcessAtRest == Listener!Init
RateLimitAtRest == PairingLimit!Init
RequestAdmissionAtRest == Bodies!Init
AgentFramesAtRest == Frames!Init
DiagnosticReadsAtRest == Breaker!Init /\ healthy
DatabaseClockAtRest == Calibration!Init /\ lag = 0

Init ==
    \/ scenario = "limits" /\ Limits!Init /\ GatewayProcessAtRest /\ RateLimitAtRest /\ RequestAdmissionAtRest /\ AgentFramesAtRest /\ DiagnosticReadsAtRest /\ DatabaseClockAtRest
    \/ scenario = "evict" /\ Evict!Init /\ GatewayProcessAtRest /\ RateLimitAtRest /\ RequestAdmissionAtRest /\ AgentFramesAtRest /\ DiagnosticReadsAtRest /\ DatabaseClockAtRest
    \/ scenario = "fence" /\ Fence!Init /\ GatewayProcessAtRest /\ RateLimitAtRest /\ RequestAdmissionAtRest /\ AgentFramesAtRest /\ DiagnosticReadsAtRest /\ DatabaseClockAtRest
    \/ scenario = "listener" /\ Listener!Init /\ SocketRegistryAtRest /\ RateLimitAtRest /\ RequestAdmissionAtRest /\ AgentFramesAtRest /\ DiagnosticReadsAtRest /\ DatabaseClockAtRest
    \/ scenario = "oneCode" /\ PairingLimit!Init /\ SocketRegistryAtRest /\ GatewayProcessAtRest /\ RequestAdmissionAtRest /\ AgentFramesAtRest /\ DiagnosticReadsAtRest /\ DatabaseClockAtRest
    \/ scenario = "signIns" /\ SignInLimit!Init /\ SocketRegistryAtRest /\ GatewayProcessAtRest /\ RequestAdmissionAtRest /\ AgentFramesAtRest /\ DiagnosticReadsAtRest /\ DatabaseClockAtRest
    \/ scenario = "bodies" /\ Bodies!Init /\ SocketRegistryAtRest /\ GatewayProcessAtRest /\ RateLimitAtRest /\ AgentFramesAtRest /\ DiagnosticReadsAtRest /\ DatabaseClockAtRest
    \/ scenario = "frames" /\ Frames!Init /\ SocketRegistryAtRest /\ GatewayProcessAtRest /\ RateLimitAtRest /\ RequestAdmissionAtRest /\ DiagnosticReadsAtRest /\ DatabaseClockAtRest
    \/ scenario = "reads" /\ Breaker!Init /\ SocketRegistryAtRest /\ GatewayProcessAtRest /\ RateLimitAtRest /\ RequestAdmissionAtRest /\ AgentFramesAtRest /\ DatabaseClockAtRest
    \/ scenario = "clock" /\ Calibration!Init /\ SocketRegistryAtRest /\ GatewayProcessAtRest /\ RateLimitAtRest /\ RequestAdmissionAtRest /\ AgentFramesAtRest /\ DiagnosticReadsAtRest

\* The component is the one that takes the step, in scenario s.
SocketRegistryIn(s) == scenario = s /\ UNCHANGED <<scenario, gatewayProcessVars,
    rateLimitVars, requestAdmissionVars, agentFramesVars, diagnosticReadsVars,
    databaseClockVars>>
GatewayProcessIn(s) == scenario = s /\ UNCHANGED <<scenario, socketRegistryVars,
    rateLimitVars, requestAdmissionVars, agentFramesVars, diagnosticReadsVars,
    databaseClockVars>>
RateLimitIn(s) == scenario = s /\ UNCHANGED <<scenario, socketRegistryVars,
    gatewayProcessVars, requestAdmissionVars, agentFramesVars, diagnosticReadsVars,
    databaseClockVars>>
RequestAdmissionIn(s) == scenario = s /\ UNCHANGED <<scenario, socketRegistryVars,
    gatewayProcessVars, rateLimitVars, agentFramesVars, diagnosticReadsVars,
    databaseClockVars>>
AgentFramesIn(s) == scenario = s /\ UNCHANGED <<scenario, socketRegistryVars,
    gatewayProcessVars, rateLimitVars, requestAdmissionVars, diagnosticReadsVars,
    databaseClockVars>>
DiagnosticReadsIn(s) == scenario = s /\ UNCHANGED <<scenario, socketRegistryVars,
    gatewayProcessVars, rateLimitVars, requestAdmissionVars, agentFramesVars,
    databaseClockVars>>
DatabaseClockIn(s) == scenario = s /\ UNCHANGED <<scenario, socketRegistryVars,
    gatewayProcessVars, rateLimitVars, requestAdmissionVars, agentFramesVars,
    diagnosticReadsVars>>

Next ==
    \/ SocketRegistryIn("limits") /\ Limits!Next
    \/ SocketRegistryIn("evict") /\ Evict!Next
    \/ SocketRegistryIn("fence") /\ Fence!Next
    \/ GatewayProcessIn("listener") /\ Listener!Next
    \/ RateLimitIn("oneCode") /\ PairingLimit!Next
    \/ RateLimitIn("signIns") /\ SignInLimit!Next
    \/ RequestAdmissionIn("bodies") /\ Bodies!Next
    \/ AgentFramesIn("frames") /\ Frames!Next
    \/ DiagnosticReadsIn("reads") /\ Breaker!Next
    \/ DatabaseClockIn("clock") /\ Calibration!Next

Spec == Init /\ [][Next]_vars

\* The counters that admission control reads are exact however a connection
\* ends and never pass the limits; a registered socket is found by pushes and
\* fences, and belongs to the agent's current revision or is about to be
\* closed (ws.ts).
SocketsAreCounted ==
    /\ scenario = "limits" => Limits!TypeOK /\ Limits!CountersExact /\ Limits!WithinLimits /\ Limits!WaitersHaveAWaker
    /\ scenario = "evict" => Evict!WithinLimits /\ Evict!RegisteredIsReachable
    /\ scenario = "fence" => Fence!FencedSockets

\* Push delivery never dies silently: until it is stopped the listener has a
\* connection, an attempt or a timer, the process owns at most one LISTEN
\* connection, and after the stop nothing re-arms (job-notifications.ts,
\* server.ts).
ListenerLives ==
    scenario = "listener" => Listener!TypeOK /\ Listener!NeverSilentlyDead /\ Listener!OneListener /\ Listener!StoppedIsQuiet

\* No attempt is lost and a lock holds for its whole duration, however many
\* processes reserve at once; attempts never wait for each other in a cycle
\* (auth-rate-limit.ts).
LimiterHolds ==
    /\ scenario = "oneCode" => PairingLimit!TypeOK /\ PairingLimit!NoLostAttempt /\ PairingLimit!LockHolds /\ PairingLimit!CurveBites
    /\ scenario = "signIns" => SignInLimit!NoLostAttempt /\ SignInLimit!NoLockCycle

\* What the guard of server.ts admits is counted, bounded and answered.
AdmissionExact == scenario = "bodies" => Bodies!AdmissionExact

\* Frames are counted, limited and handled in order, across the agent's
\* connections.
FramesBounded == scenario = "frames" => Frames!FramesBounded

\* The bounded runner counts what is in the database, and the breaker lets one
\* probe through at a time and hears its result.
BreakerSafe == scenario = "reads" => Breaker!BreakerSafe

\* The calibrated clock is close to the database's, and who waits for a
\* calibration waits for one that is in flight (database-clock.ts).
ClockIsClose == scenario = "clock" => Calibration!ClockIsClose

Symmetry == Permutations({s1, s2, s3})

=============================================================================
