---------------------------- MODULE MCLiveness ----------------------------
(* What must become of accepted work (hand-backs, submissions,             *)
(* configuration fences, billing events) and of connections, refused       *)
(* requests, outages, configurations and people locked out, for TLC. One   *)
(* component takes steps in a behaviour; the components share no variable, *)
(* so what holds of each alone holds of them together.                     *)
EXTENDS Naturals, TLC

CONSTANTS c1, c2, w1, i1, i2, w2, p1, p2, s1, x1, m1, r1, r2, r3, NoCredential, NoSet

Pools == [authenticated \in BOOLEAN |-> IF authenticated THEN 3 ELSE 2]

VARIABLES
    scenario,  \* the component that takes steps, and its instance
    fresh, busy, returns, reports, closed, scan,  \* AgentOutbox
    rows, gw, late, work, claims, sync, ops,  \* OdooOutbox
    cfg, integrationGw, susp, worker, odooIntegrationLate, known, writes, lost,  \* OdooIntegration
    row, req, sessions, subs, performed, events, processed, now, last, settled, stops,  \* Billing
    agent, tenant, sock, sets, cur, total, pendRes, pendReg, push, queue, acting, listening,  \* SocketRegistry
    task, active, timer, stopped, outer, hook, retry, gatewayProcessPush, sweep, open, phase,  \* GatewayProcess
    state, failureCount, cooled, probing, read, outstanding, healthy,  \* DiagnosticReads
    requestAdmissionReq, reserved, resp, drain, requestAdmissionTimer,  \* RequestAdmission
    g, net, hb, des, tomb, rt, reg, synced, disk, probe, probed, gone, bound,  \* DesiredState
    user, links, mail, chooser, sess, accountsReq, strange  \* Accounts

Returns == INSTANCE AgentOutbox WITH
    Claims <- {c1, c2}, maxPendingJobs <- 2, handBackBatch <- 1, reportLimit <- 1

Outbox == INSTANCE OdooOutbox WITH
    MaxRows <- 1, Workers <- {w1}, Operators <- {}, MaxAttempts <- 2,
    MAX_BILLING_PARK_ATTEMPTS <- 2, MaxClaims <- 2, Refusals <- {"retry"},
    Faults <- {"crash", "http5xx"}

Fence == INSTANCE OdooIntegration WITH
    None <- NoCredential, Ids <- {i1, i2}, Workers <- {w2}, MaxRev <- 4,
    MaxWrites <- 1, MaxLost <- 1, Ops <- {"move", "cron"}, SameUrl <- TRUE,
    Faults <- {"rotate"}, gw <- integrationGw, late <- odooIntegrationLate

Webhooks == INSTANCE Billing WITH
    Procs <- {p1, p2}, Plans <- {1}, Subscribed <- FALSE, PromptHooks <- TRUE,
    Replay <- 1, SessionLife <- 1, Reconcile <- 2, MaxNow <- 0, MaxKey <- 1,
    MaxEvents <- 2, MaxStops <- 0, Ops <- {"checkout", "pay", "hook", "change"}

Sockets == INSTANCE SocketRegistry WITH
    Socks <- {s1}, Pushes <- {}, MaxAgentSockets <- 2, MaxTotal <- 3, MaxRev <- 1,
    MaxSuspensions <- 1, ListenerFails <- FALSE

Drain == INSTANCE GatewayProcess WITH
    MaxConnects <- 2, Jobs <- {1}, Slots <- {x1}, MaxTimers <- 1, MaxRetries <- 1,
    Sweeps <- {m1}, Requests <- 1, push <- gatewayProcessPush

Breaker == INSTANCE DiagnosticReads WITH
    Reads <- {r1, r2, r3}, failureThreshold <- 2, maximum <- 2

Guard == INSTANCE RequestAdmission WITH
    Reqs <- {r1}, MaxBytes <- 2, PoolMax <- Pools, DrainMax <- 2,
    req <- requestAdmissionReq, timer <- requestAdmissionTimer

Desired == INSTANCE DesiredState WITH
    Printers <- {1}, InRegistry <- {1}, MaxRev <- 2, MaxNet <- 1, MaxFaults <- 1,
    MaxRepairs <- 0

Owner == INSTANCE Accounts WITH
    Procs <- {p1}, Ids <- {1, 2, 3},
    Ops <- {"register", "resend", "forgot", "verify", "reset", "login", "expiry"},
    Strangers <- 1, MaxSpaces <- 1, req <- accountsReq

agentOutboxVars == <<fresh, busy, returns, reports, closed, scan>>
odooOutboxVars == <<rows, gw, late, work, claims, sync, ops>>
odooIntegrationVars == <<cfg, integrationGw, susp, worker, odooIntegrationLate, known, writes, lost>>
billingVars == <<row, req, sessions, subs, performed, events, processed, now, last, settled, stops>>
socketRegistryVars == <<agent, tenant, sock, sets, cur, total, pendRes, pendReg, push, queue, acting, listening>>
gatewayProcessVars == <<task, active, timer, stopped, outer, hook, retry, gatewayProcessPush, sweep, open, phase>>
diagnosticReadsVars == <<state, failureCount, cooled, probing, read, outstanding, healthy>>
requestAdmissionVars == <<requestAdmissionReq, reserved, resp, drain, requestAdmissionTimer>>
desiredStateVars == <<g, net, hb, des, tomb, rt, reg, synced, disk, probe, probed, gone, bound>>
accountsVars == <<user, links, mail, chooser, sess, accountsReq, strange>>
vars == <<scenario, agentOutboxVars, odooOutboxVars, odooIntegrationVars, billingVars, socketRegistryVars, gatewayProcessVars, diagnosticReadsVars, requestAdmissionVars, desiredStateVars, accountsVars>>

\* A component that takes no steps stays as it is at the start.
AgentOutboxAtRest == Returns!Init
OdooOutboxAtRest == Outbox!OutboxInit
OdooIntegrationAtRest == Fence!Init /\ cfg.id = i1 /\ cfg.en /\ \A i \in {i1, i2} : integrationGw[i].en
BillingAtRest == Webhooks!Init
SocketRegistryAtRest == Sockets!Init
GatewayProcessAtRest == Drain!Init
DiagnosticReadsAtRest == Breaker!Init /\ healthy
RequestAdmissionAtRest == Guard!Init
DesiredStateAtRest == Desired!Init
AccountsAtRest == Owner!Init /\ user.there

Init ==
    \/ scenario = "returns" /\ Returns!Init /\ OdooOutboxAtRest /\ OdooIntegrationAtRest /\ BillingAtRest /\ SocketRegistryAtRest /\ GatewayProcessAtRest /\ DiagnosticReadsAtRest /\ RequestAdmissionAtRest /\ DesiredStateAtRest /\ AccountsAtRest
    \/ scenario = "outbox" /\ Outbox!OutboxInit /\ AgentOutboxAtRest /\ OdooIntegrationAtRest /\ BillingAtRest /\ SocketRegistryAtRest /\ GatewayProcessAtRest /\ DiagnosticReadsAtRest /\ RequestAdmissionAtRest /\ DesiredStateAtRest /\ AccountsAtRest
    \/ scenario = "fence" /\ Fence!Init /\ AgentOutboxAtRest /\ OdooOutboxAtRest /\ BillingAtRest /\ SocketRegistryAtRest /\ GatewayProcessAtRest /\ DiagnosticReadsAtRest /\ RequestAdmissionAtRest /\ DesiredStateAtRest /\ AccountsAtRest
    \/ scenario = "webhooks" /\ Webhooks!Init /\ AgentOutboxAtRest /\ OdooOutboxAtRest /\ OdooIntegrationAtRest /\ SocketRegistryAtRest /\ GatewayProcessAtRest /\ DiagnosticReadsAtRest /\ RequestAdmissionAtRest /\ DesiredStateAtRest /\ AccountsAtRest
    \/ scenario = "sockets" /\ Sockets!Init /\ AgentOutboxAtRest /\ OdooOutboxAtRest /\ OdooIntegrationAtRest /\ BillingAtRest /\ GatewayProcessAtRest /\ DiagnosticReadsAtRest /\ RequestAdmissionAtRest /\ DesiredStateAtRest /\ AccountsAtRest
    \/ scenario = "drain" /\ Drain!Init /\ AgentOutboxAtRest /\ OdooOutboxAtRest /\ OdooIntegrationAtRest /\ BillingAtRest /\ SocketRegistryAtRest /\ DiagnosticReadsAtRest /\ RequestAdmissionAtRest /\ DesiredStateAtRest /\ AccountsAtRest
    \/ scenario = "breaker" /\ Breaker!Init /\ AgentOutboxAtRest /\ OdooOutboxAtRest /\ OdooIntegrationAtRest /\ BillingAtRest /\ SocketRegistryAtRest /\ GatewayProcessAtRest /\ RequestAdmissionAtRest /\ DesiredStateAtRest /\ AccountsAtRest
    \/ scenario = "refusals" /\ Guard!Init /\ AgentOutboxAtRest /\ OdooOutboxAtRest /\ OdooIntegrationAtRest /\ BillingAtRest /\ SocketRegistryAtRest /\ GatewayProcessAtRest /\ DiagnosticReadsAtRest /\ DesiredStateAtRest /\ AccountsAtRest
    \/ scenario = "desired" /\ Desired!Init /\ AgentOutboxAtRest /\ OdooOutboxAtRest /\ OdooIntegrationAtRest /\ BillingAtRest /\ SocketRegistryAtRest /\ GatewayProcessAtRest /\ DiagnosticReadsAtRest /\ RequestAdmissionAtRest /\ AccountsAtRest
    \/ scenario = "owner" /\ Owner!Init /\ AgentOutboxAtRest /\ OdooOutboxAtRest /\ OdooIntegrationAtRest /\ BillingAtRest /\ SocketRegistryAtRest /\ GatewayProcessAtRest /\ DiagnosticReadsAtRest /\ RequestAdmissionAtRest /\ DesiredStateAtRest

\* Only the component takes the step.
AgentOutboxOnly == UNCHANGED <<scenario, odooOutboxVars, odooIntegrationVars,
    billingVars, socketRegistryVars, gatewayProcessVars, diagnosticReadsVars,
    requestAdmissionVars, desiredStateVars, accountsVars>>
OdooOutboxOnly == UNCHANGED <<scenario, agentOutboxVars, odooIntegrationVars,
    billingVars, socketRegistryVars, gatewayProcessVars, diagnosticReadsVars,
    requestAdmissionVars, desiredStateVars, accountsVars>>
OdooIntegrationOnly == UNCHANGED <<scenario, agentOutboxVars, odooOutboxVars,
    billingVars, socketRegistryVars, gatewayProcessVars, diagnosticReadsVars,
    requestAdmissionVars, desiredStateVars, accountsVars>>
BillingOnly == UNCHANGED <<scenario, agentOutboxVars, odooOutboxVars,
    odooIntegrationVars, socketRegistryVars, gatewayProcessVars, diagnosticReadsVars,
    requestAdmissionVars, desiredStateVars, accountsVars>>
SocketRegistryOnly == UNCHANGED <<scenario, agentOutboxVars, odooOutboxVars,
    odooIntegrationVars, billingVars, gatewayProcessVars, diagnosticReadsVars,
    requestAdmissionVars, desiredStateVars, accountsVars>>
GatewayProcessOnly == UNCHANGED <<scenario, agentOutboxVars, odooOutboxVars,
    odooIntegrationVars, billingVars, socketRegistryVars, diagnosticReadsVars,
    requestAdmissionVars, desiredStateVars, accountsVars>>
DiagnosticReadsOnly == UNCHANGED <<scenario, agentOutboxVars, odooOutboxVars,
    odooIntegrationVars, billingVars, socketRegistryVars, gatewayProcessVars,
    requestAdmissionVars, desiredStateVars, accountsVars>>
RequestAdmissionOnly == UNCHANGED <<scenario, agentOutboxVars, odooOutboxVars,
    odooIntegrationVars, billingVars, socketRegistryVars, gatewayProcessVars,
    diagnosticReadsVars, desiredStateVars, accountsVars>>
DesiredStateOnly == UNCHANGED <<scenario, agentOutboxVars, odooOutboxVars,
    odooIntegrationVars, billingVars, socketRegistryVars, gatewayProcessVars,
    diagnosticReadsVars, requestAdmissionVars, accountsVars>>
AccountsOnly == UNCHANGED <<scenario, agentOutboxVars, odooOutboxVars,
    odooIntegrationVars, billingVars, socketRegistryVars, gatewayProcessVars,
    diagnosticReadsVars, requestAdmissionVars, desiredStateVars>>

Next ==
    \/ scenario = "returns" /\ Returns!Next /\ AgentOutboxOnly
    \/ scenario = "outbox" /\ Outbox!OutboxNext /\ OdooOutboxOnly
    \/ scenario = "fence" /\ Fence!Next /\ OdooIntegrationOnly
    \/ scenario = "webhooks" /\ Webhooks!Next /\ BillingOnly
    \/ scenario = "sockets" /\ Sockets!Next /\ SocketRegistryOnly
    \/ scenario = "drain" /\ Drain!Next /\ GatewayProcessOnly
    \/ scenario = "breaker" /\ Breaker!Next /\ DiagnosticReadsOnly
    \/ scenario = "refusals" /\ Guard!Next /\ RequestAdmissionOnly
    \/ scenario = "desired" /\ Desired!Next /\ DesiredStateOnly
    \/ scenario = "owner" /\ Owner!Next /\ AccountsOnly

(***************************************************************************)
(* Fairness. Each component numbers the actions that are fair in it; since *)
(* one component takes steps in a behaviour, and it is always the same,    *)
(* fairness of "the n-th of the component that takes steps" is fairness of *)
(* the n-th action of each.                                                *)
(***************************************************************************)
\* The poll ticker starts scans for ever, and a request that is tried again and
\* again is answered in the end. Workers may wait for ever.
ReturnsWeak(n) == n = 1 /\ Returns!Scan
ReturnsStrong(n) ==
    \/ n = 1 /\ \E c \in {c1, c2} : Returns!reportAccepted(c)
    \/ n = 2 /\ Returns!returnAnswered(c1)
    \/ n = 3 /\ Returns!returnAnswered(c2)

\* The crons run for ever, a lease that is held ages, and the Gateway is reachable
\* again and again: it does not refuse, nor lose an answer, for ever.
OutboxWeak(n) ==
    \/ n = 1 /\ Outbox!expireLease(1)
    \/ n = 2 /\ Outbox!claimLease(w1)
    \/ n = 3 /\ Outbox!record(w1)
OutboxStrong(n) ==
    \/ n = 1 /\ Outbox!syncAsk(1)
    \/ n = 2 /\ Outbox!syncApply
    \/ n = 3 /\ Outbox!load(w1, 1)
    \/ n = 4 /\ Outbox!postAccepted(w1)

\* The cron runs again and again, every worker continues, the grace period ends.
FenceWeak(n) ==
    \/ n = 1 /\ Fence!Step(w2)
    \/ n = 2 /\ Fence!cron(w2)
    \/ n = 3 /\ Fence!graceExpires(i1)
    \/ n = 4 /\ Fence!graceExpires(i2)

\* A request that does not stop goes on, and Stripe repeats an event until it is
\* acknowledged.
WebhooksWeak(n) ==
    \/ n = 1 /\ Webhooks!Progress(p1)
    \/ n = 2 /\ Webhooks!Progress(p2)
WebhooksStrong(n) == n \in 1..2 /\ \E p \in {p1, p2} : Webhooks!deliver(p, n)

\* The event loop and PostgreSQL make progress: a started transaction ends, a closing
\* socket reports its close, a delivered notification is handled.
SocketsWeak(n) ==
    \/ n = 1 /\ Sockets!Registration(s1)
    \/ n = 2 /\ Sockets!closed(s1)
    \/ n = 3 /\ Sockets!handleNotification
    \/ n = 4 /\ Sockets!closeSockets

\* Promises settle, requests end and events are delivered; the hard timeout is not
\* assumed to fire.
DrainWeak(n) ==
    \/ n = 1 /\ Drain!Connecting(1)
    \/ n = 2 /\ Drain!Connecting(2)
    \/ n = 3 /\ \E c \in 1..2 : Drain!unlistened(c)
    \/ n = 4 /\ Drain!listenerStarted
    \/ n = 5 /\ (Drain!wssClosed \/ Drain!serverClosed \/ Drain!poolEnded)
    \/ n = 6 /\ (Drain!sweepSettled(m1) \/ Drain!requestEnds)

\* Pages keep being opened, every query settles and time passes.
BreakerWeak(n) ==
    \/ n = 1 /\ Breaker!coolDown
    \/ n = 2 /\ Breaker!Ended(r1)
    \/ n = 3 /\ Breaker!Ended(r2)
    \/ n = 4 /\ Breaker!Ended(r3)
BreakerStrong(n) ==
    \/ n = 1 /\ Breaker!started(r1)
    \/ n = 2 /\ Breaker!started(r2)
    \/ n = 3 /\ Breaker!started(r3)

\* The timer fires; the socket takes or drops what was written.
GuardWeak(n) ==
    \/ n = 1 /\ Guard!drainTimeout(r1)
    \/ n = 2 /\ Guard!finish(r1)

\* Heartbeats are sent on a timer and reach the Gateway, pages are fetched until a
\* snapshot completes, probes run with every heartbeat and answer again and again.
DesiredWeak(n) ==
    \/ n = 1 /\ Desired!Send
    \/ n = 2 /\ (Desired!SendFails \/ Desired!HeartbeatArrives)
    \/ n = 3 /\ Desired!Continue
    \/ n = 4 /\ Desired!Reconcile
    \/ n = 5 /\ Desired!ProbeStarts(1)
    \/ n = 6 /\ (Desired!ProbeAnswers(1) \/ Desired!ProbeFails(1))
DesiredStrong(n) ==
    \/ n = 1 /\ Desired!HeartbeatArrives /\ hb'.st = "collect"
    \/ n = 2 /\ Desired!Continue /\ hb'.st # "idle"
    \/ n = 3 /\ Desired!ProbeAnswers(1) /\ probe[1] = des[1].rev

\* The owner of the mailbox does not give up: asks for links, follows the ones that
\* arrive before they expire, and signs in. Mail that is sent again and again arrives.
OwnerWeak(n) == n = 1 /\ Owner!Working(p1)
OwnerStrong(n) ==
    \/ n = 1 /\ (IF user.verified THEN Owner!forgets(p1) ELSE Owner!resends(p1))
    \/ n = 2 /\ (IF user.verified THEN Owner!forgot(p1) ELSE Owner!resend(p1)) /\ Owner!Delivered
    \/ n = 3 /\ Owner!follows(p1) /\ accountsReq'[p1].op = (IF user.verified THEN "reset" ELSE "verify")
    \/ n = 4 /\ (IF user.verified THEN Owner!resetPassword(p1) ELSE Owner!verifyEmail(p1)) /\ user' # user
    \/ n = 5 /\ Owner!signsIn(p1)
    \/ n = 6 /\ Owner!login(p1) /\ sess' # sess


Weak(n) ==
    \/ scenario = "returns" /\ ReturnsWeak(n) /\ AgentOutboxOnly
    \/ scenario = "outbox" /\ OutboxWeak(n) /\ OdooOutboxOnly
    \/ scenario = "fence" /\ FenceWeak(n) /\ OdooIntegrationOnly
    \/ scenario = "webhooks" /\ WebhooksWeak(n) /\ BillingOnly
    \/ scenario = "sockets" /\ SocketsWeak(n) /\ SocketRegistryOnly
    \/ scenario = "drain" /\ DrainWeak(n) /\ GatewayProcessOnly
    \/ scenario = "breaker" /\ BreakerWeak(n) /\ DiagnosticReadsOnly
    \/ scenario = "refusals" /\ GuardWeak(n) /\ RequestAdmissionOnly
    \/ scenario = "desired" /\ DesiredWeak(n) /\ DesiredStateOnly
    \/ scenario = "owner" /\ OwnerWeak(n) /\ AccountsOnly
Strong(n) ==
    \/ scenario = "returns" /\ ReturnsStrong(n) /\ AgentOutboxOnly
    \/ scenario = "outbox" /\ OutboxStrong(n) /\ OdooOutboxOnly
    \/ scenario = "webhooks" /\ WebhooksStrong(n) /\ BillingOnly
    \/ scenario = "breaker" /\ BreakerStrong(n) /\ DiagnosticReadsOnly
    \/ scenario = "desired" /\ DesiredStrong(n) /\ DesiredStateOnly
    \/ scenario = "owner" /\ OwnerStrong(n) /\ AccountsOnly

Spec ==
    /\ Init /\ [][Next]_vars
    /\ \A n \in 1..6 : WF_vars(Weak(n))
    /\ \A n \in 1..6 : SF_vars(Strong(n))

\* An abandoned claim is handed back, a submission whose answer was lost finds
\* its job, no row stays behind with a dead worker's lease, a fence is
\* cleared, and no billing event is refused for ever.
AcceptedWorkEnds ==
    /\ (scenario = "returns" => Returns!AbandonedClaimsReturn)
    /\ (scenario = "outbox" => Outbox!AmbiguousResolves /\ Outbox!NeverStranded)
    /\ (scenario = "fence" => Fence!FenceClears)
    /\ (scenario = "webhooks" => Webhooks!EventsDrain)

\* An ended session is disconnected, a shutdown completes, an open breaker
\* closes, a refused request ends, a configuration converges, and an owner who
\* persists gets in.
ServiceRecovers ==
    /\ (scenario = "sockets" => Sockets!EndedSessionCloses)
    /\ (scenario = "drain" => Drain!DrainCompletes)
    /\ (scenario = "breaker" => Breaker!BreakerRecovers)
    /\ (scenario = "refusals" => Guard!RefusalEnds)
    /\ (scenario = "desired" => Desired!Converges)
    /\ (scenario = "owner" => Owner!OwnerGetsIn)

=============================================================================
