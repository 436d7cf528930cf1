--------------------------- MODULE SocketRegistry ---------------------------
(***************************************************************************)
(* The gateway's registry of agent WebSockets (src/server/ws.ts): the      *)
(* upgrade handshake, registration under the agent's lifecycle row, the    *)
(* per-agent and process-wide socket limits, the readiness wait of a job   *)
(* push, and the PostgreSQL notifications by which a lifecycle change      *)
(* closes the sockets of the sessions it ended.                            *)
(*                                                                         *)
(* One agent of one tenant.  A transaction of the registration holds a     *)
(* shared lock on both rows from its reads to its commit, so a lifecycle   *)
(* change waits for it; everything between two awaits is one step.         *)
(***************************************************************************)
EXTENDS Integers, FiniteSets, SequencesExt

CONSTANTS
  Socks,            \* connection attempts, each made once
  Pushes,           \* job pushes that may wait for a registration
  MaxAgentSockets,  \* MAX_AGENT_SOCKETS
  MaxTotal,         \* MAX_TOTAL_AGENT_SOCKETS
  MaxRev,           \* bound on lifecycle transitions
  MaxSuspensions,   \* bound on tenant suspensions
  ListenerFails,    \* the LISTEN connection may be lost
  NoSet             \* the agent has no entry in agentSockets

LimitsAreLive == MaxAgentSockets \in Nat \ {0} /\ MaxTotal \in Nat \ {0}

VARIABLES
  agent,     \* the durable row: [life, rev, secret]
  tenant,    \* [life, suspensions]
  sock,      \* each attempt: [st, rev, alive, reserved, pending, counted, set, tx]
  sets,      \* the Set objects, in insertion order, by creation number
  cur,       \* agentSockets.get(agentId)
  total,     \* totalAgentSockets
  pendRes,   \* pendingAgentSocketReservations
  pendReg,   \* pendingAgentSocketRegistrations.get(agentId)
  push,      \* each push: "idle", "waiting", "ready" or "no_socket"
  queue,     \* session notifications not yet handled
  acting,    \* the notification whose durable check has been read
  listening  \* the LISTEN client is adopted

Perms == Permutations(Socks)

vars == <<agent, tenant, sock, sets, cur, total, pendRes, pendReg, push, queue, acting, listening>>
rows == <<agent, tenant>>
registry == <<sets, cur, total>>
waits == <<pendReg, push>>
notices == <<queue, acting, listening>>

-----------------------------------------------------------------------------
Attempt == [st: {"new", "authed", "open", "closing", "closed"}, rev: 0..MaxRev, alive: BOOLEAN,
            reserved: BOOLEAN, pending: BOOLEAN, counted: BOOLEAN,
            set: Nat \cup {NoSet}, tx: {"none", "tracked", "done"}]

NoNotice == [kind |-> "none", rev |-> 0]
Notice == [kind: {"none", "agent", "gone", "tenant"}, rev: 0..MaxRev]

Init ==
  /\ agent = [life |-> "active", rev |-> 0, secret |-> TRUE]
  /\ tenant = [life |-> "active", suspensions |-> 0]
  /\ sock = [s \in Socks |-> [st |-> "new", rev |-> 0, alive |-> TRUE, reserved |-> FALSE,
                              pending |-> FALSE, counted |-> FALSE, set |-> NoSet, tx |-> "none"]]
  /\ sets = <<>> /\ cur = NoSet /\ total = 0
  /\ pendRes = 0 /\ pendReg = 0
  /\ push = [p \in Pushes |-> "idle"]
  /\ queue = <<>> /\ acting = NoNotice /\ listening = TRUE

Members == IF cur = NoSet THEN <<>> ELSE sets[cur]
hasOpenAgentSocket == \E s \in ToSet(Members) : sock[s].st = "open"

\* Row locks: the registration's transaction holds both rows FOR SHARE.
Shared == \E s \in Socks : sock[s].tx = "tracked"

-----------------------------------------------------------------------------
\* Bookkeeping shared by every way a registration attempt ends.

\* A variant of the code that the properties below must reject.
ReleaseUnconditionally(s) == 1

\* releaseReservation, guarded by its own flag so that it happens once.
releaseReservation(s) == IF sock[s].reserved THEN 1 ELSE 0

\* A variant of the code that the properties below must reject.
WakeOnlyOnReady(n, ready) == ready

\* finishAgentSocketRegistrationPending: who resolves the waiters.
resolvesWaiters(n, ready) == ready \/ n <= 1

completeRegistration(s, ready) ==
  IF sock[s].pending
  THEN /\ pendReg' = pendReg - 1
       /\ push' = [p \in Pushes |->
                     IF push[p] = "waiting" /\ resolvesWaiters(pendReg, ready)
                     THEN IF ready \/ hasOpenAgentSocket THEN "ready" ELSE "no_socket"
                     ELSE push[p]]
  ELSE UNCHANGED waits

\* The attempt's flags once its registration is over, with the socket in state st.
Finished(s, st) == [sock EXCEPT ![s].st = st, ![s].reserved = FALSE, ![s].pending = FALSE, ![s].tx = "done"]

-----------------------------------------------------------------------------
\* The upgrade request.

\* validateAgent reads the row before the handshake; the revision travels with the socket.
validateAgent(s) ==
  /\ sock[s].st = "new"
  /\ sock' = [sock EXCEPT
       ![s].st = IF agent.life = "active" /\ agent.secret /\ tenant.life = "active" THEN "authed" ELSE "closed",
       ![s].rev = agent.rev]
  /\ UNCHANGED <<rows, registry, pendRes, waits, notices>>

\* A variant of the code that the properties below must reject.
canReserveIgnoringPending == total < MaxTotal

canReserveAgentSocketSlot == total + pendRes < MaxTotal

\* reserveAgentSocketSlot, then the handshake itself: the client sees "open" from here on.
upgrade(s) ==
  /\ sock[s].st = "authed"
  /\ IF canReserveAgentSocketSlot
     THEN /\ sock' = [sock EXCEPT ![s].st = "open", ![s].reserved = TRUE, ![s].pending = TRUE]
          /\ pendRes' = pendRes + 1
          /\ pendReg' = pendReg + 1
     ELSE sock' = [sock EXCEPT ![s].st = "closed"] /\ UNCHANGED <<pendRes, pendReg>>
  /\ UNCHANGED <<rows, registry, push, notices>>

\* A variant of the code that the properties below must reject.
AcceptAnyRevision(s) == agent.life = "active"

shouldAcceptAgentSocketForLifecycleState(s) == agent.life = "active" /\ sock[s].rev = agent.rev

\* A variant of the code that the properties below must reject.
EvictAfterAdding(seq) == Max({0, Len(seq) - MaxAgentSockets})

\* How many of the oldest sockets leave before the new one is added.
Evicted(seq) == Max({0, Len(seq) - MaxAgentSockets + 1})

\* The oldest sockets make room, then the new one joins the agent's set.
trackAgentSocket(s) ==
  LET id   == IF cur = NoSet THEN Len(sets) + 1 ELSE cur
      k    == Evicted(Members)
      out  == ToSet(SubSeq(Members, 1, k))
      kept == SubSeq(Members, k + 1, Len(Members))
  IN /\ sets' = IF cur = NoSet THEN Append(sets, <<s>>) ELSE [sets EXCEPT ![id] = Append(kept, s)]
     /\ cur' = id
     /\ total' = total - Cardinality({e \in out : sock[e].counted}) + 1
     /\ sock' = [x \in Socks |->
          IF x = s THEN [sock[s] EXCEPT !.counted = TRUE, !.set = id, !.tx = "tracked"]
          ELSE IF x \in out THEN [sock[x] EXCEPT !.counted = FALSE,
                                    !.st = IF @ = "closed" THEN @ ELSE "closing"]
          ELSE sock[x]]

\* verifyAndTrackAgentSocket: both rows FOR SHARE, the fence, then the registration.
verifyAndTrackAgentSocket(s) ==
  /\ sock[s].st = "open" /\ sock[s].tx = "none"
  /\ tenant.life = "active" /\ shouldAcceptAgentSocketForLifecycleState(s)
  /\ trackAgentSocket(s)
  /\ UNCHANGED <<rows, pendRes, waits, notices>>

\* ROLLBACK: the tenant, the revision or the socket is no longer what was authenticated.
refuseSocket(s) ==
  /\ sock[s].st \in {"open", "closing"} /\ sock[s].tx = "none"
  /\ tenant.life # "active" \/ ~shouldAcceptAgentSocketForLifecycleState(s) \/ sock[s].st # "open"
  /\ completeRegistration(s, FALSE)
  /\ pendRes' = pendRes - releaseReservation(s)
  /\ sock' = Finished(s, "closing")
  /\ UNCHANGED <<rows, registry, notices>>

\* COMMIT, then the reservation and the pending registration are handed back.
commitRegistration(s) ==
  /\ sock[s].tx = "tracked"
  /\ completeRegistration(s, TRUE)
  /\ pendRes' = pendRes - releaseReservation(s)
  /\ sock' = Finished(s, sock[s].st)
  /\ UNCHANGED <<rows, registry, notices>>

\* The transaction failed, before or after the socket was tracked: terminate it.
verificationFails(s) ==
  /\ sock[s].tx = "tracked" \/ (sock[s].st \in {"open", "closing"} /\ sock[s].tx = "none")
  /\ completeRegistration(s, FALSE)
  /\ pendRes' = pendRes - releaseReservation(s)
  /\ sock' = Finished(s, IF sock[s].st = "closed" THEN "closed" ELSE "closing")
  /\ UNCHANGED <<rows, registry, notices>>

-----------------------------------------------------------------------------
\* The life of a connection.

\* The peer disconnects, a write fails in the transport, or the socket errors.
clientCloses(s) ==
  /\ sock[s].st = "open"
  /\ sock' = [sock EXCEPT ![s].st = "closing"]
  /\ UNCHANGED <<rows, registry, pendRes, waits, notices>>

pong(s) ==
  /\ sock[s].st = "open" /\ ~sock[s].alive
  /\ sock' = [sock EXCEPT ![s].alive = TRUE]
  /\ UNCHANGED <<rows, registry, pendRes, waits, notices>>

\* The 30 s interval: terminate what did not answer the last ping, ping the rest.
heartbeat ==
  /\ \E s \in Socks : sock[s].st = "open"
  /\ sock' = [s \in Socks |->
        IF sock[s].st # "open" THEN sock[s]
        ELSE IF sock[s].alive THEN [sock[s] EXCEPT !.alive = FALSE]
        ELSE [sock[s] EXCEPT !.st = "closing"]]
  /\ UNCHANGED <<rows, registry, pendRes, waits, notices>>

\* A variant of the code that the properties below must reject.
CloseAlwaysUncounts(s) == 1

\* uncountAgentSocket: an evicted or failed socket has been uncounted already.
uncountAgentSocket(s) == IF sock[s].counted THEN 1 ELSE 0

\* A variant of the code that the properties below must reject.
EmptySetClearsEntry(id, left) == left = <<>>

\* The identity guard: only the set that is still the agent's entry clears it.
clearsEntry(id, left) == left = <<>> /\ cur = id

\* The "close" events: of the raw socket, of the upgrade and of the registration.
closed(s) ==
  /\ sock[s].st = "closing"
  /\ sock' = [sock EXCEPT ![s].st = "closed", ![s].reserved = FALSE, ![s].pending = FALSE,
                          ![s].counted = FALSE]
  /\ pendRes' = pendRes - releaseReservation(s)
  /\ completeRegistration(s, FALSE)
  /\ IF sock[s].set = NoSet THEN UNCHANGED registry
     ELSE LET id == sock[s].set
              left == Remove(sets[id], s)
          IN /\ sets' = [sets EXCEPT ![id] = left]
             /\ total' = total - uncountAgentSocket(s)
             /\ cur' = IF clearsEntry(id, left) THEN NoSet ELSE cur
  /\ UNCHANGED <<rows, notices>>

\* sendJobToAgent when send() throws on the newest open socket that has room: the
\* socket leaves the registry at once, and no other one is tried.
sendThrows(s) ==
  /\ s \in ToSet(Members) /\ sock[s].st = "open"
  /\ sock' = [sock EXCEPT ![s].st = "closing", ![s].counted = FALSE]
  /\ LET left == Remove(Members, s)
     IN sets' = [sets EXCEPT ![cur] = left] /\ cur' = IF left = <<>> THEN NoSet ELSE cur
  /\ total' = total - uncountAgentSocket(s)
  /\ UNCHANGED <<rows, pendRes, waits, notices>>

-----------------------------------------------------------------------------
\* waitForAgentSocketReady: the push of a job that arrives during a registration.

waitForAgentSocketReady(p) ==
  /\ push[p] = "idle"
  /\ push' = [push EXCEPT ![p] = IF hasOpenAgentSocket THEN "ready"
                                 ELSE IF pendReg = 0 THEN "no_socket" ELSE "waiting"]
  /\ UNCHANGED <<rows, sock, registry, pendRes, pendReg, notices>>

readyTimeout(p) ==
  /\ push[p] = "waiting"
  /\ push' = [push EXCEPT ![p] = IF hasOpenAgentSocket THEN "ready" ELSE "no_socket"]
  /\ UNCHANGED <<rows, sock, registry, pendRes, pendReg, notices>>

-----------------------------------------------------------------------------
\* Lifecycle changes, and the notifications their transactions send.

notify(n) == queue' = IF listening THEN Append(queue, n) ELSE queue

\* transitionAgentLifecycle: a new revision, no credential, a notification.
transitionAgentLifecycle(next) ==
  /\ ~Shared /\ tenant.life = "active" /\ agent.rev < MaxRev
  /\ agent.life # next /\ agent.life \notin {"retired", "deleted"}
  /\ agent' = [life |-> next, rev |-> agent.rev + 1, secret |-> FALSE]
  /\ notify([kind |-> "agent", rev |-> agent.rev + 1])
  /\ UNCHANGED <<tenant, sock, registry, pendRes, waits, acting, listening>>

\* deleteAgent removes the row; its notification names no revision.
deleteAgent ==
  /\ ~Shared /\ agent.life # "deleted"
  /\ agent' = [agent EXCEPT !.life = "deleted", !.secret = FALSE]
  /\ notify([kind |-> "gone", rev |-> 0])
  /\ UNCHANGED <<tenant, sock, registry, pendRes, waits, acting, listening>>

\* The register route consumes the pairing code and stores a new credential.
pairAgain ==
  /\ ~Shared /\ agent.life = "active" /\ ~agent.secret /\ tenant.life = "active"
  /\ agent' = [agent EXCEPT !.secret = TRUE]
  /\ UNCHANGED <<tenant, sock, registry, pendRes, waits, notices>>

suspendTenant ==
  /\ ~Shared /\ tenant.life = "active" /\ tenant.suspensions < MaxSuspensions
  /\ tenant' = [life |-> "suspended", suspensions |-> tenant.suspensions + 1]
  /\ notify([kind |-> "tenant", rev |-> 0])
  /\ UNCHANGED <<agent, sock, registry, pendRes, waits, acting, listening>>

reactivateTenant ==
  /\ tenant.life = "suspended"
  /\ tenant' = [tenant EXCEPT !.life = "active"]
  /\ UNCHANGED <<agent, sock, registry, pendRes, waits, notices>>

-----------------------------------------------------------------------------
\* The notification handler: it checks the durable row, then closes sockets.

\* The durable check.  A missing row closes every session; an older notification than
\* the row, or one with no revision, is resolved against the row.
VerifiedNotice(n) ==
  CASE n.kind = "tenant" -> IF tenant.life = "suspended" THEN n ELSE NoNotice
    [] agent.life = "deleted" -> [n EXCEPT !.kind = "gone"]
    [] n.rev > agent.rev -> NoNotice
    [] OTHER -> n

handleNotification ==
  /\ queue # <<>> /\ acting = NoNotice
  /\ queue' = Tail(queue)
  /\ acting' = VerifiedNotice(Head(queue))
  /\ UNCHANGED <<rows, sock, registry, pendRes, waits, listening>>

\* A variant of the code that the properties below must reject.
CloseUpToRevision(s, n) == n.kind # "agent" \/ sock[s].rev <= n.rev

\* Another variant that the properties below must reject.
CloseNewerThan(s, n) == n.kind # "agent" \/ sock[s].rev > n.rev

shouldCloseAgentSocketForLifecycleRevision(s, n) == n.kind # "agent" \/ sock[s].rev < n.rev

\* closeAgentSockets and closeTenantSockets: what is registered now and not closed yet.
closeSockets ==
  /\ acting # NoNotice
  /\ sock' = [s \in Socks |->
       IF s \in ToSet(Members) /\ sock[s].st = "open" /\ shouldCloseAgentSocketForLifecycleRevision(s, acting)
       THEN [sock[s] EXCEPT !.st = "closing"] ELSE sock[s]]
  /\ acting' = NoNotice
  /\ UNCHANGED <<rows, registry, pendRes, waits, queue, listening>>

\* The LISTEN connection drops: PostgreSQL keeps nothing for it.
listenerLost ==
  /\ ListenerFails /\ listening
  /\ listening' = FALSE /\ queue' = <<>>
  /\ UNCHANGED <<rows, sock, registry, pendRes, waits, acting>>

listenerBack ==
  /\ ~listening
  /\ listening' = TRUE
  /\ UNCHANGED <<rows, sock, registry, pendRes, waits, queue, acting>>

-----------------------------------------------------------------------------
Registration(s) == verifyAndTrackAgentSocket(s) \/ refuseSocket(s) \/ commitRegistration(s)
Connection(s) ==
  \/ validateAgent(s) \/ upgrade(s) \/ Registration(s) \/ verificationFails(s)
  \/ clientCloses(s) \/ pong(s) \/ closed(s) \/ sendThrows(s)
Operator ==
  \/ \E next \in {"active", "disabled", "retired"} : transitionAgentLifecycle(next)
  \/ deleteAgent \/ pairAgain \/ suspendTenant \/ reactivateTenant
Listener == handleNotification \/ closeSockets \/ listenerLost \/ listenerBack

Next ==
  \/ \E s \in Socks : Connection(s)
  \/ heartbeat
  \/ \E p \in Pushes : waitForAgentSocketReady(p) \/ readyTimeout(p)
  \/ Operator
  \/ Listener

Spec == Init /\ [][Next]_vars

-----------------------------------------------------------------------------
\* The type invariant: every variable of the registry stays in its domain.
TypeOK ==
  /\ agent \in [life: {"active", "disabled", "retired", "deleted"}, rev: 0..MaxRev, secret: BOOLEAN]
  /\ tenant \in [life: {"active", "suspended"}, suspensions: 0..MaxSuspensions]
  /\ sock \in [Socks -> Attempt]
  /\ \A i \in DOMAIN sets : ToSet(sets[i]) \subseteq Socks
  /\ cur \in DOMAIN sets \cup {NoSet}
  /\ pendRes \in Nat /\ pendReg \in Nat
  /\ push \in [Pushes -> {"idle", "waiting", "ready", "no_socket"}]
  /\ acting \in Notice /\ listening \in BOOLEAN

\* The counters that admission control reads are exact however a connection ends
\* (refused, evicted, failed in send, closed twice): totalAgentSockets is the number of
\* counted sockets, each counted socket is in the set it closed over, and the
\* reservation and pending counters equal the attempts that hold one.
CountersExact ==
  /\ total = Cardinality({s \in Socks : sock[s].counted})
  /\ \A s \in Socks : sock[s].counted => s \in ToSet(sets[sock[s].set])
  /\ pendRes = Cardinality({s \in Socks : sock[s].reserved})
  /\ pendReg = Cardinality({s \in Socks : sock[s].pending})

\* The limits of ws.ts hold at every instant, the reconnect overlap included: never
\* more than MAX_TOTAL_AGENT_SOCKETS registered, never more than MAX_AGENT_SOCKETS in
\* the agent's set.
WithinLimits ==
  /\ total <= MaxTotal
  /\ \A i \in DOMAIN sets : Len(sets[i]) <= MaxAgentSockets

\* Every registered open socket can be found: the map entry the pushes and the fences
\* look up is the set that holds it, so no late close event of an older connection
\* hides a live one.
RegisteredIsReachable ==
  \A s \in Socks : sock[s].counted => sock[s].set = cur /\ s \in ToSet(Members)

\* A push never sleeps for its whole timeout on a registration that is over: while some
\* push waits there is a registration that will resolve it.
WaitersHaveAWaker == (\E p \in Pushes : push[p] = "waiting") => pendReg > 0

\* The fence of verifyAndTrackAgentSocket: a registered open socket either belongs to
\* the agent's current, active revision, or the notification that will close it is on
\* its way.
FencedSockets ==
  \A s \in Socks : (sock[s].counted /\ sock[s].st = "open") =>
    \/ agent.life = "active" /\ sock[s].rev = agent.rev
    \/ \E n \in ToSet(queue) \cup {acting} : n.kind = "gone" \/ (n.kind = "agent" /\ sock[s].rev < n.rev)

\* A session ended by a lifecycle change is disconnected eventually, whatever else the
\* gateway is doing.
EndedSessionCloses ==
  \A s \in Socks : (sock[s].counted /\ (agent.life # "active" \/ sock[s].rev # agent.rev)) ~> (sock[s].st = "closed")

=============================================================================
