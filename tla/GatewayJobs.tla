---------------------------- MODULE GatewayJobs ----------------------------
(***************************************************************************)
(* The Gateway's handling of the print jobs of one agent: the WebSocket    *)
(* push, the poll, the agent's acknowledgements, heartbeats and status     *)
(* reports, the sweeper and the retention cleanup, all writing the same    *)
(* rows from concurrent requests.                                          *)
(*                                                                         *)
(* Every SQL statement (or transaction) is one step. A handler that awaits *)
(* between two statements keeps what it read in a record of pushes or      *)
(* patches and continues in a later step, against whatever the row has     *)
(* become. A handler that never continues is a Gateway process that died.  *)
(*                                                                         *)
(* The agent is the environment here: it may send any report, at any time  *)
(* and any number of times, with any claim token that was handed to it.    *)
(***************************************************************************)
EXTENDS JobRow, FiniteSets

CONSTANTS Jobs,
          MAX_AGENT_IN_FLIGHT_JOBS,   \* executor slots of the agent
          MAX_CLAIM_BATCH,            \* jobs of one poll response
          MaxHandlers                 \* bound: status reports handled at once

ASSUME CapacityAssumption == /\ MAX_AGENT_IN_FLIGHT_JOBS \in Nat \ {0}
                             /\ MAX_CLAIM_BATCH \in Nat \ {0}
                             /\ MaxHandlers \in Nat

ASSUME JobsAssumption == IsFiniteSet(Jobs)

VARIABLES
    stage,      \* per job: not submitted yet, a row of print_jobs, or a receipt
    row,        \* per job: the row (of a receipt, the row it was made from)
    minted,     \* per job: how many claim tokens were generated
    pushes,     \* WebSocket deliveries between their claim and their last write
    patches,    \* status reports between their read and their UPDATE
    admission,  \* what the agent's, tenant's and printer's lifecycle allow now
    handed,     \* history: tokens that may have reached the agent
    returned    \* history: tokens the agent gave back in an accepted report

vars == <<stage, row, minted, pushes, patches, admission, handed, returned>>

\* disabled: the agent cannot authenticate. held: it can, but it is offline,
\* its printer is not eligible or the subscription lapsed: no new work.
Admission == {"disabled", "held", "admitted"}

PushStep == {"claimed", "sent", "ambiguous", "not_sent"}
Push     == [job: Jobs, token: Nat, pc: PushStep]

Branch == {"replay", "expire", "crashRequeue", "reject", "lateExpired", "late", "transition"}
Reason == {"none", "pre_execution", "printer_not_shared", "agent_reprint_after_crash"}
Patch  == [job: Jobs, token: Nat, to: JobStatus, error: JobError, reason: Reason,
           from: JobStatus, branch: Branch]

-----------------------------------------------------------------------------
Stored(j) == stage[j] = "stored"

Update(j, r) == row' = [row EXCEPT ![j] = r]

InFlightJobs == {j \in Jobs : Stored(j) /\ InFlight(row[j])}

\* A claim made before claims carried tokens and evidence markers, found in
\* the table when this version starts.
LegacyRow(n) == [QueuedRow EXCEPT !.status = "claimed", !.claimedAt = TRUE,
                                  !.attempts = n, !.age = StaleClaim]

Init == /\ stage \in [Jobs -> {"absent", "stored"}]
        /\ row \in [Jobs -> {QueuedRow, LegacyRow(1), LegacyRow(MAX_DELIVERY_ATTEMPTS)}]
        /\ \A j \in Jobs : stage[j] = "stored" <=> row[j] # QueuedRow
        /\ Cardinality(InFlightJobs) <= MAX_AGENT_IN_FLIGHT_JOBS
        /\ minted = [j \in Jobs |-> 0]
        /\ pushes = {} /\ patches = {}
        /\ admission = "admitted"
        /\ handed = [j \in Jobs |-> {}] /\ returned = [j \in Jobs |-> {}]

insertQueuedJob(j) ==
    /\ stage[j] = "absent"
    /\ stage' = [stage EXCEPT ![j] = "stored"]
    /\ Update(j, QueuedRow)
    /\ UNCHANGED <<minted, pushes, patches, admission, handed, returned>>

-----------------------------------------------------------------------------
(* WebSocket push: claim, send, then record what became of the frame       *)

claimJobForDelivery(j) ==
    /\ Stored(j) /\ admission = "admitted"
    /\ Cardinality(InFlightJobs) < MAX_AGENT_IN_FLIGHT_JOBS
    /\ QueuedClaimable(row[j])
    /\ Update(j, Claimed(row[j], minted[j] + 1))
    /\ minted' = [minted EXCEPT ![j] = @ + 1]
    /\ pushes' = pushes \cup {[job |-> j, token |-> minted[j] + 1, pc |-> "claimed"]}
    /\ UNCHANGED <<stage, patches, admission, handed, returned>>

\* The frame is not sent (no open socket, buffers full, over the wire budget),
\* is accepted by the socket, or the send call fails half-way.
sendJobToAgent(p, outcome) ==
    /\ p.pc = "claimed"
    /\ pushes' = (pushes \ {p}) \cup {[p EXCEPT !.pc = outcome]}
    /\ handed' = IF outcome = "not_sent" THEN handed
                 ELSE [handed EXCEPT ![p.job] = @ \cup {p.token}]
    /\ UNCHANGED <<stage, row, minted, patches, admission, returned>>

pushDelivered(p) ==
    /\ p.pc = "sent"
    /\ IF Stored(p.job) /\ FencedDelivery(row[p.job], p.token, {"claimed", "printing"})
       THEN /\ Update(p.job, markJobDelivered(row[p.job]))
            /\ pushes' = pushes \ {p}
       ELSE /\ pushes' = (pushes \ {p}) \cup {[p EXCEPT !.pc = "ambiguous"]}
            /\ UNCHANGED row
    /\ UNCHANGED <<stage, minted, patches, admission, handed, returned>>

pushUnknown(p) ==
    /\ p.pc = "ambiguous"
    /\ pushes' = pushes \ {p}
    /\ IF Stored(p.job) /\ FencedDelivery(row[p.job], p.token, {"claimed"})
       THEN Update(p.job, markJobDeliveryUnknown(row[p.job]))
       ELSE UNCHANGED row
    /\ UNCHANGED <<stage, minted, patches, admission, handed, returned>>

pushRelease(p) ==
    /\ p.pc = "not_sent"
    /\ pushes' = pushes \ {p}
    /\ IF Stored(p.job) /\ Releasable(row[p.job], p.token)
       THEN Update(p.job, releaseUndeliveredClaim(row[p.job]))
       ELSE UNCHANGED row
    /\ UNCHANGED <<stage, minted, patches, admission, handed, returned>>

-----------------------------------------------------------------------------
(* The agent's requests                                                    *)

\* One poll claims a batch in one transaction; its response may be lost, so
\* the tokens may have been handed over. SKIP LOCKED and the response budget
\* leave out any of the candidates.
pollJobs(S) ==
    /\ admission = "admitted"
    /\ \A j \in S : Stored(j) /\ PollClaimable(row[j])
    /\ Cardinality(S) <= MAX_CLAIM_BATCH
    /\ Cardinality(S) + Cardinality(InFlightJobs) <= MAX_AGENT_IN_FLIGHT_JOBS
    /\ row' = [j \in Jobs |-> IF j \in S THEN Claimed(row[j], minted[j] + 1) ELSE row[j]]
    /\ minted' = [j \in Jobs |-> IF j \in S THEN minted[j] + 1 ELSE minted[j]]
    /\ handed' = [j \in Jobs |-> IF j \in S THEN handed[j] \cup {minted[j] + 1} ELSE handed[j]]
    /\ UNCHANGED <<stage, pushes, patches, admission, returned>>

jobAck(j, t) ==
    /\ Stored(j) /\ admission # "disabled"
    /\ FencedDelivery(row[j], t, {"claimed", "printing"})
    /\ Update(j, recordJobAck(row[j]))
    /\ UNCHANGED <<stage, minted, pushes, patches, admission, handed, returned>>

\* A heartbeat renews the lease of the (job, token) pairs in flight.
heartbeatKeepAlive(j, t) ==
    /\ Stored(j) /\ admission # "disabled"
    /\ FencedDelivery(row[j], t, {"claimed", "printing"})
    /\ Update(j, [row[j] EXCEPT !.age = Fresh])
    /\ UNCHANGED <<stage, minted, pushes, patches, admission, handed, returned>>

\* A heartbeat that reports the printer as shared again resumes paused jobs.
heartbeatResume(j) ==
    /\ Stored(j) /\ admission # "disabled"
    /\ row[j].status = "queued" /\ row[j].error = Paused
    /\ Update(j, [row[j] EXCEPT !.error = "null"])
    /\ UNCHANGED <<stage, minted, pushes, patches, admission, handed, returned>>

\* The reports the agent sends, apart from their token.
Report == [to: {"printing", "success"}, error: {"null"}, reason: {"none"}]
          \cup [to: {"failed"}, reason: {"none"},
                error: {"plain", "UNKNOWN_PARTIAL_DELIVERY", "AGENT_RESTART_DURING_PRINT"}]
          \cup [to: {"queued"}, error: {"null"}, reason: Reason \ {"none"}]
          \cup [to: {"expired"}, error: {"null"}, reason: {"none"}]

Request(q, t) == [to |-> q.to, error |-> q.error, reason |-> q.reason, token |-> t]

\* Mutant of patchRead: a refused report goes on to the UPDATE.
patchReadFallThrough(j, q, t) ==
    /\ Stored(j) /\ admission # "disabled"
    /\ Cardinality(patches) < MaxHandlers
    /\ patches' = patches \cup
         {[job |-> j, token |-> t, to |-> q.to, error |-> q.error, reason |-> q.reason,
           from |-> row[j].status, branch |-> PatchBranch(row[j], Request(q, t))]}
    /\ UNCHANGED <<stage, row, minted, pushes, admission, handed, returned>>

\* First half of PATCH: authenticate, read the row, choose the UPDATE.
patchRead(j, q, t) ==
    /\ Stored(j) /\ admission # "disabled"
    /\ Cardinality(patches) < MaxHandlers
    /\ LET branch == PatchBranch(row[j], Request(q, t))
       IN  /\ branch # "refuse"
           /\ patches' = patches \cup
                {[job |-> j, token |-> t, to |-> q.to, error |-> q.error,
                  reason |-> q.reason, from |-> row[j].status, branch |-> branch]}
    /\ UNCHANGED <<stage, row, minted, pushes, admission, handed, returned>>

\* Second half: the fenced UPDATE. A replay acknowledges and changes nothing.
patchWrite(p) ==
    /\ patches' = patches \ {p}
    /\ IF p.branch # "replay" /\ Stored(p.job) /\ PatchMatches(row[p.job], p, admission = "admitted")
       THEN /\ Update(p.job, PatchedRow(row[p.job], p))
            /\ returned' = IF p.branch \in {"crashRequeue", "reject"}
                           THEN [returned EXCEPT ![p.job] = @ \cup {p.token}]
                           ELSE returned
       ELSE UNCHANGED <<row, returned>>
    /\ UNCHANGED <<stage, minted, pushes, admission, handed>>

-----------------------------------------------------------------------------
(* The sweeper and the retention cleanup                                   *)

\* One row of one of the sweeper's statements: its candidates, its update.
Sweep(j, Cand(_), Upd(_)) ==
    /\ Stored(j) /\ Cand(row[j])
    /\ Update(j, Upd(row[j]))
    /\ UNCHANGED <<stage, minted, pushes, patches, admission, handed, returned>>

sweepExpired(j)         == Sweep(j, SweepExpiredCand, SweepExpired)
sweepRequeuedClaims(j)  == Sweep(j, SweepRequeueCand, SweepRequeue)
sweepSilent(j)          == Sweep(j, SweepSilentCand, SweepSilent)
sweepStalePrinting(j)   == Sweep(j, SweepStalePrintingCand, SweepStalePrinting)
sweepExhaustedClaims(j) == Sweep(j, SweepExhaustedClaimCand, SweepExhausted)
sweepExhaustedQueued(j) == Sweep(j, SweepExhaustedQueuedCand, SweepExhausted)
sweepFences(j)          == Sweep(j, SweepFenceCand, SweepFence)

Archive(j) ==
    /\ Stored(j) /\ Archivable(row[j])
    /\ stage' = [stage EXCEPT ![j] = "archived"]
    /\ UNCHANGED <<row, minted, pushes, patches, admission, handed, returned>>

cleanupTerminalPrintJobs(j) == row[j].age >= Retention /\ Archive(j)

\* A manager deletes terminal jobs older than a date of their choice.
deleteTerminalJobs(j) == Archive(j)

-----------------------------------------------------------------------------
(* Time and lifecycle                                                      *)

tickAge(j) ==
    /\ Stored(j) /\ row[j].age < Retention
    /\ Update(j, [row[j] EXCEPT !.age = @ + 1])
    /\ UNCHANGED <<stage, minted, pushes, patches, admission, handed, returned>>

tickTtl(j) ==
    /\ Stored(j) /\ row[j].ttl < GraceOver
    /\ Update(j, [row[j] EXCEPT !.ttl = @ + 1])
    /\ UNCHANGED <<stage, minted, pushes, patches, admission, handed, returned>>

changeAdmission ==
    /\ admission' \in Admission \ {admission}
    /\ UNCHANGED <<stage, row, minted, pushes, patches, handed, returned>>

-----------------------------------------------------------------------------
PushNext(p) == \/ \E o \in {"sent", "ambiguous", "not_sent"} : sendJobToAgent(p, o)
               \/ pushDelivered(p) \/ pushUnknown(p) \/ pushRelease(p)

AgentNext(j) == \/ \E t \in handed[j] : jobAck(j, t) \/ heartbeatKeepAlive(j, t)
                \/ heartbeatResume(j)
                \/ \E q \in Report, t \in handed[j] \cup {NoToken} : patchRead(j, q, t)

SweepNext(j) == \/ sweepExpired(j) \/ sweepRequeuedClaims(j) \/ sweepSilent(j)
                \/ sweepStalePrinting(j) \/ sweepExhaustedClaims(j)
                \/ sweepExhaustedQueued(j) \/ sweepFences(j)
                \/ cleanupTerminalPrintJobs(j)

Next == \/ \E j \in Jobs : \/ insertQueuedJob(j) \/ claimJobForDelivery(j)
                           \/ AgentNext(j) \/ SweepNext(j) \/ deleteTerminalJobs(j)
                           \/ tickAge(j) \/ tickTtl(j)
        \/ \E S \in SUBSET Jobs \ {{}} : pollJobs(S)
        \/ \E p \in pushes : PushNext(p)
        \/ \E p \in patches : patchWrite(p)
        \/ changeAdmission

Spec == Init /\ [][Next]_vars

\* The clock advances and the maintenance worker runs every statement again
\* and again; nothing is assumed of the agent, the sockets or the managers.
Fairness == \A j \in Jobs :
    /\ WF_vars(tickAge(j)) /\ WF_vars(tickTtl(j))
    /\ WF_vars(sweepExpired(j)) /\ WF_vars(sweepFences(j))
    /\ WF_vars(cleanupTerminalPrintJobs(j))

FairSpec == Spec /\ Fairness

-----------------------------------------------------------------------------
(* Properties                                                              *)

Stages == {"absent", "stored", "archived"}

\* Every variable holds a value of the code's types.
TypeOK == /\ stage \in [Jobs -> Stages]
          /\ row \in [Jobs -> Row]
          /\ minted \in [Jobs -> Nat]
          /\ pushes \subseteq Push /\ patches \subseteq Patch
          /\ admission \in Admission
          /\ handed \in [Jobs -> SUBSET Nat] /\ returned \in [Jobs -> SUBSET Nat]

\* Of the attempts of a job that may have reached the agent, all but one have
\* been given back by the agent itself: no lease expiry, failed send, lost
\* evidence write or poll hands a job out a second time while an earlier
\* hand-off may still print (sweepPrintJobs, claimAndPushJobToAgent).
SingleLiveAttempt ==
    \A j \in Jobs : \A a, b \in handed[j] \ returned[j] : a = b

Paid(r, n) == /\ n <= r.attempts + r.retries
              /\ r.attempts <= MAX_DELIVERY_ATTEMPTS
              /\ r.retries <= MAX_RETRIES

\* A job is handed out a bounded number of times, whatever mix of refunds,
\* releases and requeues it goes through: every claim is paid for by one of
\* the two budgets (the counter contract of job-delivery.ts).
BoundedDelivery ==
    \A j \in Jobs : Paid(row[j], minted[j])

\* Unexpired jobs a claim with a token has given to the agent.
HeldByAgent == {j \in Jobs : /\ Stored(j) /\ row[j].status \in {"claimed", "printing"}
                             /\ row[j].token # NoToken /\ row[j].ttl = Unexpired}

\* The agent never owns more unexpired jobs than its executor has slots,
\* although pushes and polls claim concurrently and a stale claim is not
\* counted while it waits to be reclaimed (claimJobForDelivery, GET).
InFlightCeiling == Cardinality(HeldByAgent) <= MAX_AGENT_IN_FLIGHT_JOBS

\* A terminal row is never reopened: its status changes only to success, for
\* an ambiguous outcome, by the attempt whose fence the row still holds, and
\* that attempt is one that may have printed (the PATCH handler).
TerminalIsFinal ==
    [][\A j \in Jobs :
         Stored(j) /\ isTerminal(row[j]) /\ row'[j].status # row[j].status
         => /\ row'[j].status = "success"
            /\ row[j].error \in UnknownMarker
            /\ row[j].token \in handed[j] \ returned[j]
            /\ row'[j].closed = row[j].token]_vars

\* A delayed report or push of an attempt the agent gave back changes nothing,
\* whichever later attempt owns the row by then (fencedJobWrite).
ReturnedAttemptIsInert ==
    [][\A p \in (patches \ patches') \cup (pushes \ pushes') :
         p.token \in returned[p.job] => row'[p.job] = row[p.job]]_vars

\* Printing starts only for the one attempt in the agent's hands, before the
\* job expires and while the lifecycles admit it, although authentication and
\* the decision were made in an earlier step (printingAdmissionLifecycleFence).
AdmissionIsCurrent ==
    [][\A j \in Jobs :
         row[j].status # "printing" /\ row'[j].status = "printing"
         => /\ admission = "admitted" /\ row[j].ttl = Unexpired
            /\ handed[j] \ returned[j] = {row[j].token}]_vars

\* What a row r, whose job had n tokens minted, the tokens h handed to the
\* agent and the tokens b given back, satisfies.
RowInv(r, n, h, b) ==
    /\ r.token <= n /\ r.token \notin b
    /\ r.token # NoToken => r.claimedAt
    /\ r.status = "queued" => r.token = NoToken /\ h \ b = {}
    /\ r.status \in {"claimed", "printing"} => h \ b \subseteq {r.token}
    /\ r.status = "claimed" /\ r.token # NoToken => HasEvidence(r)
    /\ r.status = "printing" => r.token \in h
    /\ isTerminal(r) /\ r.token # NoToken => r.error \in UnknownMarker

PushInv ==
    \A p \in pushes :
        /\ p.token \in 1..minted[p.job]
        /\ \A q \in pushes : q.job = p.job /\ q.token = p.token => q = p
        /\ stage[p.job] # "absent"
        /\ p.pc \in {"claimed", "not_sent"} => p.token \notin handed[p.job]
        /\ p.pc = "claimed" =>
             /\ handed[p.job] \ returned[p.job] = {}
             /\ \A q \in pushes : q.job = p.job /\ q.pc = "claimed" => q = p
             /\ row[p.job].status \in LiveStatus =>
                  row[p.job].status = "claimed" /\ row[p.job].token = p.token

PatchInv ==
    \A p \in patches :
        /\ stage[p.job] # "absent"
        /\ p.token # NoToken => p.token \in handed[p.job]
        /\ p.branch # "expire" => p.token # NoToken
        /\ p.branch \in {"expire", "crashRequeue", "reject", "transition"} => p.from \in LiveStatus
        /\ p.branch = "transition" => p.to \in {"printing", "success", "failed"}

\* Why a job is never in the agent's hands twice. A claim that carries a token
\* also carries evidence that it may have been delivered, so only the agent,
\* or the push that minted the token and knows the frame was never sent, can
\* take it back (markDeliveryEvidencePending in claimJobForDelivery and GET).
HandoffInv ==
    /\ \A j \in Jobs : /\ RowInv(row[j], minted[j], handed[j], returned[j])
                       /\ stage[j] = "absent" => row[j] = QueuedRow /\ minted[j] = 0
                       /\ handed[j] \subseteq 1..minted[j]
                       /\ returned[j] \subseteq handed[j]
    /\ PushInv /\ PatchInv /\ SingleLiveAttempt

\* The inductive invariant of the Gateway.
IInv == TypeOK /\ HandoffInv /\ BoundedDelivery

\* The abstract job: a receipt is as its row was.
contractPhase ==
    [j \in Jobs |-> IF stage[j] = "absent" THEN "absent"
                    ELSE IF isTerminal(row[j]) THEN row[j].status ELSE "open"]
contractLive == [j \in Jobs |-> handed[j] \ returned[j]]

Contract == INSTANCE JobContract
            WITH phase <- contractPhase, live <- contractLive, given <- handed

\* Seen from outside, the handlers, the sweeper and the agent's requests together do
\* nothing but accept a job, hand it over while no attempt is out, take it back, end it
\* once, and correct an end by the report of the attempt that is still out.
ImplementsContract == Contract!Spec

\* "claimed-but-undelivered jobs are reclaimed after the gateway's 90s claim
\* lease" (agent.go): an unexpired claim with budget left whose token the agent
\* was never given is not failed, it is requeued or claimed again.
UndeliveredClaimIsReclaimed ==
    [][\A j \in Jobs :
         /\ Stored(j) /\ row[j].status = "claimed" /\ row[j].token \notin handed[j]
         /\ row[j].ttl = Unexpired /\ HasBudget(row[j])
         => row'[j].status # "failed"]_vars

\* "a temporarily overloaded agent never drives a healthy backlog into 'exceeded
\* max retries'" (rejectJob): a queued job whose every delivery was handed back
\* and refunded can still be claimed.
OverloadNeverExhausts ==
    \A j \in Jobs :
        Stored(j) /\ row[j].status = "queued" /\ row[j].attempts = 0
        => row[j].retries < MAX_RETRIES

\* Every submitted job ends up as a receipt, whatever the agent and the push
\* do: the sweeper ends it and releases its fence, and no replayed report
\* keeps it from aging (cleanupTerminalPrintJobs, sweepPrintJobs).
EventuallyArchived ==
    \A j \in Jobs : (stage[j] = "stored") ~> (stage[j] = "archived")

=============================================================================
