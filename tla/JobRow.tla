------------------------------- MODULE JobRow -------------------------------
(***************************************************************************)
(* One row of the Gateway's print_jobs table, and the SQL statements that  *)
(* read or write it, each as a state predicate on a row (its WHERE clause) *)
(* and an operator from rows to rows (its SET clause).                     *)
(*                                                                         *)
(* The timestamps are abstracted to what the statements compare:           *)
(*   age   how old updated_at is, by the thresholds the code knows;        *)
(*   ttl   where now() is relative to expires_at.                          *)
(* The error text is abstracted to the prefix the code tests.              *)
(***************************************************************************)
EXTENDS Naturals

CONSTANTS MAX_RETRIES,            \* ceiling of safe returns to the queue
          MAX_DELIVERY_ATTEMPTS   \* ceiling of hand-offs to an agent

ASSUME BudgetAssumption == /\ MAX_RETRIES \in Nat \ {0}
                           /\ MAX_DELIVERY_ATTEMPTS \in Nat \ {0}

-----------------------------------------------------------------------------
(* Vocabulary                                                              *)

NoToken == 0    \* claim_token IS NULL; a minted token is a positive number

LiveStatus     == {"queued", "claimed", "printing"}
TerminalStatus == {"success", "failed", "expired"}
JobStatus      == LiveStatus \cup TerminalStatus

UnknownMarker == {"AGENT_EXECUTION_TIMEOUT", "AGENT_RESTART_DURING_PRINT",
                  "JOB_EXPIRED_DURING_PRINT", "UNKNOWN_PARTIAL_DELIVERY",
                  "UNKNOWN_SUBMISSION_OUTCOME"}

LateSuccessMarker == {"AGENT_EXECUTION_TIMEOUT", "AGENT_RESTART_DURING_PRINT"}

Pending == "DELIVERY_EVIDENCE_PENDING"
Paused  == "PRINTER_NOT_SHARED_PAUSE"

JobError == UnknownMarker \cup {"null", Pending, Paused, "plain", "LATE_SUCCESS",
                                "LATE_SUCCESS_POST_EXPIRATION"}

\* Ages of updated_at: each names the first threshold that has passed.
Fresh         == 0
StaleClaim    == 1   \* agentStaleThresholdSeconds(), 90 s by default
StalePrinting == 2   \* STALE_PRINTING_SECONDS
LateWindow    == 3   \* LATE_SUCCESS_MAX_AGE_MS, 24 h
Retention     == 4   \* PRINT_JOB_RETENTION_HOURS, 48 h

\* Positions of now() relative to expires_at.
Unexpired == 0
Grace     == 1       \* within EXPIRED_LATE_SUCCESS_GRACE_MS of expires_at
GraceOver == 2

Row == [status: JobStatus, token: Nat, claimedAt: BOOLEAN, delivered: BOOLEAN,
        acked: BOOLEAN, error: JobError, attempts: Nat, retries: Nat,
        closed: Nat, age: Fresh..Retention, ttl: Unexpired..GraceOver]

isTerminal(r) == r.status \in TerminalStatus

\* What the Gateway tells a client about paper, given the row.
derivePhysicalOutcome(r) ==
    IF r.status = "success" \/ r.error \in UnknownMarker THEN "unknown" ELSE "not_printed"

HasBudget(r) == r.retries < MAX_RETRIES /\ r.attempts < MAX_DELIVERY_ATTEMPTS

\* The claim may have reached the agent.
HasEvidence(r) == r.delivered \/ r.acked \/ r.error = Pending

\* The row a new submission inserts.
QueuedRow == [status |-> "queued", token |-> NoToken, claimedAt |-> FALSE,
              delivered |-> FALSE, acked |-> FALSE, error |-> "null",
              attempts |-> 0, retries |-> 0, closed |-> NoToken,
              age |-> Fresh, ttl |-> Unexpired]

-----------------------------------------------------------------------------
(* Claiming                                                                *)

\* A stale claim with no evidence of delivery: the poll takes it again.
Reclaimable(r) == /\ r.status = "claimed" /\ ~HasEvidence(r)
                  /\ r.age >= StaleClaim /\ HasBudget(r)

QueuedClaimable(r) == /\ r.status = "queued" /\ r.error # Paused
                      /\ r.ttl = Unexpired /\ HasBudget(r)

PollClaimable(r) == QueuedClaimable(r) \/ (r.ttl = Unexpired /\ Reclaimable(r))

\* Mutant of InFlight: a printing job no longer counts.
InFlightClaimedOnly(r) == r.status = "claimed" /\ r.ttl = Unexpired /\ ~Reclaimable(r)

\* Occupies one of the agent's executor slots.
InFlight(r) == /\ r.status \in {"claimed", "printing"} /\ r.ttl = Unexpired
               /\ ~Reclaimable(r)

\* Mutant of Claimed: the claim does not mark its delivery as possible.
ClaimedUnmarked(r, t) ==
    [r EXCEPT !.status = "claimed", !.claimedAt = TRUE, !.age = Fresh,
              !.token = t, !.closed = NoToken, !.delivered = FALSE,
              !.acked = FALSE, !.error = "null", !.attempts = @ + 1,
              !.retries = IF r.status = "claimed" THEN @ + 1 ELSE @]

Claimed(r, t) ==
    [r EXCEPT !.status = "claimed", !.claimedAt = TRUE, !.age = Fresh,
              !.token = t, !.closed = NoToken, !.delivered = FALSE,
              !.acked = FALSE, !.error = Pending, !.attempts = @ + 1,
              !.retries = IF r.status = "claimed" THEN @ + 1 ELSE @]

-----------------------------------------------------------------------------
(* Delivery evidence and the release of an unsent claim                    *)

FencedDelivery(r, t, statuses) == r.status \in statuses /\ r.token = t

markJobDelivered(r) ==
    [r EXCEPT !.delivered = TRUE, !.age = Fresh,
              !.error = IF @ = Pending THEN "null" ELSE @]

markJobDeliveryUnknown(r) ==
    [r EXCEPT !.status = "failed", !.error = "UNKNOWN_PARTIAL_DELIVERY",
              !.delivered = TRUE, !.claimedAt = TRUE, !.age = Fresh]

recordJobAck(r) == [r EXCEPT !.acked = TRUE, !.age = Fresh]

Releasable(r, t) == /\ r.status = "claimed" /\ r.token = t
                    /\ ~r.delivered /\ ~r.acked

\* Requeue while the delivery budget lasts and the job is unexpired, fail once
\* the budget is spent, and leave an expired claim to the sweeper.
releaseUndeliveredClaim(r) ==
    LET unclaimed == [r EXCEPT !.claimedAt = FALSE, !.token = NoToken,
                               !.age = Fresh, !.error = "plain"]
    IN  IF r.attempts >= MAX_DELIVERY_ATTEMPTS THEN [unclaimed EXCEPT !.status = "failed"]
        ELSE IF r.ttl = Unexpired THEN [unclaimed EXCEPT !.status = "queued"]
        ELSE r

-----------------------------------------------------------------------------
(* The sweeper: eight statements, each its own transaction                 *)

SweepExpiredCand(r) == r.status \in LiveStatus /\ r.ttl # Unexpired

\* Mutant of SweepExpired: an expired job counts as not printed.
SweepExpiredPlain(r) ==
    [r EXCEPT !.status = "expired", !.age = Fresh, !.error = "null",
              !.token = NoToken, !.claimedAt = FALSE]

\* The fence survives only on an attempt that may have reached the agent.
SweepExpired(r) ==
    LET ambiguous == r.status = "printing" \/ (r.status = "claimed" /\ HasEvidence(r))
    IN  [r EXCEPT !.status = "expired", !.age = Fresh,
                  !.error = IF r.status = "printing" THEN "JOB_EXPIRED_DURING_PRINT"
                            ELSE IF ambiguous THEN "UNKNOWN_PARTIAL_DELIVERY"
                            ELSE "null",
                  !.token = IF ambiguous THEN @ ELSE NoToken,
                  !.claimedAt = ambiguous /\ r.token # NoToken /\ @]

\* Mutant of SweepRequeueCand: requeues any stale claim.
SweepRequeueAny(r) == /\ r.status = "claimed" /\ r.age >= StaleClaim
                      /\ HasBudget(r) /\ r.ttl = Unexpired

SweepRequeueCand(r) == Reclaimable(r) /\ r.ttl = Unexpired
SweepRequeue(r) ==
    [r EXCEPT !.status = "queued", !.claimedAt = FALSE, !.token = NoToken,
              !.delivered = FALSE, !.acked = FALSE, !.retries = @ + 1, !.age = Fresh]

SweepSilentCand(r) == r.status = "claimed" /\ HasEvidence(r) /\ r.age >= StaleClaim
SweepSilent(r) ==
    [r EXCEPT !.status = "failed", !.error = "UNKNOWN_PARTIAL_DELIVERY", !.age = Fresh]

SweepStalePrintingCand(r) == r.status = "printing" /\ r.age >= StalePrinting
SweepStalePrinting(r) ==
    IF r.ttl # Unexpired
    THEN [r EXCEPT !.status = "failed", !.error = "JOB_EXPIRED_DURING_PRINT",
                   !.token = NoToken, !.claimedAt = FALSE, !.age = Fresh]
    ELSE [r EXCEPT !.status = "failed", !.error = "AGENT_EXECUTION_TIMEOUT", !.age = Fresh]

SweepExhaustedClaimCand(r) ==
    r.status = "claimed" /\ ~HasEvidence(r) /\ r.age >= StaleClaim /\ ~HasBudget(r)
SweepExhaustedQueuedCand(r) ==
    r.status = "queued" /\ r.ttl = Unexpired /\ ~HasBudget(r)
SweepExhausted(r) ==
    [r EXCEPT !.status = "failed", !.error = "plain", !.token = NoToken,
              !.claimedAt = FALSE, !.age = Fresh]

\* Mutant of SweepFenceCand: the fences of failed jobs are never released.
SweepExpiredFenceOnly(r) == r.token # NoToken /\ r.status = "expired" /\ r.ttl = GraceOver

SweepFenceCand(r) ==
    /\ r.token # NoToken
    /\ \/ r.status = "expired" /\ r.ttl = GraceOver
       \/ /\ r.status = "failed" /\ r.age >= LateWindow
          /\ r.error \in {"UNKNOWN_PARTIAL_DELIVERY", "AGENT_EXECUTION_TIMEOUT",
                          "AGENT_RESTART_DURING_PRINT"}
SweepFence(r) == [r EXCEPT !.token = NoToken, !.claimedAt = FALSE]

\* Terminal rows whose fence is released may become receipts.
Archivable(r) == isTerminal(r) /\ r.token = NoToken

-----------------------------------------------------------------------------
(* PATCH /api/agent/jobs: an unlocked read picks a branch, then one fenced *)
(* UPDATE runs. A request is [to, token, error, reason].                   *)

Transition == [queued   |-> {}, claimed |-> {"printing", "success", "failed", "queued"},
               printing |-> {"success", "failed"},
               success  |-> {}, failed  |-> {}, expired |-> {}]

canTransition(from, to, allowLateSuccess) ==
    IF from \in TerminalStatus
    THEN allowLateSuccess /\ from = "failed" /\ to = "success"
    ELSE to \in Transition[from]

lateSuccess(r, q) ==
    /\ r.status = "failed" /\ q.to = "success"
    /\ \/ r.error \in LateSuccessMarker
       \/ r.error = "UNKNOWN_PARTIAL_DELIVERY" /\ r.claimedAt

expiredLateSuccess(r) ==
    /\ r.claimedAt /\ r.error \in {"JOB_EXPIRED_DURING_PRINT", "UNKNOWN_PARTIAL_DELIVERY"}
    /\ r.delivered \/ r.acked \/ r.error = "UNKNOWN_PARTIAL_DELIVERY"

\* Which UPDATE the handler will run for request q, having read row r.
PatchBranch(r, q) ==
    IF q.token # NoToken /\ isTerminal(r) /\ q.to = r.status /\ r.closed = q.token THEN "replay"
    ELSE IF q.to = "expired" THEN (IF isTerminal(r) THEN "refuse" ELSE "expire")
    ELSE IF r.token = NoToken \/ q.token # r.token THEN "refuse"
    ELSE IF q.to = "queued" /\ r.status = "printing"
         THEN (IF q.reason = "agent_reprint_after_crash" THEN "crashRequeue" ELSE "refuse")
    ELSE IF q.to = "queued" /\ r.status = "claimed"
         THEN (IF q.reason \in {"pre_execution", "printer_not_shared"} THEN "reject" ELSE "refuse")
    ELSE IF r.status = "expired" /\ q.to = "success"
         THEN (IF expiredLateSuccess(r) THEN "lateExpired" ELSE "refuse")
    ELSE IF lateSuccess(r, q) THEN "late"
    ELSE IF \/ q.to = "printing" /\ r.status = "printing"
            \/ canTransition(r.status, q.to, FALSE) THEN "transition"
    ELSE "refuse"

\* The WHERE clause of that UPDATE; p is the request with the branch and the
\* status the handler read, admitted the agent, tenant and printer lifecycle.
PatchClock(r, p, admitted) ==
    CASE p.branch = "expire" -> r.ttl # Unexpired
      [] p.branch \in {"crashRequeue", "reject"} -> r.ttl = Unexpired /\ r.retries < MAX_RETRIES
      [] p.branch = "lateExpired" -> r.ttl = Grace
      [] p.branch = "late" -> r.age < LateWindow
      [] p.branch = "transition" -> p.to = "printing" => r.ttl = Unexpired /\ admitted

\* Mutants of PatchMatches: the UPDATE is not fenced by the status read, by
\* the token, or by the lifecycles.
PatchMatchesAnyStatus(r, p, admitted) == r.token = p.token /\ PatchClock(r, p, admitted)
PatchMatchesAnyToken(r, p, admitted) == r.status = p.from /\ PatchClock(r, p, admitted)
PatchMatchesAnyLifecycle(r, p, admitted) ==
    r.status = p.from /\ r.token = p.token /\ PatchClock(r, p, TRUE)

PatchMatches(r, p, admitted) ==
    r.status = p.from /\ r.token = p.token /\ PatchClock(r, p, admitted)

PatchExpire(r) ==
    [r EXCEPT !.status = "expired", !.age = Fresh,
              !.error = IF r.status = "printing" THEN "JOB_EXPIRED_DURING_PRINT"
                        ELSE IF r.status = "claimed" /\ HasEvidence(r)
                             THEN "UNKNOWN_PARTIAL_DELIVERY"
                        ELSE "null",
              !.delivered = @ \/ r.status = "printing"]

\* Mutant of PatchRequeue: a returned attempt is refunded and costs no retry.
PatchRequeueFree(r, error, refund) ==
    [r EXCEPT !.status = "queued", !.token = NoToken, !.closed = NoToken,
              !.claimedAt = FALSE, !.delivered = FALSE, !.acked = FALSE,
              !.error = error, !.age = Fresh,
              !.attempts = IF refund /\ @ > 0 THEN @ - 1 ELSE @]

PatchRequeue(r, error, refund) ==
    [r EXCEPT !.status = "queued", !.token = NoToken, !.closed = NoToken,
              !.claimedAt = FALSE, !.delivered = FALSE, !.acked = FALSE,
              !.error = error, !.retries = @ + 1, !.age = Fresh,
              !.attempts = IF refund /\ @ > 0 THEN @ - 1 ELSE @]

PatchClose(r, to, error, t) ==
    LET retainsFence == to = "failed" /\ error \in LateSuccessMarker
    IN  [r EXCEPT !.status = to, !.error = error, !.age = Fresh,
                  !.closed = IF to \in TerminalStatus THEN t ELSE @,
                  !.token = IF to \in TerminalStatus /\ ~retainsFence THEN NoToken ELSE @,
                  !.delivered = @ \/ to \in {"printing", "success"} \/ r.status = "printing"]

\* The SET clause of that UPDATE.
PatchedRow(r, p) ==
    CASE p.branch = "expire"       -> PatchExpire(r)
      [] p.branch = "crashRequeue" -> PatchRequeue(r, "AGENT_RESTART_DURING_PRINT", FALSE)
      [] p.branch = "reject"       ->
           PatchRequeue(r, IF p.reason = "printer_not_shared" THEN Paused ELSE "plain", TRUE)
      [] p.branch = "lateExpired"  ->
           PatchClose(r, "success", "LATE_SUCCESS_POST_EXPIRATION", p.token)
      [] p.branch = "late"         -> PatchClose(r, "success", "LATE_SUCCESS", p.token)
      [] p.branch = "transition"   -> PatchClose(r, p.to, p.error, p.token)

=============================================================================
