---------------------------- MODULE OdooOutbox ----------------------------
(***************************************************************************)
(* Odoo's durable outbox, print_gateway.print_job: workers that claim a    *)
(* row with a lease, POST it to the Gateway and record the answer; the     *)
(* status synchronisation; the operator's retry and forced reprint.        *)
(*                                                                         *)
(* A worker may die or be slow at any point: its lease goes stale after    *)
(* 120 s and another worker takes the row over. A request whose answer is  *)
(* lost may still reach the Gateway later. The Gateway keeps one job per   *)
(* idempotency key (module JobCreation); backoff delays are left to the    *)
(* interleaving.                                                           *)
(***************************************************************************)
EXTENDS Naturals, FiniteSets

CONSTANTS
    MaxRows,                     \* bound on the rows of the outbox
    Workers, Operators,
    MaxAttempts,                 \* attempts after which a failing row is given up (5)
    MAX_BILLING_PARK_ATTEMPTS,   \* attempts are frozen here
    MaxClaims,                   \* bound on the leases taken
    Refusals,                    \* refusals of the Gateway that happen
    Faults                       \* further faults that happen

OutboxAssumption ==
    /\ MaxRows \in Nat \ {0} /\ MaxClaims \in Nat \ {0}
    /\ MaxAttempts \in Nat \ {0}
    /\ MAX_BILLING_PARK_ATTEMPTS \in Nat /\ MAX_BILLING_PARK_ATTEMPTS >= MaxAttempts
    /\ Refusals \subseteq {"retry", "rejected", "offline"}
    /\ Faults \subseteq {"crash", "http5xx", "cleanup"}

VARIABLES
    rows,      \* the outbox; a row that does not exist is NoRow
    gw,        \* the Gateway's job for the key of each row
    late,      \* requests whose sender no longer listens
    work,      \* the submission workers
    claims,    \* submission leases ever taken (the tokens)
    sync,      \* the status synchronisation in progress
    ops        \* operators about to force a reprint, with the counter they read

outboxVars == <<rows, gw, late, work, claims, sync, ops>>

Ids      == 1..MaxRows
Terminal == {"success", "failed", "unknown"}
Chain    == <<"queued", "submitted", "claimed", "success">>   \* _FORWARD_CHAIN, printing with claimed
Position(s) == CHOOSE p \in DOMAIN Chain : Chain[p] = s
Printers == {"primary", "backup"}

NoRow   == [status |-> "none", key |-> <<0, 0>>, gid |-> FALSE, err |-> "none", attempts |-> 0,
            token |-> 0, stale |-> FALSE, printer |-> "primary", reprints |-> 0, done |-> FALSE]
Deleted == [NoRow EXCEPT !.done = TRUE]   \* an id is never given to another row
NewRow(k, p) == [NoRow EXCEPT !.status = "queued", !.key = k, !.printer = p]
NoJob   == [status |-> "none", printer |-> "primary", seen |-> TRUE]
IdleW   == [pc |-> "idle", row |-> 1, token |-> 0, attempts |-> 0, printer |-> "primary",
            resp |-> "none", seen |-> "none"]
IdleS   == [pc |-> "idle", row |-> 1, gid |-> FALSE, body |-> "none"]

OutboxInit ==
    /\ rows = [i \in Ids |-> IF i = 1 THEN NewRow(<<0, 1>>, "primary") ELSE NoRow]
    /\ gw = [i \in Ids |-> NoJob] /\ late = {} /\ claims = 0
    /\ work = [w \in Workers |-> IdleW] /\ sync = IdleS
    /\ ops = [o \in Operators |-> <<0, 0>>]

Exists(i) == rows[i].status # "none"
PutW(w, r) == work' = [work EXCEPT ![w] = r]

-----------------------------------------------------------------------------
(* What a row says about paper                                             *)

Markers == {"marker", "ambiguous"}          \* _GATEWAY_UNKNOWN_MARKERS

\* _compute_physical_outcome
PhysicalOutcome(r) ==
    IF r.err \in Markers THEN "unknown"
    ELSE IF r.status = "queued" /\ ~r.gid THEN "not_printed"
    ELSE IF r.status = "failed" /\ ~r.gid /\ r.err \in {"rejected", "connection"} THEN "not_printed"
    ELSE "unknown"

\* _needs_gateway_status_reconciliation, and the query of cron_sync_status
NeedsReconciliation(r) ==
    IF ~r.gid THEN r.status = "unknown" /\ r.err = "ambiguous"
    ELSE \/ r.status \notin Terminal \cup {"none"}
         \/ r.status = "failed" /\ r.err = "marker"
         \/ r.status = "unknown" /\ r.err \in Markers

\* _stable_terminal_values: done stands for completed_at, written once. The
\* retention reads completed_at, or write_date where there is none.
Settled(r, s) == [r EXCEPT !.status = s, !.done = @ \/ s \in Terminal]

-----------------------------------------------------------------------------
(* Submission                                                              *)

\* The row is read into the worker's environment: the checks at the head of
\* _action_submit_trusted, and the values it will count from.
load(w, i) ==
    /\ work[w].pc = "idle" /\ rows[i].status = "queued" /\ ~rows[i].gid
    /\ PutW(w, [IdleW EXCEPT !.pc = "loaded", !.row = i, !.attempts = rows[i].attempts,
                             !.printer = rows[i].printer])
    /\ UNCHANGED <<rows, gw, late, claims, sync, ops>>

Claimable(r) == ~r.gid /\ r.status \notin Terminal \cup {"none"} /\ (r.token = 0 \/ r.stale)

\* Mutant of claimLease: a lease is never taken over.
claimUnheld(w) ==
    LET i == work[w].row IN
    /\ work[w].pc = "loaded"
    /\ IF ~rows[i].gid /\ rows[i].status = "queued" /\ rows[i].token = 0
       THEN /\ claims < MaxClaims /\ claims' = claims + 1
            /\ rows' = [rows EXCEPT ![i].token = claims + 1, ![i].stale = FALSE]
            /\ PutW(w, [work[w] EXCEPT !.pc = "claimed", !.token = claims + 1])
       ELSE PutW(w, IdleW) /\ UNCHANGED <<rows, claims>>
    /\ UNCHANGED <<gw, late, sync, ops>>

\* _claim_submission_lease: one UPDATE on a cursor of its own.
claimLease(w) ==
    LET i == work[w].row IN
    /\ work[w].pc = "loaded"
    /\ IF Claimable(rows[i])
       THEN /\ claims < MaxClaims /\ claims' = claims + 1
            /\ rows' = [rows EXCEPT ![i].token = claims + 1, ![i].stale = FALSE]
            /\ PutW(w, [work[w] EXCEPT !.pc = "claimed", !.token = claims + 1])
       ELSE PutW(w, IdleW) /\ UNCHANGED <<rows, claims>>
    /\ UNCHANGED <<gw, late, sync, ops>>

\* 120 seconds pass.
expireLease(i) ==
    /\ rows[i].token # 0 /\ ~rows[i].stale
    /\ "crash" \in Faults
    /\ rows' = [rows EXCEPT ![i].stale = TRUE]
    /\ UNCHANGED <<gw, late, work, claims, sync, ops>>

PostRequest(w) == [row |-> work[w].row, printer |-> work[w].printer]
Answer(w, a) == PutW(w, [work[w] EXCEPT !.pc = "answered", !.resp = a,
                                        !.seen = gw'[work[w].row].status])

\* The Gateway's job for a request: created, or the one that was there.
Accepted(q) == IF gw[q.row].status # "none" THEN gw
               ELSE [gw EXCEPT ![q.row] = [status |-> "queued", printer |-> q.printer, seen |-> TRUE]]
Conflicts(q) == gw[q.row].status # "none" /\ gw[q.row].printer # q.printer

\* requests.post, answered 200 or 201, or 409 when the key is another operation's.
postAccepted(w) ==
    /\ work[w].pc = "claimed"
    /\ gw' = Accepted(PostRequest(w))
    /\ Answer(w, IF Conflicts(PostRequest(w)) THEN "rejected" ELSE "ok")
    /\ UNCHANGED <<rows, late, claims, sync, ops>>

\* Refused before a job is created: 429, 401, billing and rotation codes (retry),
\* 400 to 422 (rejected), the typed 503 (offline).
postRefused(w, a) ==
    /\ work[w].pc = "claimed" /\ gw' = gw /\ Answer(w, a)
    /\ UNCHANGED <<rows, late, claims, sync, ops>>

\* An untyped 5xx, of the Gateway or of a proxy before it: accepted or not.
postFailed(w) ==
    /\ work[w].pc = "claimed" /\ "http5xx" \in Faults
    /\ gw' \in {gw, Accepted(PostRequest(w))}
    /\ Answer(w, "http5xx")
    /\ UNCHANGED <<rows, late, claims, sync, ops>>

\* The connection was never established.
postUnsent(w) ==
    /\ work[w].pc = "claimed" /\ gw' = gw /\ Answer(w, "unsent")
    /\ UNCHANGED <<rows, late, claims, sync, ops>>

\* The request left, and no usable answer came back.
postLost(w) ==
    /\ work[w].pc = "claimed" /\ gw' = gw /\ Answer(w, "lost")
    /\ late' = late \cup {PostRequest(w)}
    /\ UNCHANGED <<rows, claims, sync, ops>>

deliverLate(q) ==
    /\ gw' = Accepted(q) /\ late' = late \ {q}
    /\ UNCHANGED <<rows, work, claims, sync, ops>>

\* The worker's process dies, with or without its request under way.
crash(w) ==
    /\ "crash" \in Faults /\ work[w].pc \in {"claimed", "answered"}
    /\ late' \in {late} \cup (IF work[w].pc = "claimed" THEN {late \cup {PostRequest(w)}} ELSE {})
    /\ PutW(w, IdleW)
    /\ UNCHANGED <<rows, gw, claims, sync, ops>>

-----------------------------------------------------------------------------
(* Recording the answer                                                    *)

\* Mutant of Owns: the lease is not compared.
OwnsAnything(w) == rows[work[w].row].status \notin Terminal \cup {"none"}

\* _persist_state and _advance_status_claimed lock the row first: it must still
\* carry this worker's token and must not be terminal.
Owns(w) == LET r == rows[work[w].row] IN
           r.token = work[w].token /\ r.status \notin Terminal \cup {"none"}

Released(r) == [r EXCEPT !.token = 0, !.stale = FALSE]

\* Back to the queue, or given up at the fifth attempt.
Retried(r, n, e) == [(IF n >= MaxAttempts THEN Settled(r, "failed") ELSE r)
                     EXCEPT !.attempts = n, !.err = e]

\* Mutant of BillingRetry: the attempts keep growing while the row is parked.
BillingRetryUncapped(r, n) == [r EXCEPT !.attempts = n + 1, !.err = "retry"]

\* _billing_retry_values: never given up, attempts frozen at the cap.
BillingRetry(r, n) == [r EXCEPT !.attempts = IF n > MAX_BILLING_PARK_ATTEMPTS THEN n - 1 ELSE n,
                                !.err = "retry"]

\* Mutant of Ambiguous: a lost answer is treated like a connection that failed.
AmbiguousRequeued(r, n) == Retried(r, n, "connection")

\* _record_ambiguous_submission
Ambiguous(r, n) == [Settled(r, "unknown") EXCEPT !.attempts = n, !.err = "ambiguous", !.done = r.done]

\* What the Gateway reported with its answer. The submission path keeps a
\* marked failure as failed; only the synchronisation turns it into unknown.
Reported(r, n, s) ==
    [(CASE s = "queued"  -> Settled(r, "submitted")
        [] s = "claimed" -> Settled(r, "claimed")
        [] s \in {"success", "late"} -> Settled(r, "success")
        [] OTHER         -> Settled(r, "failed"))
     EXCEPT !.attempts = n, !.gid = TRUE, !.err = CASE s = "marked" -> "marker"
                                                     [] s \in {"failed", "expired"} -> "other"
                                                     [] OTHER -> "none"]

Outcome(w, r) ==
    LET n == work[w].attempts + 1 IN
    CASE work[w].resp = "ok"       -> Reported(r, n, work[w].seen)
      [] work[w].resp = "retry"    -> BillingRetry(r, n)
      [] work[w].resp = "rejected" -> [Settled(r, "failed") EXCEPT !.attempts = n, !.err = "rejected"]
      [] work[w].resp = "offline"  -> Retried(r, n, "rejected")
      [] work[w].resp = "http5xx"  -> Retried(r, n, "other")
      [] work[w].resp = "lost"     -> Ambiguous(r, n)
      [] work[w].resp = "unsent"   -> Retried(r, n, "connection")

\* The answer is recorded and the lease released; without the lease nothing is.
record(w) ==
    LET i == work[w].row IN
    /\ work[w].pc = "answered" /\ PutW(w, IdleW)
    /\ rows' = IF Owns(w) THEN [rows EXCEPT ![i] = Released(Outcome(w, @))] ELSE rows
    /\ UNCHANGED <<gw, late, claims, sync, ops>>

\* _handle_pre_dispatch_failure, on a first attempt whose row names a usable
\* backup of a printer still shared: the row moves to it under the same lease.
failover(w) ==
    LET i == work[w].row IN
    /\ work[w].pc = "answered" /\ work[w].resp = "unsent"
    /\ work[w].attempts = 0 /\ work[w].printer = "primary"
    /\ IF Owns(w)
       THEN /\ rows' = [rows EXCEPT ![i].printer = "backup", ![i].err = "retry"]
            /\ PutW(w, [work[w] EXCEPT !.pc = "claimed", !.printer = "backup"])
       ELSE rows' = rows /\ PutW(w, IdleW)
    /\ UNCHANGED <<gw, late, claims, sync, ops>>

-----------------------------------------------------------------------------
(* Status synchronisation: cron_sync_status and action_sync_status         *)

\* A candidate is chosen and the Gateway asked, by job id or by key.
syncAsk(i) ==
    /\ sync.pc = "idle" /\ NeedsReconciliation(rows[i])
    /\ sync' = [pc |-> "answered", row |-> i, gid |-> rows[i].gid,
                body |-> IF gw[i].seen THEN gw[i].status ELSE "none"]
    /\ UNCHANGED <<rows, gw, late, work, claims, ops>>

\* finish_poll writes last_status_polled_at, which nothing here depends on.
syncFailed == /\ sync.pc = "answered" /\ sync' = IdleS
              /\ UNCHANGED <<rows, gw, late, work, claims, ops>>

\* Mutant of MarkMissing: the first 404 settles an ambiguous submission.
MarkMissingFinal(r, gid) ==
    IF r.status \in {"success", "failed", "none"} \/ r.gid # gid THEN r
    ELSE [Settled(r, "unknown") EXCEPT !.err = "missing"]

\* _mark_gateway_job_missing: a 404. A submission that never learnt its job's
\* identity keeps its provenance, and is asked for again.
MarkMissing(r, gid) ==
    IF r.status \in {"success", "failed", "none"} \/ r.gid # gid THEN r
    ELSE IF ~r.gid /\ r.status = "unknown" /\ r.err = "ambiguous" THEN Settled(r, "unknown")
    ELSE [Settled(r, "unknown") EXCEPT !.err = "missing"]

\* _lookup_gateway_job_for_ambiguous_submission, after its answer: the identity
\* is taken only by a row that is still ambiguous.
Identified(r) == IF ~r.gid /\ r.status = "unknown" /\ r.err = "ambiguous"
                 THEN [r EXCEPT !.gid = TRUE] ELSE r

RemoteStatus(b) == CASE b = "queued" -> "submitted" [] b = "claimed" -> "claimed"
                     [] b \in {"success", "late"} -> "success"
                     [] b \in {"failed", "expired"} -> "failed" [] b = "marked" -> "unknown"
RemoteError(b)  == CASE b = "marked" -> "marker" [] b = "late" -> "late"
                     [] b \in {"failed", "expired"} -> "other" [] OTHER -> "none"

LateSuccess(r, b) == /\ RemoteStatus(b) = "success"
                     /\ \/ r.status = "failed" /\ b = "late" /\ PhysicalOutcome(r) = "unknown"
                        \/ r.status = "unknown" /\ r.gid /\ NeedsReconciliation(r)

\* Mutant of Advances: a terminal row follows the Gateway like any other.
AdvancesAlways(r, s) ==
    r.status \in Terminal \/ s \in {"failed", "unknown"} \/ Position(s) >= Position(r.status)

\* _advance_status: forward along the chain, out to failed or unknown, and never
\* out of a terminal status. What it refuses is rolled back to the savepoint.
Advances(r, s) ==
    IF r.status \in Terminal THEN s = r.status
    ELSE s \in {"failed", "unknown"} \/ Position(s) >= Position(r.status)

\* _apply_synced_status
Synced(r, b) ==
    LET s == RemoteStatus(b) IN
    IF LateSuccess(r, b) \/ Advances(r, s)
    THEN [Settled(r, s) EXCEPT !.err = RemoteError(b)] ELSE r

syncApply ==
    LET i == sync.row  r == rows[i] IN
    /\ sync.pc = "answered" /\ sync' = IdleS
    /\ rows' = [rows EXCEPT ![i] = IF sync.body = "none" THEN MarkMissing(r, sync.gid)
                                   ELSE IF sync.gid THEN (IF r.gid THEN Synced(r, sync.body) ELSE r)
                                   ELSE IF Identified(r).gid THEN Synced(Identified(r), sync.body) ELSE r]
    /\ UNCHANGED <<gw, late, work, claims, ops>>

-----------------------------------------------------------------------------
(* The operator                                                            *)

Free   == {i \in Ids : rows[i] = NoRow}
NextId == CHOOSE i \in Free : TRUE         \* from the table's sequence

\* create_operation: a row with the key is returned, not duplicated.
Known(k) == \E i \in Ids : Exists(i) /\ rows[i].key = k
CreateOperation(k, p) ==
    IF Known(k) THEN rows
    ELSE [rows EXCEPT ![NextId] = NewRow(k, p)]

action_retry(i) ==
    /\ Operators # {} /\ Free # {}
    /\ rows[i].status = "failed" /\ PhysicalOutcome(rows[i]) = "not_printed"
    /\ rows' = CreateOperation(<<NextId, 0>>, rows[i].printer)
    /\ UNCHANGED <<gw, late, work, claims, sync, ops>>

\* action_force_reprint reads the counter first
readReprints(o, i) ==
    /\ ops[o] = <<0, 0>>
    /\ \/ rows[i].status = "unknown"
       \/ rows[i].status = "failed" /\ PhysicalOutcome(rows[i]) = "unknown"
    /\ ops' = [ops EXCEPT ![o] = <<i, rows[i].reprints + 1>>]
    /\ UNCHANGED <<rows, gw, late, work, claims, sync>>

\* Mutant of Numbered: the counter is overwritten.
NumberedLast(n, m) == n

\* GREATEST(reprint_attempt_count, n)
Numbered(n, m) == IF n > m THEN n ELSE m

\* ... then creates the operation under the derived key and moves the counter.
action_force_reprint(o) ==
    LET i == ops[o][1]  n == ops[o][2] IN
    /\ i # 0 /\ (Exists(i) => Free # {} \/ Known(<<i, n>>))
    /\ rows' = IF Exists(i)
               THEN [CreateOperation(<<i, n>>, rows[i].printer)
                     EXCEPT ![i].reprints = Numbered(n, @)]
               ELSE rows
    /\ ops' = [ops EXCEPT ![o] = <<0, 0>>]
    /\ UNCHANGED <<gw, late, work, claims, sync>>

\* cron_cleanup_terminal_jobs
cleanup(i) ==
    /\ "cleanup" \in Faults /\ rows[i].status \in Terminal
    /\ rows' = [rows EXCEPT ![i] = Deleted]
    /\ UNCHANGED <<gw, late, work, claims, sync, ops>>

-----------------------------------------------------------------------------
(* The Gateway's side of an accepted job                                   *)

Later(s) == CASE s = "queued" -> {"claimed", "expired"} [] s = "claimed" -> {"success", "failed", "marked"}
              [] s = "marked" -> {"late"} [] OTHER -> {}

gatewayStep(i) ==
    /\ \E s \in Later(gw[i].status) : gw' = [gw EXCEPT ![i].status = s]
    /\ UNCHANGED <<rows, late, work, claims, sync, ops>>

\* The job leaves the Gateway's reach: GET answers 404 from now on.
gatewayPurge(i) ==
    /\ "cleanup" \in Faults
    /\ gw[i].status \in {"success", "failed", "late", "expired"} /\ gw[i].seen
    /\ gw' = [gw EXCEPT ![i].seen = FALSE]
    /\ UNCHANGED <<rows, late, work, claims, sync, ops>>

-----------------------------------------------------------------------------
Submit(w) == \/ \E i \in Ids : load(w, i)
             \/ claimLease(w) \/ postAccepted(w) \/ postFailed(w) \/ postUnsent(w) \/ postLost(w)
             \/ \E a \in Refusals : postRefused(w, a)
             \/ record(w) \/ failover(w) \/ crash(w)

OutboxNext ==
    \/ \E w \in Workers : Submit(w)
    \/ \E q \in late : deliverLate(q)
    \/ \E i \in Ids : \/ expireLease(i) \/ syncAsk(i) \/ action_retry(i) \/ cleanup(i)
                      \/ gatewayStep(i) \/ gatewayPurge(i)
    \/ syncFailed \/ syncApply
    \/ \E o \in Operators : \/ \E i \in Ids : readReprints(o, i)
                            \/ action_force_reprint(o)

OutboxSpec == OutboxInit /\ [][OutboxNext]_outboxVars

-----------------------------------------------------------------------------
(* Properties                                                              *)

OutboxRow ==
    [status: {"none", "queued", "submitted", "claimed"} \cup Terminal, key: (0..MaxRows) \X Nat,
     gid: BOOLEAN, err: {"none", "retry", "rejected", "connection", "other", "missing", "late"} \cup Markers,
     attempts: 0..MAX_BILLING_PARK_ATTEMPTS + 1, token: 0..MaxClaims, stale: BOOLEAN,
     printer: Printers, reprints: Nat, done: BOOLEAN]

\* Every variable has its type; a row's attempts pass the cap by one at most.
OutboxTypeOK ==
    /\ rows \in [Ids -> OutboxRow] /\ claims \in 0..MaxClaims
    /\ \A i \in Ids : gw[i].status \in {"none", "queued", "claimed", "success", "failed", "marked", "late", "expired"}
    /\ \A q \in late : q.row \in Ids /\ q.printer \in Printers

\* A row an operator may retry under a new key (failed, "not printed") has no
\* job at the Gateway and no request that could still create one: action_retry
\* never doubles a print.
RetryIsSafe ==
    \A i \in Ids : rows[i].status = "failed" /\ PhysicalOutcome(rows[i]) = "not_printed"
                      => gw[i].status = "none" /\ \A q \in late : q.row # i

\* A row that knows its Gateway job never claims more than the Gateway said:
\* success only after success, failure only after a failure or an expiry. A
\* worker that lost its lease writes nothing over what its successor learnt.
MirrorsGateway ==
    \A i \in Ids : rows[i].gid =>
        /\ gw[i].status # "none"
        /\ rows[i].status = "success" => gw[i].status \in {"success", "late"}
        /\ rows[i].status = "failed" => gw[i].status \in {"failed", "expired", "marked", "late"}

\* No derived key is ahead of its original's counter: the next forced reprint
\* takes a number of its own instead of collapsing onto an earlier one.
CounterCoversReprints ==
    \A i, j \in Ids : Exists(i) /\ Exists(j) /\ rows[j].key[1] = i /\ rows[j].key[2] # 0
                         => rows[j].key[2] <= rows[i].reprints

\* A submission whose answer was lost learns the identity of the job it created,
\* through the look-up by idempotency key, unless one of the two was cleaned up.
AmbiguousResolves ==
    \A i \in Ids : (rows[i].err = "ambiguous" /\ gw[i].status # "none")
                      ~> (rows[i].gid \/ ~Exists(i) \/ ~gw[i].seen)

\* A row does not stay behind with the lease of a worker that died: it reaches
\* the Gateway or an end. (Bounded by the leases the model hands out.)
NeverStranded == \A i \in Ids : rows[i].status = "queued" ~> (rows[i].status # "queued" \/ claims = MaxClaims)
=============================================================================
