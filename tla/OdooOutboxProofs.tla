-------------------------- MODULE OdooOutboxProofs --------------------------
(***************************************************************************)
(* Odoo's outbox, for any number of rows, workers, operators, attempts and *)
(* leases (print_job.py).                                                  *)
(*                                                                         *)
(* Whatever fails and whoever takes a lease over, a row that knows its     *)
(* Gateway job never says more than the Gateway did: the Gateway's status  *)
(* only moves on, so what a worker or the synchronisation was told stays   *)
(* behind it, and a row that has the job's id has no lease, so no worker   *)
(* writes over it.                                                         *)
(*                                                                         *)
(* Where no worker dies and no answer is an untyped 5xx, a row that is     *)
(* offered for retry has neither a job nor a request under way: a lease is *)
(* then held by one worker from the claim to the record, and until that    *)
(* worker sends, nothing of the row has reached the Gateway.               *)
(***************************************************************************)
EXTENDS OdooOutbox, TLAPS

GwStatus  == {"none", "queued", "claimed", "success", "failed", "marked", "late", "expired"}
RowStatus == {"none", "queued", "submitted", "claimed"} \cup Terminal
Errors    == {"none", "retry", "rejected", "connection", "other", "missing", "late"} \cup Markers
Attempts  == 0..MAX_BILLING_PARK_ATTEMPTS + 1
Resps     == {"none", "ok", "retry", "rejected", "offline", "http5xx", "lost", "unsent"}
Job       == [status: GwStatus, printer: Printers, seen: BOOLEAN]
Worker    == [pc: {"idle", "loaded", "claimed", "answered"}, row: Ids, token: 0..MaxClaims,
              attempts: 0..MAX_BILLING_PARK_ATTEMPTS, printer: Printers, resp: Resps, seen: GwStatus]
Sync      == [pc: {"idle", "answered"}, row: Ids, gid: BOOLEAN, body: GwStatus]
Sent      == [row: Ids, printer: Printers]

\* The statuses the Gateway's job can have once it had status s.
After(s) == CASE s = "queued"  -> GwStatus \ {"none"}
              [] s = "claimed" -> {"claimed", "success", "failed", "marked", "late"}
              [] s = "marked"  -> {"marked", "late"}
              [] OTHER         -> {s}

\* What a row may say when its job has status g.
Mirrors(r, g) ==
    r.gid => /\ g # "none"
             /\ r.status = "success" => g \in {"success", "late"}
             /\ r.status = "failed" => g \in {"failed", "expired", "marked", "late"}

RowInv(r, g) ==
    /\ r \in OutboxRow /\ Mirrors(r, g)
    /\ r.gid => r.token = 0 /\ r.status \notin {"queued", "none"}
    /\ r.err = "ambiguous" => r.status = "unknown" /\ r.token = 0
    /\ r.status = "queued" => r.attempts <= MAX_BILLING_PARK_ATTEMPTS
    /\ r.status \in {"submitted", "claimed"} => r.gid

\* What a worker was told lies behind the job's status.
WorkInv(x, J) ==
    /\ x \in Worker
    /\ x.pc \in {"claimed", "answered"} => x.token # 0
    /\ x.pc = "answered" => x.resp # "none"
    /\ (x.pc = "answered" /\ x.resp = "ok") => x.seen # "none" /\ J[x.row].status \in After(x.seen)

SyncInv(y, J) == /\ y \in Sync
                 /\ (y.pc = "answered" /\ y.body # "none") => J[y.row].status \in After(y.body)

\* The invariant that holds whatever fails.
IInv ==
    /\ rows = [i \in Ids |-> rows[i]] /\ gw \in [Ids -> Job] /\ \A i \in Ids : RowInv(rows[i], gw[i].status)
    /\ work = [w \in Workers |-> work[w]] /\ \A w \in Workers : WorkInv(work[w], gw)
    /\ SyncInv(sync, gw) /\ late \subseteq Sent /\ claims \in 0..MaxClaims
    /\ ops \in [Operators -> (0..MaxRows) \X Nat]

\* Nothing of row i has reached the Gateway, and nothing can.
Clean(i, J, L) == J[i].status = "none" /\ \A q \in L : q.row # i

Holds(x) == x.pc \in {"claimed", "answered"}
Told(x)  == x.pc = "answered" /\ x.resp \in {"ok", "lost"}

Offered(r) == r.status = "failed" /\ PhysicalOutcome(r) = "not_printed"

\* A row that a worker may claim, an operator may retry, or a creation may use.
Unsent(r) == r = NoRow \/ (r.status = "queued" /\ r.token = 0) \/ Offered(r)

\* A worker with a lease owns its row, and until it has sent nothing of it is at the Gateway.
HolderInv(x, R, J, L) ==
    Holds(x) => /\ R[x.row].token = x.token /\ R[x.row].status = "queued"
                /\ ~Told(x) => Clean(x.row, J, L)

\* The invariant of leases that are never taken over.
LeaseInv ==
    /\ \A i \in Ids : ~rows[i].stale /\ (Unsent(rows[i]) => Clean(i, gw, late))
    /\ \A w \in Workers : HolderInv(work[w], rows, gw, late)
    /\ \A w, v \in Workers : Holds(work[w]) /\ Holds(work[v]) /\ work[w].row = work[v].row => w = v
    /\ sync.pc = "answered" => rows[sync.row] # NoRow /\ rows[sync.row].status # "queued"

\* The invariant of the reprint counters: a derived key is of a row that was there.
ReprintInv ==
    /\ CounterCoversReprints
    /\ \A i, j \in Ids : Exists(j) /\ rows[j].key[1] = i /\ rows[j].key[2] # 0 => rows[i] # NoRow
    /\ \A o \in Operators : ops[o][1] # 0 => rows[ops[o][1]] # NoRow

-----------------------------------------------------------------------------
(* Statuses of the Gateway's job                                           *)

\* The Gateway's status only moves on (Later), and "none" is never reached again.
LEMMA AfterMoves ==
    ASSUME NEW s \in GwStatus, s # "none", NEW g \in After(s)
    PROVE  g \in GwStatus /\ g # "none" /\ s \in After(s) /\ Later(g) \subseteq After(s)
BY DEF GwStatus, After, Later

\* What was success, or a failure, stays one.
LEMMA AfterIsStable ==
    ASSUME NEW s \in GwStatus, NEW g \in After(s)
    PROVE  /\ s \in {"success", "late"} => g \in {"success", "late"}
           /\ s \in {"failed", "expired", "marked", "late"} => g \in {"failed", "expired", "marked", "late"}
BY DEF GwStatus, After

\* A row that mirrors its job still does when the job moves on.
LEMMA MirrorsMoves ==
    ASSUME NEW r, NEW g \in GwStatus, NEW h \in Later(g), RowInv(r, g)
    PROVE  RowInv(r, h) /\ h \in GwStatus /\ h # "none"
BY DEF RowInv, Mirrors, Later, GwStatus

-----------------------------------------------------------------------------
(* Rows                                                                    *)

\* The fields of a row.
LEMMA RowFields ==
    ASSUME NEW r \in OutboxRow
    PROVE  /\ r.status \in RowStatus /\ r.gid \in BOOLEAN /\ r.err \in Errors /\ r.attempts \in Attempts
           /\ r.token \in 0..MaxClaims /\ r.stale \in BOOLEAN /\ r.printer \in Printers
           /\ r.reprints \in Nat /\ r.done \in BOOLEAN /\ r.key \in (0..MaxRows) \X Nat
BY DEF OutboxRow, RowStatus, Errors, Attempts

\* A row that exists is not the row that does not.
LEMMA NoRowIs ==
    /\ NoRow.status = "none" /\ NoRow.token = 0
    /\ \A r : r.status # "none" \/ r.token # 0 => r # NoRow
BY DEF NoRow

\* _stable_terminal_values leaves all but the status alone.
LEMMA SettledIs ==
    ASSUME NEW r \in OutboxRow, NEW s \in RowStatus
    PROVE  LET q == Settled(r, s)
           IN  /\ q \in OutboxRow /\ q.status = s /\ q.gid = r.gid /\ q.err = r.err /\ q.token = r.token
               /\ q.attempts = r.attempts /\ q.stale = r.stale /\ q.key = r.key
               /\ q.reprints = r.reprints /\ q.printer = r.printer
<1> DEFINE d == r.done \/ s \in Terminal
           q == [r EXCEPT !.status = s, !.done = d]
<1>1. Settled(r, s) = q
  BY Zenon DEF Settled
<1>2. d \in BOOLEAN
  OBVIOUS
<1> HIDE DEF d
<1>3. /\ q \in OutboxRow /\ q.status = s /\ q.gid = r.gid /\ q.err = r.err /\ q.token = r.token
      /\ q.attempts = r.attempts /\ q.stale = r.stale /\ q.key = r.key
      /\ q.reprints = r.reprints /\ q.printer = r.printer
  BY <1>2 DEF OutboxRow, RowStatus
<1> QED
  BY <1>1, <1>3, Zenon

\* The attempts and the error are written together.
LEMMA NotedIs ==
    ASSUME NEW r \in OutboxRow, NEW n \in Attempts, NEW e \in Errors
    PROVE  LET q == [r EXCEPT !.attempts = n, !.err = e]
           IN  /\ q \in OutboxRow /\ q.status = r.status /\ q.gid = r.gid /\ q.err = e /\ q.token = r.token
               /\ q.attempts = n /\ q.stale = r.stale /\ q.key = r.key
               /\ q.reprints = r.reprints /\ q.printer = r.printer
BY DEF OutboxRow, Attempts, Errors

\* The lease is released.
LEMMA ReleasedIs ==
    ASSUME NEW r \in OutboxRow, 0 \in 0..MaxClaims
    PROVE  LET q == Released(r)
           IN  /\ q \in OutboxRow /\ q.status = r.status /\ q.gid = r.gid /\ q.err = r.err /\ q.token = 0
               /\ q.attempts = r.attempts /\ ~q.stale /\ q.key = r.key
               /\ q.reprints = r.reprints /\ q.printer = r.printer
<1> DEFINE q == [r EXCEPT !.token = 0, !.stale = FALSE]
<1>1. /\ q \in OutboxRow /\ q.status = r.status /\ q.gid = r.gid /\ q.err = r.err /\ q.token = 0
      /\ q.attempts = r.attempts /\ q.stale = FALSE /\ q.key = r.key
      /\ q.reprints = r.reprints /\ q.printer = r.printer
  BY DEF OutboxRow
<1> QED
  BY <1>1, Zenon DEF Released

\* What an answer may make of a row: nothing but its status, its error, its attempts and
\* the job's id is written, and of these only what the answer says.
Written(q, r, resp, seen) ==
    /\ q \in OutboxRow /\ q.key = r.key /\ q.reprints = r.reprints /\ q.token = r.token /\ q.stale = r.stale
    /\ resp = "ok" => /\ q.gid /\ q.status \in {"submitted", "claimed", "success", "failed"}
                      /\ q.err # "ambiguous"
                      /\ q.status = "success" => seen \in {"success", "late"}
                      /\ q.status = "failed" => seen \in {"failed", "expired", "marked", "late"}
    /\ resp = "lost" => ~q.gid /\ q.status = "unknown"
    /\ resp \notin {"ok", "lost"} => /\ q.gid = r.gid /\ q.err # "ambiguous" /\ q.status \in {r.status, "failed"}
                                     /\ q.status = "queued" => q.attempts <= MAX_BILLING_PARK_ATTEMPTS

\* Refused, failed or never sent: back to the queue or given up.
LEMMA RetriedIs ==
    ASSUME OutboxAssumption, NEW r \in OutboxRow, ~r.gid, NEW n \in Attempts,
           NEW e \in {"rejected", "other", "connection"}, NEW resp, resp \notin {"ok", "lost"}, NEW seen
    PROVE  Written(Retried(r, n, e), r, resp, seen)
<1> DEFINE b == IF n >= MaxAttempts THEN Settled(r, "failed") ELSE r
           q == [b EXCEPT !.attempts = n, !.err = e]
<1>1. "failed" \in RowStatus /\ e \in Errors /\ e # "ambiguous"
  BY DEF RowStatus, Terminal, Errors
<1>2. /\ b \in OutboxRow /\ b.gid = r.gid /\ b.token = r.token /\ b.stale = r.stale /\ b.key = r.key
      /\ b.reprints = r.reprints /\ b.status \in {r.status, "failed"}
      /\ b.status = "queued" => n < MaxAttempts
  <2>1. CASE n >= MaxAttempts
    BY <1>1, <2>1, SettledIs
  <2>2. CASE ~(n >= MaxAttempts)
    BY <2>2 DEF Attempts, OutboxAssumption
  <2> QED
    BY <2>1, <2>2
<1> HIDE DEF b
<1>3. /\ q \in OutboxRow /\ q.status = b.status /\ q.gid = b.gid /\ q.err = e /\ q.token = b.token
      /\ q.attempts = n /\ q.stale = b.stale /\ q.key = b.key /\ q.reprints = b.reprints
  BY <1>1, <1>2 DEF OutboxRow, Attempts, Errors
<1>4. Retried(r, n, e) = q
  BY Zenon DEF Retried, b
<1>5. q.status = "queued" => q.attempts <= MAX_BILLING_PARK_ATTEMPTS
  BY <1>2, <1>3 DEF OutboxAssumption, Attempts
<1> HIDE DEF q
<1> QED
  BY <1>1, <1>2, <1>3, <1>4, <1>5 DEF Written

\* Parked: the attempts are frozen at the cap.
LEMMA ParkedIs ==
    ASSUME OutboxAssumption, NEW r \in OutboxRow, ~r.gid, NEW n \in Attempts, NEW resp, resp \notin {"ok", "lost"},
           NEW seen
    PROVE  Written(BillingRetry(r, n), r, resp, seen)
<1> DEFINE m == IF n > MAX_BILLING_PARK_ATTEMPTS THEN n - 1 ELSE n
           q == [r EXCEPT !.attempts = m, !.err = "retry"]
<1>1. m \in Attempts /\ m <= MAX_BILLING_PARK_ATTEMPTS /\ "retry" \in Errors
  BY DEF Attempts, OutboxAssumption, Errors
<1> HIDE DEF m
<1>2. /\ q \in OutboxRow /\ q.status = r.status /\ q.gid = r.gid /\ q.err = "retry" /\ q.token = r.token
      /\ q.attempts = m /\ q.stale = r.stale /\ q.key = r.key /\ q.reprints = r.reprints
  BY <1>1 DEF OutboxRow, Attempts, Errors
<1>3. BillingRetry(r, n) = q
  BY Zenon DEF BillingRetry, m
<1> HIDE DEF q
<1> QED
  BY <1>1, <1>2, <1>3 DEF Written

\* A lost answer: the outcome is unknown.
LEMMA AmbiguousIs ==
    ASSUME NEW r \in OutboxRow, ~r.gid, NEW n \in Attempts, NEW seen
    PROVE  Written(Ambiguous(r, n), r, "lost", seen)
<1> DEFINE b == Settled(r, "unknown")
           q == [b EXCEPT !.attempts = n, !.err = "ambiguous", !.done = r.done]
<1>1. "unknown" \in RowStatus /\ "ambiguous" \in Errors /\ r.done \in BOOLEAN
  BY RowFields DEF RowStatus, Terminal, Errors, Markers
<1>2. /\ b \in OutboxRow /\ b.status = "unknown" /\ b.gid = r.gid /\ b.token = r.token /\ b.stale = r.stale
      /\ b.key = r.key /\ b.reprints = r.reprints
  BY <1>1, SettledIs, Zenon
<1> HIDE DEF b
<1>3. /\ q \in OutboxRow /\ q.status = b.status /\ q.gid = b.gid /\ q.token = b.token
      /\ q.stale = b.stale /\ q.key = b.key /\ q.reprints = b.reprints
  BY <1>1, <1>2 DEF OutboxRow, Attempts, Errors
<1>4. Ambiguous(r, n) = q
  BY Zenon DEF Ambiguous, b
<1> HIDE DEF q
<1> QED
  BY <1>1, <1>2, <1>3, <1>4 DEF Written

\* The Gateway's answer for an accepted job.
LEMMA ReportedIs ==
    ASSUME NEW r \in OutboxRow, NEW n \in Attempts, NEW seen \in GwStatus, seen # "none"
    PROVE  Written(Reported(r, n, seen), r, "ok", seen)
<1> DEFINE s == CASE seen = "queued" -> "submitted" [] seen = "claimed" -> "claimed"
                  [] seen \in {"success", "late"} -> "success" [] OTHER -> "failed"
           e == CASE seen = "marked" -> "marker" [] seen \in {"failed", "expired"} -> "other"
                  [] OTHER -> "none"
           b == Settled(r, s)
           q == [b EXCEPT !.attempts = n, !.gid = TRUE, !.err = e]
<1>1. /\ s \in RowStatus /\ e \in Errors /\ e # "ambiguous"
      /\ s \in {"submitted", "claimed", "success", "failed"}
      /\ s = "success" => seen \in {"success", "late"}
      /\ s = "failed" => seen \in {"failed", "expired", "marked", "late"}
  BY DEF RowStatus, Terminal, Errors, Markers, GwStatus
<1>2. Reported(r, n, seen) = q
  BY DEF Reported, GwStatus
<1> HIDE DEF s, e
<1>3. /\ b \in OutboxRow /\ b.status = s /\ b.gid = r.gid /\ b.token = r.token /\ b.stale = r.stale
      /\ b.key = r.key /\ b.reprints = r.reprints
  BY <1>1, SettledIs, Zenon
<1> HIDE DEF b
<1>4. /\ q \in OutboxRow /\ q.status = b.status /\ q.gid = TRUE /\ q.err = e /\ q.token = b.token
      /\ q.stale = b.stale /\ q.key = b.key /\ q.reprints = b.reprints
  <2>1. /\ q.status = b.status /\ q.gid = TRUE /\ q.err = e /\ q.token = b.token
        /\ q.stale = b.stale /\ q.key = b.key /\ q.reprints = b.reprints
    BY <1>3 DEF OutboxRow
  <2>2. q \in OutboxRow
    BY <1>1, <1>3 DEF OutboxRow, Attempts, Errors
  <2> QED
    BY <2>1, <2>2, Zenon
<1> HIDE DEF q
<1> QED
  BY <1>1, <1>2, <1>3, <1>4 DEF Written

\* _action_submit_trusted, after the answer.
LEMMA OutcomeIs ==
    ASSUME OutboxAssumption, NEW w, work[w] \in Worker, work[w].resp # "none",
           work[w].resp = "ok" => work[w].seen # "none", NEW r \in OutboxRow, ~r.gid
    PROVE  Written(Outcome(w, r), r, work[w].resp, work[w].seen)
<1> DEFINE x == work[w]
           n == x.attempts + 1
<1>1. n \in Attempts /\ x.resp \in Resps /\ x.seen \in GwStatus
  BY DEF Worker, Attempts, OutboxAssumption
<1> HIDE DEF n
<1>2. CASE x.resp = "ok"
  <2>1. Outcome(w, r) = Reported(r, n, x.seen)
    BY <1>2 DEF Outcome, n
  <2> QED
    BY <1>1, <1>2, <2>1, ReportedIs, Zenon
<1>3. CASE x.resp = "lost"
  <2>1. Outcome(w, r) = Ambiguous(r, n)
    BY <1>3 DEF Outcome, n
  <2> QED
    BY <1>1, <1>3, <2>1, AmbiguousIs, Zenon
<1>4. CASE x.resp = "retry"
  <2>1. Outcome(w, r) = BillingRetry(r, n)
    BY <1>4 DEF Outcome, n
  <2> QED
    BY <1>1, <1>4, <2>1, ParkedIs
<1>5. CASE x.resp = "offline"
  <2>1. Outcome(w, r) = Retried(r, n, "rejected")
    BY <1>5 DEF Outcome, n
  <2> QED
    BY <1>1, <1>5, <2>1, RetriedIs
<1>6. CASE x.resp = "http5xx"
  <2>1. Outcome(w, r) = Retried(r, n, "other")
    BY <1>6 DEF Outcome, n
  <2> QED
    BY <1>1, <1>6, <2>1, RetriedIs
<1>7. CASE x.resp = "unsent"
  <2>1. Outcome(w, r) = Retried(r, n, "connection")
    BY <1>7 DEF Outcome, n
  <2> QED
    BY <1>1, <1>7, <2>1, RetriedIs
<1>8. CASE x.resp = "rejected"
  <2> DEFINE b == Settled(r, "failed")
             q == [b EXCEPT !.attempts = n, !.err = "rejected"]
  <2>1. Outcome(w, r) = q
    BY <1>8 DEF Outcome, n
  <2>2. "failed" \in RowStatus /\ "rejected" \in Errors
    BY DEF RowStatus, Terminal, Errors
  <2>3. /\ b \in OutboxRow /\ b.status = "failed" /\ b.gid = r.gid /\ b.token = r.token /\ b.stale = r.stale
        /\ b.key = r.key /\ b.reprints = r.reprints
    BY <2>2, SettledIs, Zenon
  <2> HIDE DEF b
  <2>4. /\ q \in OutboxRow /\ q.status = b.status /\ q.gid = b.gid /\ q.err = "rejected" /\ q.token = b.token
        /\ q.stale = b.stale /\ q.key = b.key /\ q.reprints = b.reprints
    BY <1>1, <2>2, <2>3 DEF OutboxRow, Attempts, Errors
  <2> HIDE DEF q
  <2> QED
    BY <1>8, <2>1, <2>3, <2>4 DEF Written
<1> QED
  BY <1>1, <1>2, <1>3, <1>4, <1>5, <1>6, <1>7, <1>8 DEF Resps

\* The recorded answer keeps the row true to its job.
LEMMA RecordedFits ==
    ASSUME OutboxAssumption, NEW q, NEW r, NEW resp, NEW seen \in GwStatus, Written(q, r, resp, seen),
           ~r.gid, r.status = "queued", NEW g, resp = "ok" => seen # "none" /\ g \in After(seen)
    PROVE  RowInv(Released(q), g)
<1> DEFINE p == Released(q)
<1>1. q \in OutboxRow /\ 0 \in 0..MaxClaims
  BY DEF Written, OutboxAssumption
<1>2. /\ p \in OutboxRow /\ p.status = q.status /\ p.gid = q.gid /\ p.err = q.err /\ p.token = 0
      /\ p.attempts = q.attempts
  BY <1>1, ReleasedIs
<1> HIDE DEF p
<1>3. CASE resp = "ok"
  <2>1. /\ g # "none"
        /\ seen \in {"success", "late"} => g \in {"success", "late"}
        /\ seen \in {"failed", "expired", "marked", "late"} => g \in {"failed", "expired", "marked", "late"}
    BY <1>3, AfterMoves, AfterIsStable
  <2> QED
    BY <1>2, <1>3, <2>1 DEF Written, RowInv, Mirrors, p
<1>4. CASE resp = "lost"
  BY <1>2, <1>4 DEF Written, RowInv, Mirrors, p
<1>5. CASE resp \notin {"ok", "lost"}
  BY <1>2, <1>5 DEF Written, RowInv, Mirrors, p
<1> QED
  BY <1>3, <1>4, <1>5

\* What the synchronisation makes of row r when it was told b.
Answered(r, gid, b) ==
    IF b = "none" THEN MarkMissing(r, gid)
    ELSE IF gid THEN (IF r.gid THEN Synced(r, b) ELSE r)
    ELSE IF Identified(r).gid THEN Synced(Identified(r), b) ELSE r

\* What it may change of the row: it neither queues nor offers it for retry.
Polled(q, r) ==
    /\ q \in OutboxRow /\ q.key = r.key /\ q.reprints = r.reprints /\ q.token = r.token /\ q.stale = r.stale
    /\ q.status \in {"queued", "none"} => q = r
    /\ Offered(q) => q = r

\* A row with the job's id follows what the Gateway said.
LEMMA SyncedFits ==
    ASSUME NEW r, NEW g, RowInv(r, g), r.gid, NEW b \in GwStatus, b # "none", g \in After(b)
    PROVE  RowInv(Synced(r, b), g) /\ Polled(Synced(r, b), r)
<1> DEFINE s == RemoteStatus(b)
           e == RemoteError(b)
           k == Settled(r, s)
           q == [k EXCEPT !.err = e]
<1>1. /\ s \in RowStatus /\ s \in {"submitted", "claimed", "success", "failed", "unknown"}
      /\ e \in Errors /\ e # "ambiguous"
      /\ s = "success" => b \in {"success", "late"}
      /\ s = "failed" => b \in {"failed", "expired"}
  BY DEF GwStatus, RemoteStatus, RemoteError, RowStatus, Terminal, Errors, Markers
<1>2. /\ g # "none"
      /\ s = "success" => g \in {"success", "late"}
      /\ s = "failed" => g \in {"failed", "expired", "marked", "late"}
  BY <1>1, AfterMoves, AfterIsStable
<1>3. Synced(r, b) = q \/ Synced(r, b) = r
  BY Zenon DEF Synced
<1> HIDE DEF s, e
<1>4. r \in OutboxRow /\ r.token = 0 /\ r.status \notin {"queued", "none"}
  BY DEF RowInv
<1>5. /\ k \in OutboxRow /\ k.status = s /\ k.gid = r.gid /\ k.token = r.token /\ k.stale = r.stale
      /\ k.key = r.key /\ k.reprints = r.reprints
  BY <1>1, <1>4, SettledIs, Zenon
<1> HIDE DEF k
<1>6. /\ q \in OutboxRow /\ q.status = k.status /\ q.gid = k.gid /\ q.err = e /\ q.token = k.token
      /\ q.stale = k.stale /\ q.key = k.key /\ q.reprints = k.reprints
  BY <1>1, <1>5 DEF OutboxRow, Errors
<1> HIDE DEF q
<1>7. RowInv(q, g)
  BY <1>1, <1>2, <1>4, <1>5, <1>6 DEF RowInv, Mirrors
<1>8. Polled(q, r)
  BY <1>1, <1>4, <1>5, <1>6 DEF Polled, Offered, PhysicalOutcome, Markers
<1>9. Polled(r, r)
  BY <1>4 DEF Polled
<1> QED
  BY <1>3, <1>7, <1>8, <1>9, Zenon

\* A 404 makes the outcome unknown.
LEMMA MissingFits ==
    ASSUME NEW r, NEW g, RowInv(r, g), NEW gid \in BOOLEAN
    PROVE  RowInv(MarkMissing(r, gid), g) /\ Polled(MarkMissing(r, gid), r)
<1> DEFINE k == Settled(r, "unknown")
           q == [k EXCEPT !.err = "missing"]
<1>1. r \in OutboxRow /\ "unknown" \in RowStatus /\ "missing" \in Errors
  BY DEF RowInv, RowStatus, Terminal, Errors
<1>2. /\ k \in OutboxRow /\ k.status = "unknown" /\ k.gid = r.gid /\ k.err = r.err /\ k.token = r.token
      /\ k.stale = r.stale /\ k.key = r.key /\ k.reprints = r.reprints
  BY <1>1, SettledIs, Zenon
<1>3. \/ MarkMissing(r, gid) = r
      \/ MarkMissing(r, gid) = k
      \/ MarkMissing(r, gid) = q
  BY Zenon DEF MarkMissing
<1> HIDE DEF k
<1>4. /\ q \in OutboxRow /\ q.status = k.status /\ q.gid = k.gid /\ q.err = "missing" /\ q.token = k.token
      /\ q.stale = k.stale /\ q.key = k.key /\ q.reprints = k.reprints
  BY <1>1, <1>2 DEF OutboxRow, Errors
<1> HIDE DEF q
<1>5. RowInv(k, g) /\ RowInv(q, g)
  BY <1>2, <1>4 DEF RowInv, Mirrors
<1>6. Polled(r, r) /\ Polled(k, r) /\ Polled(q, r)
  BY <1>1, <1>2, <1>4 DEF Polled, Offered
<1> QED
  BY <1>3, <1>5, <1>6

\* cron_sync_status, after the Gateway's answer.
LEMMA AnsweredFits ==
    ASSUME NEW r, NEW g, RowInv(r, g), NEW gid \in BOOLEAN, NEW b \in GwStatus, b # "none" => g \in After(b)
    PROVE  RowInv(Answered(r, gid, b), g) /\ Polled(Answered(r, gid, b), r)
<1> DEFINE i == Identified(r)
           q == [r EXCEPT !.gid = TRUE]
<1>1. r \in OutboxRow /\ Polled(r, r)
  BY DEF RowInv, Polled
<1>2. CASE b = "none"
  BY <1>2, MissingFits DEF Answered
<1>3. CASE b # "none" /\ r.gid
  <2>1. Identified(r) = r
    BY <1>3, Zenon DEF Identified
  <2>2. Answered(r, gid, b) \in {Synced(r, b), r}
    BY <1>3, <2>1 DEF Answered
  <2>3. RowInv(Synced(r, b), g) /\ Polled(Synced(r, b), r)
    BY <1>3, SyncedFits
  <2> QED
    BY <1>1, <2>2, <2>3
<1>4. CASE b # "none" /\ ~r.gid
  <2>1. CASE gid \/ ~(r.status = "unknown" /\ r.err = "ambiguous")
    <3>1. Answered(r, gid, b) = r
      BY <1>4, <2>1 DEF Answered, Identified
    <3> QED
      BY <1>1, <3>1
  <2>2. CASE ~gid /\ r.status = "unknown" /\ r.err = "ambiguous"
    <3>1. Answered(r, gid, b) = IF q.gid THEN Synced(q, b) ELSE r
      BY <1>4, <2>2 DEF Answered, Identified
    <3>2. /\ q \in OutboxRow /\ q.gid = TRUE /\ q.status = r.status /\ q.err = r.err /\ q.token = r.token
          /\ q.stale = r.stale /\ q.key = r.key /\ q.reprints = r.reprints
      BY <1>1 DEF OutboxRow
    <3> HIDE DEF q
    <3>3. g # "none"
      BY <1>4, AfterMoves
    <3>4. RowInv(q, g)
      BY <2>2, <3>2, <3>3 DEF RowInv, Mirrors
    <3>5. RowInv(Synced(q, b), g) /\ Polled(Synced(q, b), q)
      BY <1>4, <3>2, <3>4, SyncedFits
    <3>6. Polled(Synced(q, b), r)
      BY <2>2, <3>2, <3>5 DEF Polled, Offered
    <3> QED
      BY <3>1, <3>2, <3>5, <3>6
  <2> QED
    BY <2>1, <2>2
<1> QED
  BY <1>2, <1>3, <1>4

-----------------------------------------------------------------------------
(* The Gateway's jobs                                                      *)

\* Jobs appear and move on, and do nothing else.
Moves(J, K) ==
    /\ K \in [Ids -> Job]
    /\ \A i \in Ids : K[i].status = J[i].status \/ K[i].status \in Later(J[i].status) \/ J[i].status = "none"

\* What was told stays behind a job that moves on.
LEMMA TellsMove ==
    ASSUME NEW J \in [Ids -> Job], NEW K, Moves(J, K), NEW i \in Ids, NEW s \in GwStatus, s # "none",
           J[i].status \in After(s)
    PROVE  K[i].status \in After(s)
<1>1. J[i].status # "none" /\ Later(J[i].status) \subseteq After(s)
  BY AfterMoves
<1> QED
  BY <1>1 DEF Moves

\* Everyone who looks at the jobs stays right when they move on.
LEMMA JobsMove ==
    ASSUME NEW J \in [Ids -> Job], NEW K, Moves(J, K)
    PROVE  /\ \A i \in Ids : \A r : RowInv(r, J[i].status) => RowInv(r, K[i].status)
           /\ \A x : WorkInv(x, J) => WorkInv(x, K)
           /\ \A y : SyncInv(y, J) => SyncInv(y, K)
<1>1. ASSUME NEW i \in Ids, NEW r, RowInv(r, J[i].status)
      PROVE  RowInv(r, K[i].status)
  <2>1. J[i].status \in GwStatus
    BY DEF Job
  <2>2. CASE K[i].status = J[i].status
    BY <1>1, <2>2
  <2>3. CASE K[i].status \in Later(J[i].status)
    BY <1>1, <2>1, <2>3, MirrorsMoves
  <2>4. CASE J[i].status = "none"
    BY <1>1, <2>4 DEF RowInv, Mirrors
  <2> QED
    BY <2>2, <2>3, <2>4 DEF Moves
<1>2. ASSUME NEW x, WorkInv(x, J)
      PROVE  WorkInv(x, K)
  <2>1. x.row \in Ids /\ x.seen \in GwStatus
    BY <1>2 DEF WorkInv, Worker
  <2>2. (x.seen # "none" /\ J[x.row].status \in After(x.seen)) => K[x.row].status \in After(x.seen)
    BY <2>1, TellsMove
  <2> QED
    BY <1>2, <2>2 DEF WorkInv
<1>3. ASSUME NEW y, SyncInv(y, J)
      PROVE  SyncInv(y, K)
  <2>1. y.row \in Ids /\ y.body \in GwStatus
    BY <1>3 DEF SyncInv, Sync
  <2>2. (y.body # "none" /\ J[y.row].status \in After(y.body)) => K[y.row].status \in After(y.body)
    BY <2>1, TellsMove
  <2> QED
    BY <1>3, <2>2 DEF SyncInv
<1> QED
  BY <1>1, <1>2, <1>3

\* The job of a request, created or there before.
LEMMA AcceptedMoves ==
    ASSUME NEW q \in Sent, gw \in [Ids -> Job]
    PROVE  Moves(gw, Accepted(q)) /\ Accepted(q)[q.row].status # "none"
<1> DEFINE n == [status |-> "queued", printer |-> q.printer, seen |-> TRUE]
<1>1. q.row \in Ids /\ n \in Job /\ n.status # "none"
  BY DEF Sent, Job, GwStatus
<1> HIDE DEF n
<1>2. CASE gw[q.row].status # "none"
  BY <1>2 DEF Accepted, Moves
<1>3. CASE gw[q.row].status = "none"
  <2>1. Accepted(q) = [gw EXCEPT ![q.row] = n]
    BY <1>3 DEF Accepted, n
  <2> QED
    BY <1>1, <1>3, <2>1 DEF Moves
<1> QED
  BY <1>2, <1>3

\* Standing still is a way to move.
LEMMA NoMove == ASSUME gw \in [Ids -> Job] PROVE Moves(gw, gw)
BY DEF Moves

-----------------------------------------------------------------------------
(* Steps                                                                   *)

\* A step in which the jobs move on, and worker w becomes x.
LEMMA WorkerStep ==
    ASSUME IInv, NEW w \in Workers, NEW x, PutW(w, x), Moves(gw, gw'), WorkInv(x, gw'),
           rows' = [i \in Ids |-> rows'[i]], \A i \in Ids : RowInv(rows'[i], gw'[i].status),
           late' \subseteq Sent, claims' \in 0..MaxClaims, UNCHANGED <<sync, ops>>
    PROVE  IInv'
<1>1. gw \in [Ids -> Job] /\ gw' \in [Ids -> Job]
  BY DEF IInv, Moves
<1>2. \A v \in Workers : WorkInv(work[v], gw')
  BY <1>1, JobsMove, Zenon DEF IInv
<1>3. SyncInv(sync, gw')
  BY <1>1, JobsMove, Zenon DEF IInv
<1>4. work'[w] = x /\ \A v \in Workers : v # w => work'[v] = work[v]
  BY DEF IInv, PutW
<1>5. work' = [v \in Workers |-> work'[v]]
  BY DEF IInv, PutW
<1>6. \A v \in Workers : WorkInv(work'[v], gw')
  BY <1>2, <1>4
<1> QED
  BY <1>1, <1>3, <1>5, <1>6 DEF IInv

\* The rows stay right while the jobs move on.
LEMMA RowsKept ==
    ASSUME IInv, Moves(gw, gw'), rows' = rows
    PROVE  rows' = [i \in Ids |-> rows'[i]] /\ \A i \in Ids : RowInv(rows'[i], gw'[i].status)
<1>1. gw \in [Ids -> Job]
  BY DEF IInv
<1>2. \A i \in Ids : RowInv(rows[i], gw'[i].status)
  BY <1>1, JobsMove, Zenon DEF IInv
<1>3. rows = [i \in Ids |-> rows[i]]
  BY Zenon DEF IInv
<1> QED
  BY <1>2, <1>3

\* One row changes and the jobs do not.
LEMMA RowPut ==
    ASSUME IInv, NEW i \in Ids, NEW r, rows' = [rows EXCEPT ![i] = r], RowInv(r, gw[i].status), gw' = gw
    PROVE  rows' = [k \in Ids |-> rows'[k]] /\ \A k \in Ids : RowInv(rows'[k], gw'[k].status)
<1>1. /\ rows' = [k \in Ids |-> rows'[k]] /\ rows'[i] = r
      /\ \A k \in Ids : k # i => rows'[k] = rows[k]
  BY DEF IInv
<1>2. \A k \in Ids : RowInv(rows[k], gw[k].status)
  BY Zenon DEF IInv
<1> QED
  BY <1>1, <1>2

\* A worker that does nothing.
LEMMA IdleFits ==
    ASSUME OutboxAssumption, NEW J
    PROVE  WorkInv(IdleW, J) /\ IdleW \in Worker /\ IdleW.pc = "idle"
<1>1. IdleW \in Worker /\ IdleW.pc = "idle"
  BY DEF IdleW, Worker, Ids, Printers, Resps, GwStatus, OutboxAssumption
<1> QED
  BY <1>1 DEF WorkInv

\* The row is read.
LEMMA LoadStep ==
    ASSUME OutboxAssumption, IInv, NEW w \in Workers, NEW i \in Ids, load(w, i)
    PROVE  IInv'
<1> DEFINE x == [IdleW EXCEPT !.pc = "loaded", !.row = i, !.attempts = rows[i].attempts,
                              !.printer = rows[i].printer]
<1>1. PutW(w, x) /\ UNCHANGED <<rows, gw, late, claims, sync, ops>>
  BY Zenon DEF load
<1>2. rows[i] \in OutboxRow /\ rows[i].attempts <= MAX_BILLING_PARK_ATTEMPTS
  BY DEF load, IInv, RowInv
<1>3. rows[i].attempts \in 0..MAX_BILLING_PARK_ATTEMPTS /\ rows[i].printer \in Printers
  BY <1>2, RowFields DEF Attempts, OutboxAssumption
<1>4. x \in Worker /\ x.pc = "loaded"
  BY <1>3, IdleFits DEF Worker
<1> HIDE DEF x
<1>5. WorkInv(x, gw')
  BY <1>4 DEF WorkInv
<1>6. Moves(gw, gw') /\ late' \subseteq Sent /\ claims' \in 0..MaxClaims
  BY <1>1, NoMove DEF IInv
<1> QED
  BY <1>1, <1>5, <1>6, RowsKept, WorkerStep, Zenon

\* A lease is taken, or the row is left.
LEMMA ClaimStep ==
    ASSUME OutboxAssumption, IInv, NEW w \in Workers, claimLease(w)
    PROVE  IInv'
<1> DEFINE i == work[w].row
<1>1. /\ work[w].pc = "loaded" /\ UNCHANGED <<gw, late, sync, ops>> /\ WorkInv(work[w], gw)
      /\ IF Claimable(rows[i])
         THEN /\ claims < MaxClaims /\ claims' = claims + 1
              /\ rows' = [rows EXCEPT ![i].token = claims + 1, ![i].stale = FALSE]
              /\ PutW(w, [work[w] EXCEPT !.pc = "claimed", !.token = claims + 1])
         ELSE PutW(w, IdleW) /\ rows' = rows /\ claims' = claims
  BY Zenon DEF claimLease, IInv
<1>2. Moves(gw, gw') /\ late' \subseteq Sent /\ gw' = gw /\ work[w] \in Worker /\ i \in Ids
  BY <1>1, NoMove DEF IInv, WorkInv, Worker
<1>3. CASE Claimable(rows[i])
  <2> DEFINE c == claims + 1
             r == [rows[i] EXCEPT !.token = c, !.stale = FALSE]
             x == [work[w] EXCEPT !.pc = "claimed", !.token = c]
  <2>1. c \in 0..MaxClaims /\ c # 0 /\ claims' = c /\ PutW(w, x)
    BY <1>1, <1>3 DEF IInv, OutboxAssumption
  <2>2. rows' = [rows EXCEPT ![i] = r]
    BY <1>1, <1>2, <1>3 DEF IInv
  <2> HIDE DEF c, i
  <2>3. RowInv(rows[i], gw[i].status) /\ ~rows[i].gid /\ rows[i].status \notin Terminal \cup {"none"}
    BY <1>2, <1>3 DEF IInv, Claimable
  <2>4. /\ r \in OutboxRow /\ r.status = rows[i].status /\ r.gid = rows[i].gid /\ r.err = rows[i].err
        /\ r.attempts = rows[i].attempts
    BY <2>1, <2>3 DEF OutboxRow, RowInv
  <2> HIDE DEF r
  <2>5. RowInv(r, gw[i].status)
    BY <2>3, <2>4 DEF RowInv, Mirrors, Terminal
  <2>6. x \in Worker /\ x.pc = "claimed" /\ x.token = c
    BY <1>2, <2>1 DEF Worker
  <2> HIDE DEF x
  <2>7. WorkInv(x, gw')
    BY <2>1, <2>6 DEF WorkInv
  <2>8. rows' = [k \in Ids |-> rows'[k]] /\ \A k \in Ids : RowInv(rows'[k], gw'[k].status)
    BY <1>2, <2>2, <2>5, RowPut, Zenon
  <2> QED
    BY <1>1, <1>2, <2>1, <2>7, <2>8, WorkerStep, Zenon
<1>4. CASE ~Claimable(rows[i])
  <2>1. PutW(w, IdleW) /\ rows' = rows /\ claims' \in 0..MaxClaims /\ WorkInv(IdleW, gw')
    BY <1>1, <1>4, IdleFits, Zenon DEF IInv
  <2> QED
    BY <1>1, <1>2, <2>1, RowsKept, WorkerStep, Zenon
<1> QED
  BY <1>3, <1>4

\* 120 seconds pass.
LEMMA ExpireStep ==
    ASSUME IInv, NEW i \in Ids, expireLease(i)
    PROVE  IInv'
<1> DEFINE r == [rows[i] EXCEPT !.stale = TRUE]
<1>1. rows' = [rows EXCEPT ![i] = r] /\ UNCHANGED <<gw, late, work, claims, sync, ops>>
  BY DEF expireLease, IInv
<1>2. RowInv(rows[i], gw[i].status)
  BY Zenon DEF IInv
<1>3. /\ r \in OutboxRow /\ r.status = rows[i].status /\ r.gid = rows[i].gid /\ r.err = rows[i].err
      /\ r.attempts = rows[i].attempts /\ r.token = rows[i].token
  BY <1>2 DEF OutboxRow, RowInv
<1> HIDE DEF r
<1>4. RowInv(r, gw[i].status)
  BY <1>2, <1>3 DEF RowInv, Mirrors
<1>5. rows' = [k \in Ids |-> rows'[k]] /\ \A k \in Ids : RowInv(rows'[k], gw'[k].status)
  BY <1>1, <1>4, RowPut, Zenon
<1> QED
  BY <1>1, <1>5 DEF IInv

\* A request is answered a while the jobs move on.
LEMMA AnswerStep ==
    ASSUME IInv, NEW w \in Workers, work[w].pc = "claimed", NEW a \in Resps, a # "none", Answer(w, a),
           Moves(gw, gw'), a = "ok" => gw'[work[w].row].status # "none",
           late' \subseteq Sent, UNCHANGED <<rows, claims, sync, ops>>
    PROVE  IInv'
<1> DEFINE s == gw'[work[w].row].status
           x == [work[w] EXCEPT !.pc = "answered", !.resp = a, !.seen = s]
<1>1. WorkInv(work[w], gw) /\ PutW(w, x)
  BY Zenon DEF IInv, Answer
<1>2. s \in GwStatus
  BY <1>1 DEF Moves, Job, WorkInv, Worker
<1> HIDE DEF s
<1>3. x \in Worker /\ x.pc = "answered" /\ x.resp = a /\ x.seen = s /\ x.row = work[w].row /\ x.token # 0
  BY <1>1, <1>2 DEF WorkInv, Worker
<1> HIDE DEF x
<1>4. a = "ok" => s # "none" /\ gw'[x.row].status \in After(s)
  BY <1>2, <1>3 DEF s, After, GwStatus
<1>5. WorkInv(x, gw')
  BY <1>3, <1>4 DEF WorkInv
<1>6. claims' \in 0..MaxClaims
  BY DEF IInv
<1> QED
  BY <1>1, <1>5, <1>6, RowsKept, WorkerStep, Zenon

\* The request of a worker.
LEMMA RequestIs ==
    ASSUME IInv, NEW w \in Workers
    PROVE  /\ PostRequest(w) \in Sent /\ PostRequest(w).row = work[w].row /\ Moves(gw, gw) /\ late \subseteq Sent
           /\ Moves(gw, Accepted(PostRequest(w))) /\ Accepted(PostRequest(w))[work[w].row].status # "none"
<1>1. work[w] \in Worker /\ gw \in [Ids -> Job] /\ late \subseteq Sent
  BY DEF IInv, WorkInv
<1>2. PostRequest(w) \in Sent /\ PostRequest(w).row = work[w].row
  BY <1>1 DEF PostRequest, Sent, Worker
<1>3. Moves(gw, Accepted(PostRequest(w))) /\ Accepted(PostRequest(w))[PostRequest(w).row].status # "none"
  BY <1>1, <1>2, AcceptedMoves
<1> QED
  BY <1>1, <1>2, <1>3, NoMove

\* requests.post.
LEMMA PostStep ==
    ASSUME OutboxAssumption, IInv, NEW w \in Workers,
           postAccepted(w) \/ postFailed(w) \/ postUnsent(w) \/ postLost(w) \/ \E a \in Refusals : postRefused(w, a)
    PROVE  IInv'
<1>1. CASE postAccepted(w)
  <2> DEFINE a == IF Conflicts(PostRequest(w)) THEN "rejected" ELSE "ok"
  <2>1. a \in Resps /\ a # "none"
    BY DEF Resps
  <2>2. /\ Answer(w, a) /\ gw' = Accepted(PostRequest(w)) /\ UNCHANGED <<rows, claims, sync, ops>> /\ late' = late
        /\ work[w].pc = "claimed"
    BY <1>1, Zenon DEF postAccepted
  <2> HIDE DEF a
  <2>3. Moves(gw, gw') /\ gw'[work[w].row].status # "none" /\ late' \subseteq Sent
    BY <2>2, RequestIs
  <2> QED
    BY <2>1, <2>2, <2>3, AnswerStep
<1>2. CASE postFailed(w)
  <2>1. "http5xx" \in Resps /\ "http5xx" # "none" /\ "http5xx" # "ok"
    BY DEF Resps
  <2>2. /\ Answer(w, "http5xx") /\ gw' \in {gw, Accepted(PostRequest(w))}
        /\ UNCHANGED <<rows, claims, sync, ops>> /\ late' = late /\ work[w].pc = "claimed"
    BY <1>2, Zenon DEF postFailed
  <2>3. Moves(gw, gw') /\ late' \subseteq Sent
    BY <2>2, RequestIs
  <2> QED
    BY <2>1, <2>2, <2>3, AnswerStep
<1>3. CASE postUnsent(w)
  <2>1. "unsent" \in Resps /\ "unsent" # "none" /\ "unsent" # "ok"
    BY DEF Resps
  <2>2. /\ Answer(w, "unsent") /\ gw' = gw
        /\ UNCHANGED <<rows, claims, sync, ops>> /\ late' = late /\ work[w].pc = "claimed"
    BY <1>3, Zenon DEF postUnsent
  <2>3. Moves(gw, gw') /\ late' \subseteq Sent
    BY <2>2, RequestIs
  <2> QED
    BY <2>1, <2>2, <2>3, AnswerStep
<1>4. CASE postLost(w)
  <2>1. "lost" \in Resps /\ "lost" # "none" /\ "lost" # "ok"
    BY DEF Resps
  <2>2. /\ Answer(w, "lost") /\ gw' = gw
        /\ UNCHANGED <<rows, claims, sync, ops>> /\ late' = late \cup {PostRequest(w)} /\ work[w].pc = "claimed"
    BY <1>4, Zenon DEF postLost
  <2>3. Moves(gw, gw') /\ late' \subseteq Sent
    BY <2>2, RequestIs
  <2> QED
    BY <2>1, <2>2, <2>3, AnswerStep
<1>5. ASSUME NEW a \in Refusals, postRefused(w, a)
      PROVE  IInv'
  <2>1. a \in Resps /\ a # "none" /\ a # "ok"
    BY <1>5 DEF Resps, OutboxAssumption
  <2>2. /\ Answer(w, a) /\ gw' = gw
        /\ UNCHANGED <<rows, claims, sync, ops>> /\ late' = late /\ work[w].pc = "claimed"
    BY <1>5, Zenon DEF postRefused
  <2>3. Moves(gw, gw') /\ late' \subseteq Sent
    BY <2>2, RequestIs
  <2> QED
    BY <2>1, <2>2, <2>3, AnswerStep
<1> QED
  BY <1>1, <1>2, <1>3, <1>4, <1>5

\* The worker's process dies.
LEMMA CrashStep ==
    ASSUME OutboxAssumption, IInv, NEW w \in Workers, crash(w)
    PROVE  IInv'
<1>1. PutW(w, IdleW) /\ UNCHANGED <<rows, gw, claims, sync, ops>> /\ WorkInv(IdleW, gw')
  BY IdleFits DEF crash
<1>2. late' = late \/ late' = late \cup {PostRequest(w)}
  BY DEF crash
<1>3. late' \subseteq Sent /\ Moves(gw, gw') /\ claims' \in 0..MaxClaims
  BY <1>1, <1>2, RequestIs DEF IInv
<1> QED
  BY <1>1, <1>3, RowsKept, WorkerStep, Zenon

\* A row whose lease a worker holds has no job's id yet.
LEMMA OwnedIs ==
    ASSUME IInv, NEW w \in Workers, work[w].pc = "answered", Owns(w)
    PROVE  /\ work[w].row \in Ids /\ rows[work[w].row] \in OutboxRow /\ ~rows[work[w].row].gid
           /\ rows[work[w].row].status = "queued"
<1>1. WorkInv(work[w], gw)
  BY Zenon DEF IInv
<1>2. work[w].row \in Ids /\ work[w].token # 0
  BY <1>1 DEF WorkInv, Worker
<1>3. RowInv(rows[work[w].row], gw[work[w].row].status)
  BY <1>2, Zenon DEF IInv
<1> QED
  BY <1>2, <1>3 DEF Owns, RowInv, OutboxRow, Terminal

\* The answer is recorded.
LEMMA RecordStep ==
    ASSUME OutboxAssumption, IInv, NEW w \in Workers, record(w)
    PROVE  IInv'
<1> DEFINE i == work[w].row
           r == rows[i]
           q == Outcome(w, r)
<1>1. PutW(w, IdleW) /\ UNCHANGED <<gw, late, claims, sync, ops>> /\ WorkInv(IdleW, gw') /\ work[w].pc = "answered"
  BY IdleFits DEF record
<1>2. late' \subseteq Sent /\ Moves(gw, gw') /\ claims' \in 0..MaxClaims /\ gw' = gw
  BY <1>1, RequestIs DEF IInv
<1>3. CASE ~Owns(w)
  <2>1. rows' = rows
    BY <1>3 DEF record
  <2> QED
    BY <1>1, <1>2, <2>1, RowsKept, WorkerStep, Zenon
<1>4. CASE Owns(w)
  <2>1. rows' = [rows EXCEPT ![i] = Released(q)]
    BY <1>4 DEF record, IInv
  <2>2. i \in Ids /\ r \in OutboxRow /\ ~r.gid /\ r.status = "queued"
    BY <1>1, <1>4, OwnedIs
  <2>3. WorkInv(work[w], gw)
    BY Zenon DEF IInv
  <2>4. /\ work[w] \in Worker /\ work[w].resp # "none" /\ work[w].seen \in GwStatus
        /\ work[w].resp = "ok" => work[w].seen # "none" /\ gw[i].status \in After(work[w].seen)
    BY <1>1, <2>3 DEF WorkInv, Worker
  <2>5. Written(q, r, work[w].resp, work[w].seen)
    BY <2>2, <2>4, OutcomeIs
  <2> HIDE DEF q, r, i
  <2>6. RowInv(Released(q), gw[i].status)
    BY <2>2, <2>4, <2>5, RecordedFits
  <2>7. rows' = [k \in Ids |-> rows'[k]] /\ \A k \in Ids : RowInv(rows'[k], gw'[k].status)
    BY <1>2, <2>1, <2>2, <2>6, RowPut, Zenon
  <2> QED
    BY <1>1, <1>2, <2>7, WorkerStep, Zenon
<1> QED
  BY <1>3, <1>4

\* The row moves to the backup printer under the same lease.
LEMMA FailoverStep ==
    ASSUME OutboxAssumption, IInv, NEW w \in Workers, failover(w)
    PROVE  IInv'
<1> DEFINE i == work[w].row
           r == [rows[i] EXCEPT !.printer = "backup", !.err = "retry"]
           x == [work[w] EXCEPT !.pc = "claimed", !.printer = "backup"]
<1>1. UNCHANGED <<gw, late, claims, sync, ops>> /\ work[w].pc = "answered"
  BY DEF failover
<1>2. late' \subseteq Sent /\ Moves(gw, gw') /\ claims' \in 0..MaxClaims /\ gw' = gw /\ WorkInv(work[w], gw)
  BY <1>1, RequestIs DEF IInv
<1>3. CASE ~Owns(w)
  <2>1. rows' = rows /\ PutW(w, IdleW) /\ WorkInv(IdleW, gw')
    BY <1>3, IdleFits DEF failover
  <2> QED
    BY <1>1, <1>2, <2>1, RowsKept, WorkerStep, Zenon
<1>4. CASE Owns(w)
  <2>1. i \in Ids /\ rows[i] \in OutboxRow /\ ~rows[i].gid /\ rows[i].status = "queued"
    BY <1>1, <1>4, OwnedIs
  <2>2. rows' = [rows EXCEPT ![i] = r] /\ PutW(w, x)
    BY <1>4, <2>1 DEF failover, IInv
  <2>3. RowInv(rows[i], gw[i].status)
    BY <2>1, Zenon DEF IInv
  <2>4. /\ r \in OutboxRow /\ r.status = rows[i].status /\ r.gid = rows[i].gid /\ r.err = "retry"
        /\ r.attempts = rows[i].attempts /\ r.token = rows[i].token
    BY <2>1 DEF OutboxRow, Printers
  <2>5. x \in Worker /\ x.pc = "claimed" /\ x.token = work[w].token /\ x.token # 0
    BY <1>1, <1>2 DEF WorkInv, Worker, Printers
  <2> HIDE DEF r, x, i
  <2>6. RowInv(r, gw[i].status)
    BY <2>3, <2>4 DEF RowInv, Mirrors
  <2>7. WorkInv(x, gw')
    BY <2>5 DEF WorkInv
  <2>8. rows' = [k \in Ids |-> rows'[k]] /\ \A k \in Ids : RowInv(rows'[k], gw'[k].status)
    BY <1>2, <2>1, <2>2, <2>6, RowPut, Zenon
  <2> QED
    BY <1>1, <1>2, <2>2, <2>7, <2>8, WorkerStep, Zenon
<1> QED
  BY <1>3, <1>4

-----------------------------------------------------------------------------
(* Free ids                                                                *)

\* The next id is one of the free ids.
LEMMA NextIdIs == ASSUME Free # {} PROVE NextId \in Free /\ NextId \in Ids
<1>1. NextId \in Free
  BY Zenon DEF NextId
<1> QED
  BY <1>1 DEF Free

\* create_operation finds the key or a free id.
Room(k) == Free # {} \/ Known(k)

\* A row with the key is returned, or one is created in a free id.
LEMMA CreatedIs ==
    ASSUME OutboxAssumption, NEW k, NEW p, Room(k)
    PROVE  \/ CreateOperation(k, p) = rows
           \/ /\ ~Known(k)
              /\ \E f \in Free : CreateOperation(k, p) = [rows EXCEPT ![f] = NewRow(k, p)]
<1>1. CASE Known(k)
  BY <1>1 DEF CreateOperation
<1>2. CASE ~Known(k)
  <2>1. NextId \in Free
    BY <1>2, NextIdIs DEF Room
  <2>2. CreateOperation(k, p) = [rows EXCEPT ![NextId] = NewRow(k, p)]
    BY <1>2 DEF CreateOperation
  <2> QED
    BY <1>2, <2>1, <2>2
<1> QED
  BY <1>1, <1>2

\* A row that does not exist, or was deleted, or is new.
LEMMA FreshRows ==
    ASSUME OutboxAssumption, NEW k \in (0..MaxRows) \X Nat, NEW p \in Printers, NEW g
    PROVE  /\ RowInv(NoRow, g) /\ RowInv(Deleted, g) /\ RowInv(NewRow(k, p), g)
           /\ NewRow(k, p).status = "queued" /\ NewRow(k, p).key = k /\ NewRow(k, p).token = 0
           /\ ~NewRow(k, p).stale /\ NewRow(k, p).reprints = 0 /\ ~NewRow(k, p).gid
           /\ Deleted.status = "none" /\ Deleted.token = 0 /\ ~Deleted.stale /\ Deleted.reprints = 0
           /\ Deleted # NoRow /\ NewRow(k, p) # NoRow
<1>1. NoRow \in OutboxRow /\ Deleted \in OutboxRow
  <2>1. /\ <<0, 0>> \in (0..MaxRows) \X Nat /\ 0 \in 0..MAX_BILLING_PARK_ATTEMPTS + 1
        /\ 0 \in 0..MaxClaims /\ "primary" \in Printers
    BY DEF OutboxAssumption, Printers
  <2>2. NoRow \in OutboxRow
    BY <2>1 DEF NoRow, OutboxRow
  <2> QED
    BY <2>2 DEF Deleted, OutboxRow
<1>2. /\ NoRow.status = "none" /\ ~NoRow.gid /\ NoRow.err = "none" /\ ~NoRow.done
      /\ Deleted.status = "none" /\ ~Deleted.gid /\ Deleted.err = "none" /\ Deleted.done
      /\ Deleted.token = 0 /\ ~Deleted.stale /\ Deleted.reprints = 0
  BY DEF NoRow, Deleted
<1>3. NewRow(k, p) \in OutboxRow
  BY <1>1 DEF NewRow, OutboxRow
<1>4. /\ NewRow(k, p).status = "queued" /\ NewRow(k, p).key = k /\ NewRow(k, p).token = 0
      /\ ~NewRow(k, p).stale /\ NewRow(k, p).reprints = 0 /\ ~NewRow(k, p).gid
      /\ NewRow(k, p).err = "none" /\ NewRow(k, p).attempts = 0
  BY DEF NewRow, NoRow
<1>5. RowInv(NoRow, g) /\ RowInv(Deleted, g)
  BY <1>1, <1>2 DEF RowInv, Mirrors
<1>6. RowInv(NewRow(k, p), g)
  BY <1>3, <1>4 DEF RowInv, Mirrors, OutboxAssumption
<1>7. Deleted # NoRow /\ NewRow(k, p) # NoRow
  BY <1>2, <1>4
<1> QED
  BY <1>2, <1>4, <1>5, <1>6, <1>7

-----------------------------------------------------------------------------
(* The Gateway's steps, the synchronisation and the operator               *)

\* A late request arrives; a job moves on or leaves the Gateway's reach.
LEMMA GatewayStep ==
    ASSUME IInv,
           \/ \E q \in late : deliverLate(q)
           \/ \E i \in Ids : gatewayStep(i) \/ gatewayPurge(i)
    PROVE  IInv'
<1>1. gw \in [Ids -> Job] /\ late \subseteq Sent
  BY DEF IInv
<1>2. Moves(gw, gw') /\ late' \subseteq Sent /\ UNCHANGED <<rows, work, claims, sync, ops>>
  <2>1. ASSUME NEW q \in late, deliverLate(q)
        PROVE  Moves(gw, gw') /\ late' \subseteq Sent /\ UNCHANGED <<rows, work, claims, sync, ops>>
    BY <1>1, <2>1, AcceptedMoves DEF deliverLate
  <2>2. ASSUME NEW i \in Ids, gatewayStep(i)
        PROVE  Moves(gw, gw') /\ late' \subseteq Sent /\ UNCHANGED <<rows, work, claims, sync, ops>>
    <3>1. PICK s \in Later(gw[i].status) : gw' = [gw EXCEPT ![i].status = s]
      BY <2>2 DEF gatewayStep
    <3>2. s \in GwStatus
      BY <1>1 DEF Later, GwStatus, Job
    <3>3. gw' = [gw EXCEPT ![i] = [gw[i] EXCEPT !.status = s]]
      BY <1>1, <3>1
    <3>4. [gw[i] EXCEPT !.status = s] \in Job /\ [gw[i] EXCEPT !.status = s].status = s
      BY <1>1, <3>2 DEF Job
    <3>5. Moves(gw, gw')
      BY <1>1, <3>3, <3>4 DEF Moves
    <3> QED
      BY <1>1, <2>2, <3>5 DEF gatewayStep
  <2>3. ASSUME NEW i \in Ids, gatewayPurge(i)
        PROVE  Moves(gw, gw') /\ late' \subseteq Sent /\ UNCHANGED <<rows, work, claims, sync, ops>>
    <3>1. gw' = [gw EXCEPT ![i] = [gw[i] EXCEPT !.seen = FALSE]]
      BY <1>1, <2>3 DEF gatewayPurge
    <3>2. [gw[i] EXCEPT !.seen = FALSE] \in Job /\ [gw[i] EXCEPT !.seen = FALSE].status = gw[i].status
      BY <1>1 DEF Job
    <3>3. Moves(gw, gw')
      BY <1>1, <3>1, <3>2 DEF Moves
    <3> QED
      BY <1>1, <2>3, <3>3 DEF gatewayPurge
  <2> QED
    BY <2>1, <2>2, <2>3
<1>3. rows' = [i \in Ids |-> rows'[i]] /\ \A i \in Ids : RowInv(rows'[i], gw'[i].status)
  BY <1>2, RowsKept
<1>4. \A v \in Workers : WorkInv(work[v], gw')
  BY <1>1, <1>2, JobsMove, Zenon DEF IInv
<1>5. SyncInv(sync, gw')
  BY <1>1, <1>2, JobsMove, Zenon DEF IInv
<1>6. gw' \in [Ids -> Job]
  BY <1>2 DEF Moves
<1> QED
  BY <1>2, <1>3, <1>4, <1>5, <1>6 DEF IInv

\* The Gateway is asked, and the answer applied or dropped.
LEMMA SyncStep ==
    ASSUME OutboxAssumption, IInv, (\E i \in Ids : syncAsk(i)) \/ syncFailed \/ syncApply
    PROVE  IInv'
<1>1. gw \in [Ids -> Job] /\ SyncInv(sync, gw)
  BY DEF IInv
<1>2. SyncInv(IdleS, gw)
  BY DEF SyncInv, IdleS, Sync, Ids, GwStatus, OutboxAssumption
<1>3. ASSUME NEW i \in Ids, syncAsk(i)
      PROVE  IInv'
  <2> DEFINE b == IF gw[i].seen THEN gw[i].status ELSE "none"
             y == [pc |-> "answered", row |-> i, gid |-> rows[i].gid, body |-> b]
  <2>1. sync' = y /\ UNCHANGED <<rows, gw, late, work, claims, ops>>
    BY <1>3, Zenon DEF syncAsk
  <2>2. b \in GwStatus /\ (b # "none" => gw[i].status \in After(b))
    BY <1>1 DEF Job, GwStatus, After
  <2>3. rows[i].gid \in BOOLEAN
    BY RowFields DEF IInv, RowInv
  <2> HIDE DEF b
  <2>4. SyncInv(y, gw)
    BY <2>2, <2>3 DEF SyncInv, Sync
  <2> HIDE DEF y
  <2> QED
    BY <2>1, <2>4 DEF IInv
<1>4. CASE syncFailed
  BY <1>2, <1>4 DEF syncFailed, IInv
<1>5. CASE syncApply
  <2> DEFINE i == sync.row
             r == Answered(rows[i], sync.gid, sync.body)
  <2>1. /\ i \in Ids /\ sync.gid \in BOOLEAN /\ sync.body \in GwStatus
        /\ sync.body # "none" => gw[i].status \in After(sync.body)
    BY <1>1, <1>5 DEF SyncInv, Sync, syncApply
  <2>2. rows' = [rows EXCEPT ![i] = r] /\ sync' = IdleS /\ UNCHANGED <<gw, late, work, claims, ops>>
    BY <1>5, Zenon DEF syncApply, Answered
  <2>3. RowInv(rows[i], gw[i].status)
    BY <2>1, Zenon DEF IInv
  <2>4. RowInv(r, gw[i].status)
    BY <2>1, <2>3, AnsweredFits
  <2> HIDE DEF r, i
  <2>5. rows' = [k \in Ids |-> rows'[k]] /\ \A k \in Ids : RowInv(rows'[k], gw'[k].status)
    BY <2>1, <2>2, <2>4, RowPut, Zenon
  <2> QED
    BY <1>2, <2>2, <2>5 DEF IInv
<1> QED
  BY <1>3, <1>4, <1>5

\* One or two rows change, and the operators' counters.
LEMMA OperatorStep ==
    ASSUME IInv, NEW R, R = [i \in Ids |-> R[i]], \A i \in Ids : RowInv(R[i], gw[i].status), rows' = R,
           ops' \in [Operators -> (0..MaxRows) \X Nat], UNCHANGED <<gw, late, work, claims, sync>>
    PROVE  IInv'
BY DEF IInv

\* create_operation keeps the rows right.
LEMMA CreatedFits ==
    ASSUME OutboxAssumption, IInv, NEW k \in (0..MaxRows) \X Nat, NEW p \in Printers, Room(k)
    PROVE  LET R == CreateOperation(k, p)
           IN  R = [i \in Ids |-> R[i]] /\ \A i \in Ids : RowInv(R[i], gw[i].status)
<1>1. rows = [i \in Ids |-> rows[i]] /\ \A i \in Ids : RowInv(rows[i], gw[i].status)
  BY Zenon DEF IInv
<1>2. ASSUME NEW f \in Free, CreateOperation(k, p) = [rows EXCEPT ![f] = NewRow(k, p)]
      PROVE  LET R == CreateOperation(k, p)
             IN  R = [i \in Ids |-> R[i]] /\ \A i \in Ids : RowInv(R[i], gw[i].status)
  <2>1. f \in Ids
    BY DEF Free
  <2>2. RowInv(NewRow(k, p), gw[f].status)
    BY FreshRows
  <2> DEFINE n == NewRow(k, p)
             R == [rows EXCEPT ![f] = n]
  <2> HIDE DEF n
  <2>3. R = [i \in Ids |-> R[i]] /\ \A i \in Ids : R[i] = IF i = f THEN n ELSE rows[i]
    BY <1>1, <2>1
  <2> HIDE DEF R
  <2>4. \A i \in Ids : RowInv(R[i], gw[i].status)
    BY <1>1, <2>2, <2>3 DEF n
  <2> QED
    BY <1>2, <2>3, <2>4 DEF R, n
<1> QED
  BY <1>1, <1>2, CreatedIs

\* action_retry, the two halves of action_force_reprint, and the retention.
LEMMA ManagedStep ==
    ASSUME OutboxAssumption, IInv,
           \/ \E i \in Ids : action_retry(i) \/ cleanup(i)
           \/ \E o \in Operators : (\E i \in Ids : readReprints(o, i)) \/ action_force_reprint(o)
    PROVE  IInv'
<1>1. /\ rows = [i \in Ids |-> rows[i]] /\ \A i \in Ids : RowInv(rows[i], gw[i].status)
      /\ ops \in [Operators -> (0..MaxRows) \X Nat]
  BY Zenon DEF IInv
<1>2. \A i \in Ids : rows[i] \in OutboxRow
  BY <1>1 DEF RowInv
<1>3. ASSUME NEW i \in Ids, action_retry(i)
      PROVE  IInv'
  <2> DEFINE k == <<NextId, 0>>
  <2>1. Free # {} /\ rows' = CreateOperation(k, rows[i].printer) /\ UNCHANGED <<gw, late, work, claims, sync, ops>>
    BY <1>3, Zenon DEF action_retry
  <2>2. NextId \in Ids
    BY <2>1, NextIdIs
  <2>3. k \in (0..MaxRows) \X Nat
    BY <2>2 DEF Ids, OutboxAssumption
  <2>4. rows[i].printer \in Printers
    BY <1>2, RowFields
  <2> HIDE DEF k
  <2> QED
    BY <1>1, <2>1, <2>3, <2>4, CreatedFits, OperatorStep DEF Room
<1>4. ASSUME NEW i \in Ids, cleanup(i)
      PROVE  IInv'
  <2>1. rows' = [rows EXCEPT ![i] = Deleted] /\ UNCHANGED <<gw, late, work, claims, sync, ops>>
    BY <1>4, Zenon DEF cleanup
  <2>2. <<0, 0>> \in (0..MaxRows) \X Nat /\ "primary" \in Printers
    BY DEF OutboxAssumption, Printers
  <2>3. RowInv(Deleted, gw[i].status)
    BY <2>2, FreshRows
  <2>4. rows' = [k \in Ids |-> rows'[k]] /\ \A k \in Ids : RowInv(rows'[k], gw'[k].status)
    BY <2>1, <2>3, RowPut, Zenon
  <2> QED
    BY <2>1, <2>4 DEF IInv
<1>5. ASSUME NEW o \in Operators, NEW i \in Ids, readReprints(o, i)
      PROVE  IInv'
  <2> DEFINE c == <<i, rows[i].reprints + 1>>
  <2>1. ops' = [ops EXCEPT ![o] = c] /\ UNCHANGED <<rows, gw, late, work, claims, sync>>
    BY <1>5, Zenon DEF readReprints
  <2>2. rows[i].reprints \in Nat
    BY <1>2, RowFields
  <2>3. c \in (0..MaxRows) \X Nat
    BY <2>2 DEF Ids, OutboxAssumption
  <2> HIDE DEF c
  <2>4. ops' \in [Operators -> (0..MaxRows) \X Nat]
    BY <1>1, <2>1, <2>3
  <2> QED
    BY <1>1, <2>1, <2>4, OperatorStep, Zenon
<1>6. ASSUME NEW o \in Operators, action_force_reprint(o)
      PROVE  IInv'
  <2> DEFINE i == ops[o][1]
             n == ops[o][2]
             C == CreateOperation(<<i, n>>, rows[i].printer)
             m == Numbered(n, C[i].reprints)
  <2>1. /\ i # 0 /\ ops' = [ops EXCEPT ![o] = <<0, 0>>] /\ UNCHANGED <<gw, late, work, claims, sync>>
        /\ Exists(i) => Free # {} \/ Known(<<i, n>>)
    BY <1>6, Zenon DEF action_force_reprint
  <2>2. i \in Ids /\ i \in 0..MaxRows /\ n \in Nat /\ <<i, n>> \in (0..MaxRows) \X Nat
    BY <1>1, <2>1 DEF Ids, OutboxAssumption
  <2>3. ops' \in [Operators -> (0..MaxRows) \X Nat]
    BY <1>1, <2>1 DEF OutboxAssumption
  <2>4. CASE ~Exists(i)
    <3>1. rows' = rows
      BY <1>6, <2>4 DEF action_force_reprint
    <3> QED
      BY <1>1, <2>1, <2>3, <3>1, OperatorStep, Zenon
  <2>5. CASE Exists(i)
    <3>1. rows' = [C EXCEPT ![i].reprints = Numbered(n, @)]
      BY <1>6, <2>5 DEF action_force_reprint
    <3>2. rows[i].printer \in Printers
      BY <1>2, <2>2, RowFields
    <3>3. C = [j \in Ids |-> C[j]] /\ \A j \in Ids : RowInv(C[j], gw[j].status)
      BY <2>1, <2>2, <2>5, <3>2, CreatedFits DEF Room
    <3> HIDE DEF C, i, n
    <3> DEFINE r == [C[i] EXCEPT !.reprints = m]
               R == [C EXCEPT ![i] = r]
    <3>4. C[i] \in OutboxRow /\ C[i].reprints \in Nat
      BY <2>2, <3>3, RowFields DEF RowInv
    <3>5. m \in Nat
      BY <2>2, <3>4 DEF Numbered
    <3>6. rows' = R
      BY <2>2, <3>1, <3>3
    <3> HIDE DEF m
    <3>7. /\ r \in OutboxRow /\ r.status = C[i].status /\ r.gid = C[i].gid /\ r.err = C[i].err
          /\ r.attempts = C[i].attempts /\ r.token = C[i].token
      BY <3>4, <3>5 DEF OutboxRow
    <3> HIDE DEF r
    <3>8. RowInv(r, gw[i].status)
      BY <2>2, <3>3, <3>7 DEF RowInv, Mirrors
    <3>9. R = [j \in Ids |-> R[j]] /\ \A j \in Ids : R[j] = IF j = i THEN r ELSE C[j]
      BY <2>2, <3>3
    <3>10. \A j \in Ids : RowInv(R[j], gw[j].status)
      BY <3>3, <3>8, <3>9
    <3> HIDE DEF R
    <3> QED
      BY <2>1, <2>3, <3>6, <3>9, <3>10, OperatorStep, Zenon
  <2> QED
    BY <2>4, <2>5
<1> QED
  BY <1>3, <1>4, <1>5, <1>6

-----------------------------------------------------------------------------
(* The theorem                                                             *)

\* Initially one row is queued, and nothing is sent.
LEMMA InitHolds == ASSUME OutboxAssumption, OutboxInit PROVE IInv
<1>1. <<0, 1>> \in (0..MaxRows) \X Nat /\ <<0, 0>> \in (0..MaxRows) \X Nat /\ "primary" \in Printers
  BY DEF OutboxAssumption, Printers
<1>2. \A g : RowInv(NewRow(<<0, 1>>, "primary"), g) /\ RowInv(NoRow, g)
  BY <1>1, FreshRows
<1>3. /\ rows = [i \in Ids |-> rows[i]]
      /\ \A i \in Ids : rows[i] = NewRow(<<0, 1>>, "primary") \/ rows[i] = NoRow
  BY DEF OutboxInit
<1>4. \A i \in Ids : RowInv(rows[i], gw[i].status)
  BY <1>2, <1>3
<1>5. NoJob \in Job
  BY DEF NoJob, Job, GwStatus, Printers
<1>6. gw \in [Ids -> Job]
  BY <1>5 DEF OutboxInit
<1>7. work = [w \in Workers |-> work[w]] /\ \A w \in Workers : WorkInv(work[w], gw)
  BY IdleFits DEF OutboxInit
<1>8. SyncInv(sync, gw)
  BY DEF OutboxInit, SyncInv, IdleS, Sync, Ids, GwStatus, OutboxAssumption
<1>9. late \subseteq Sent /\ claims \in 0..MaxClaims /\ ops \in [Operators -> (0..MaxRows) \X Nat]
  BY <1>1 DEF OutboxInit, OutboxAssumption
<1> QED
  BY <1>3, <1>4, <1>6, <1>7, <1>8, <1>9 DEF IInv

\* Every step of the outbox, of its operators and of the Gateway keeps it.
LEMMA NextHolds == ASSUME OutboxAssumption, IInv, [OutboxNext]_outboxVars PROVE IInv'
<1>1. CASE UNCHANGED outboxVars
  BY <1>1 DEF outboxVars, IInv
<1>2. ASSUME NEW w \in Workers, Submit(w)
      PROVE  IInv'
  BY <1>2, LoadStep, ClaimStep, PostStep, RecordStep, FailoverStep, CrashStep DEF Submit
<1>3. ASSUME NEW i \in Ids, \/ expireLease(i) \/ syncAsk(i) \/ action_retry(i) \/ cleanup(i)
                            \/ gatewayStep(i) \/ gatewayPurge(i)
      PROVE  IInv'
  BY <1>3, ExpireStep, SyncStep, ManagedStep, GatewayStep
<1>4. CASE \/ \E q \in late : deliverLate(q)
           \/ syncFailed \/ syncApply
           \/ \E o \in Operators : \/ \E i \in Ids : readReprints(o, i)
                                   \/ action_force_reprint(o)
  BY <1>4, SyncStep, ManagedStep, GatewayStep
<1> QED
  BY <1>1, <1>2, <1>3, <1>4 DEF OutboxNext

\* The invariant says what the properties say.
LEMMA MirrorsFollows == ASSUME OutboxAssumption, IInv PROVE OutboxTypeOK /\ MirrorsGateway
<1>1. \A i \in Ids : rows[i] \in OutboxRow /\ Mirrors(rows[i], gw[i].status)
  BY DEF IInv, RowInv
<1>2. rows \in [Ids -> OutboxRow]
  BY <1>1 DEF IInv
<1>3. \A i \in Ids : gw[i].status \in GwStatus
  BY DEF IInv, Job
<1>4. \A q \in late : q.row \in Ids /\ q.printer \in Printers
  BY DEF IInv, Sent
<1>5. MirrorsGateway
  BY <1>1, Zenon DEF MirrorsGateway, Mirrors
<1>6. OutboxTypeOK
  BY <1>2, <1>3, <1>4 DEF OutboxTypeOK, IInv, GwStatus
<1> QED
  BY <1>5, <1>6

\* A row that knows its Gateway job never says more than the Gateway did, whatever is lost, late or
\* taken over: the leases of _claim_submission_lease and the ownership test of _persist_state suffice.
THEOREM RowsMirrorTheGateway == ASSUME OutboxAssumption PROVE OutboxSpec => [](OutboxTypeOK /\ MirrorsGateway)
<1>1. OutboxInit => IInv
  BY InitHolds
<1>2. IInv /\ [OutboxNext]_outboxVars => IInv'
  BY NextHolds
<1>3. IInv => OutboxTypeOK /\ MirrorsGateway
  BY MirrorsFollows
<1> QED
  BY <1>1, <1>2, <1>3, PTL DEF OutboxSpec

-----------------------------------------------------------------------------
(* Leases that are never taken over                                        *)

\* How one row may change while no worker moves: a queued row stays queued under its lease, and no
\* row becomes claimable, retryable or free that was not.
Keeps(q, r) ==
    /\ ~q.stale
    /\ r.status = "queued" => q.status = "queued" /\ q.token = r.token
    /\ (r # NoRow /\ r.status # "queued") => q # NoRow /\ q.status # "queued"
    /\ Unsent(q) => Unsent(r)

\* Rows change, and no worker, job or request does.
LEMMA LeaseRows ==
    ASSUME IInv, LeaseInv, UNCHANGED <<gw, late, work>>, \A k \in Ids : Keeps(rows'[k], rows[k]),
           sync'.pc = "answered" => sync' = sync
    PROVE  LeaseInv'
<1>1. \A i \in Ids : ~rows'[i].stale /\ (Unsent(rows'[i]) => Clean(i, gw', late'))
  BY DEF LeaseInv, Keeps
<1>2. ASSUME NEW w \in Workers
      PROVE  HolderInv(work'[w], rows', gw', late')
  <2>1. HolderInv(work[w], rows, gw, late) /\ work[w].row \in Ids
    BY DEF LeaseInv, IInv, WorkInv, Worker
  <2>2. rows[work[w].row].status = "queued" => /\ rows'[work[w].row].status = "queued"
                                              /\ rows'[work[w].row].token = rows[work[w].row].token
    BY <2>1 DEF Keeps
  <2> QED
    BY <2>1, <2>2 DEF HolderInv
<1>3. \A w, v \in Workers : Holds(work'[w]) /\ Holds(work'[v]) /\ work'[w].row = work'[v].row => w = v
  BY Zenon DEF LeaseInv
<1>4. sync'.pc = "answered" => rows'[sync'.row] # NoRow /\ rows'[sync'.row].status # "queued"
  <2>1. sync.row \in Ids
    BY DEF IInv, SyncInv, Sync
  <2> QED
    BY <2>1, Zenon DEF LeaseInv, Keeps
<1> QED
  BY <1>1, <1>2, <1>3, <1>4, Zenon DEF LeaseInv

\* Jobs move on, and rows without a job and a request stay without.
LEMMA LeaseJobs ==
    ASSUME IInv, LeaseInv, UNCHANGED <<rows, work, sync>>,
           \A k \in Ids : Clean(k, gw, late) => Clean(k, gw', late')
    PROVE  LeaseInv'
<1>1. \A i \in Ids : ~rows[i].stale /\ (Unsent(rows[i]) => Clean(i, gw', late'))
  BY Zenon DEF LeaseInv
<1>2. ASSUME NEW w \in Workers
      PROVE  HolderInv(work[w], rows, gw', late')
  <2>1. HolderInv(work[w], rows, gw, late) /\ work[w].row \in Ids
    BY DEF LeaseInv, IInv, WorkInv, Worker
  <2> QED
    BY <2>1, Zenon DEF HolderInv
<1> QED
  BY <1>1, <1>2 DEF LeaseInv

\* A worker without a lease comes, goes or looks.
LEMMA LeaseIdle ==
    ASSUME IInv, LeaseInv, UNCHANGED <<rows, gw, late, sync>>, NEW w \in Workers, NEW x, PutW(w, x), ~Holds(x)
    PROVE  LeaseInv'
<1>1. \A v \in Workers : work'[v] = IF v = w THEN x ELSE work[v]
  BY DEF PutW, IInv
<1>2. \A v \in Workers : HolderInv(work'[v], rows, gw, late)
  BY <1>1 DEF LeaseInv, HolderInv
<1>3. \A u, v \in Workers : Holds(work'[u]) /\ Holds(work'[v]) /\ work'[u].row = work'[v].row => u = v
  BY <1>1 DEF LeaseInv
<1> QED
  BY <1>2, <1>3 DEF LeaseInv

\* Worker w, the only one that may have row i's lease, becomes x; row i changes, or its job.
HolderMoves(w, i, x) ==
    /\ PutW(w, x) /\ sync' = sync /\ rows[i].status = "queued"
    /\ \A v \in Workers : v # w /\ Holds(work[v]) => work[v].row # i
    /\ Holds(x) => x.row = i /\ HolderInv(x, rows', gw', late')
    /\ \A k \in Ids : k # i => rows'[k] = rows[k] /\ (Clean(k, gw, late) => Clean(k, gw', late'))
    /\ ~rows'[i].stale /\ (Unsent(rows'[i]) => Clean(i, gw', late'))

\* The holder's steps keep the leases as they must be.
LEMMA LeaseHolder ==
    ASSUME IInv, LeaseInv, NEW w \in Workers, NEW i \in Ids, NEW x, HolderMoves(w, i, x)
    PROVE  LeaseInv'
<1>1. \A v \in Workers : work'[v] = IF v = w THEN x ELSE work[v]
  BY DEF HolderMoves, PutW, IInv
<1>2. \A k \in Ids : ~rows'[k].stale /\ (Unsent(rows'[k]) => Clean(k, gw', late'))
  BY Zenon DEF LeaseInv, HolderMoves
<1>3. ASSUME NEW v \in Workers
      PROVE  HolderInv(work'[v], rows', gw', late')
  <2>1. CASE v = w
    BY <1>1, <2>1 DEF HolderInv, HolderMoves
  <2>2. CASE v # w
    <3>1. work'[v] = work[v] /\ work[v].row \in Ids /\ HolderInv(work[v], rows, gw, late)
      BY <1>1, <2>2 DEF LeaseInv, IInv, WorkInv, Worker
    <3> QED
      BY <2>2, <3>1 DEF HolderInv, HolderMoves
  <2> QED
    BY <2>1, <2>2
<1>4. \A u, v \in Workers : Holds(work'[u]) /\ Holds(work'[v]) /\ work'[u].row = work'[v].row => u = v
  <2>1. SUFFICES ASSUME NEW u \in Workers, NEW v \in Workers, Holds(work'[u]), Holds(work'[v]),
                        work'[u].row = work'[v].row, u # v
                 PROVE  FALSE
    BY Zenon
  <2>2. \A t \in Workers : t # w /\ Holds(work'[t]) => work'[t].row # i /\ work'[t] = work[t]
    BY <1>1 DEF HolderMoves
  <2>3. Holds(work'[w]) => work'[w].row = i
    BY <1>1 DEF HolderMoves
  <2>4. u # w /\ v # w
    BY <2>1, <2>2, <2>3
  <2> QED
    BY <2>1, <2>2, <2>4 DEF LeaseInv
<1>5. sync.pc = "answered" => rows'[sync.row] # NoRow /\ rows'[sync.row].status # "queued"
  <2>1. sync.row \in Ids
    BY DEF IInv, SyncInv, Sync
  <2> QED
    BY <2>1 DEF LeaseInv, HolderMoves
<1> QED
  BY <1>2, <1>3, <1>4, <1>5 DEF LeaseInv, HolderMoves

\* A row in a worker's hands.
LEMMA HeldIs ==
    ASSUME IInv, LeaseInv, NEW w \in Workers, Holds(work[w])
    PROVE  /\ work[w] \in Worker /\ work[w].row \in Ids /\ work[w].token # 0
           /\ rows[work[w].row].status = "queued" /\ rows[work[w].row].token = work[w].token
           /\ ~rows[work[w].row].stale /\ ~Unsent(rows[work[w].row]) /\ Owns(w)
           /\ \A v \in Workers : v # w /\ Holds(work[v]) => work[v].row # work[w].row
           /\ ~Told(work[w]) => Clean(work[w].row, gw, late)
<1>1. work[w] \in Worker /\ work[w].row \in Ids /\ work[w].token # 0
  BY DEF IInv, WorkInv, Worker, Holds
<1>2. /\ rows[work[w].row].status = "queued" /\ rows[work[w].row].token = work[w].token
      /\ ~Told(work[w]) => Clean(work[w].row, gw, late)
  BY DEF LeaseInv, HolderInv
<1>3. ~Unsent(rows[work[w].row])
  BY <1>1, <1>2, NoRowIs DEF Unsent, Offered
<1>4. Owns(w)
  BY <1>2 DEF Owns, Terminal
<1> QED
  BY <1>1, <1>2, <1>3, <1>4 DEF LeaseInv

\* A lease is taken.
LEMMA LeaseClaim ==
    ASSUME OutboxAssumption, IInv, LeaseInv, NEW w \in Workers, claimLease(w)
    PROVE  LeaseInv'
<1> DEFINE i == work[w].row
<1>1. UNCHANGED <<gw, late, sync>> /\ work[w] \in Worker /\ i \in Ids
  BY DEF claimLease, IInv, WorkInv, Worker
<1>2. CASE ~Claimable(rows[i])
  <2>1. PutW(w, IdleW) /\ rows' = rows /\ ~Holds(IdleW)
    BY <1>2 DEF claimLease, Holds, IdleW
  <2> QED
    BY <1>1, <2>1, LeaseIdle, Zenon
<1>3. CASE Claimable(rows[i])
  <2> DEFINE c == claims + 1
             r == [rows[i] EXCEPT !.token = c, !.stale = FALSE]
             x == [work[w] EXCEPT !.pc = "claimed", !.token = c]
  <2>1. c # 0 /\ PutW(w, x)
    BY <1>3 DEF IInv, OutboxAssumption, claimLease
  <2>2. \A k \in Ids : rows'[k] = IF k = i THEN r ELSE rows[k]
    BY <1>1, <1>3 DEF IInv, claimLease
  <2> HIDE DEF c, i
  <2>3. rows[i].status = "queued" /\ rows[i].token = 0 /\ rows[i] \in OutboxRow /\ Clean(i, gw, late)
    BY <1>1, <1>3 DEF IInv, RowInv, OutboxRow, Claimable, LeaseInv, Unsent
  <2>4. r.status = "queued" /\ r.token = c /\ r.stale = FALSE
    BY <2>3 DEF OutboxRow
  <2>5. x.pc = "claimed" /\ x.token = c /\ x.row = i
    BY <1>1 DEF Worker, i
  <2> HIDE DEF r, x
  <2>6. ASSUME NEW v \in Workers, v # w, Holds(work[v])
        PROVE  work[v].row # i
    BY <2>3, <2>6, HeldIs
  <2>7. ~Unsent(r)
    BY <2>1, <2>4, NoRowIs DEF Unsent, Offered
  <2>8. HolderInv(x, rows', gw', late')
    BY <1>1, <2>2, <2>3, <2>4, <2>5 DEF HolderInv
  <2>9. ~rows'[i].stale /\ ~Unsent(rows'[i])
    BY <1>1, <2>2, <2>4, <2>7
  <2>10. \A k \in Ids : k # i => rows'[k] = rows[k] /\ (Clean(k, gw, late) => Clean(k, gw', late'))
    BY <1>1, <2>2
  <2>11. \A v \in Workers : v # w /\ Holds(work[v]) => work[v].row # i
    BY <2>6
  <2>12. HolderMoves(w, i, x)
    BY <1>1, <2>1, <2>3, <2>5, <2>8, <2>9, <2>10, <2>11 DEF HolderMoves
  <2> QED
    BY <1>1, <2>12, LeaseHolder, Zenon
<1> QED
  BY <1>2, <1>3

\* The request of a worker that had not sent creates the job of its own row, or none.
LEMMA CleanElsewhere ==
    ASSUME IInv, NEW q \in Sent, NEW k \in Ids, k # q.row, Clean(k, gw, late)
    PROVE  Clean(k, Accepted(q), late) /\ Clean(k, gw, late \cup {q})
<1>1. gw \in [Ids -> Job] /\ q.row \in Ids
  BY DEF IInv, Sent
<1>2. Accepted(q)[k] = gw[k]
  BY <1>1 DEF Accepted
<1> QED
  BY <1>2 DEF Clean

\* A request is answered.
LEMMA LeaseAnswer ==
    ASSUME IInv, LeaseInv, NEW w \in Workers, work[w].pc = "claimed", NEW a, Answer(w, a),
           UNCHANGED <<rows, sync>>,
           \A k \in Ids : k # work[w].row /\ Clean(k, gw, late) => Clean(k, gw', late'),
           a \notin {"ok", "lost"} => UNCHANGED <<gw, late>>
    PROVE  LeaseInv'
<1> DEFINE i == work[w].row
           s == gw'[i].status
           x == [work[w] EXCEPT !.pc = "answered", !.resp = a, !.seen = s]
<1>1. Holds(work[w]) /\ ~Told(work[w])
  BY DEF Holds, Told
<1>2. /\ work[w] \in Worker /\ i \in Ids /\ rows[i].status = "queued" /\ rows[i].token = work[w].token
      /\ ~rows[i].stale /\ ~Unsent(rows[i]) /\ Clean(i, gw, late)
      /\ \A v \in Workers : v # w /\ Holds(work[v]) => work[v].row # i
  BY <1>1, HeldIs
<1>3. PutW(w, x)
  BY Zenon DEF Answer
<1> HIDE DEF s
<1>4. x.pc = "answered" /\ x.resp = a /\ x.row = i /\ x.token = work[w].token
  BY <1>2 DEF Worker
<1> HIDE DEF i, x
<1>5. ~Told(x) => Clean(i, gw', late')
  BY <1>2, <1>4 DEF Told
<1>6. HolderInv(x, rows', gw', late')
  BY <1>2, <1>4, <1>5 DEF HolderInv
<1>7. /\ Holds(x) => x.row = i /\ HolderInv(x, rows', gw', late')
      /\ Unsent(rows'[i]) => Clean(i, gw', late')
      /\ ~rows'[i].stale /\ sync' = sync
  BY <1>2, <1>4, <1>6
<1>8. \A k \in Ids : k # i => rows'[k] = rows[k] /\ (Clean(k, gw, late) => Clean(k, gw', late'))
  BY DEF i
<1>9. HolderMoves(w, i, x)
  BY <1>2, <1>3, <1>7, <1>8 DEF HolderMoves
<1> QED
  BY <1>2, <1>9, LeaseHolder, Zenon

\* requests.post, where no answer is an untyped 5xx.
LEMMA LeasePost ==
    ASSUME OutboxAssumption, IInv, LeaseInv, NEW w \in Workers,
           postAccepted(w) \/ postUnsent(w) \/ postLost(w) \/ \E a \in Refusals : postRefused(w, a)
    PROVE  LeaseInv'
<1>1. PostRequest(w) \in Sent /\ PostRequest(w).row = work[w].row
  BY RequestIs
<1>2. CASE postAccepted(w)
  <2>1. /\ work[w].pc = "claimed" /\ gw' = Accepted(PostRequest(w)) /\ UNCHANGED <<rows, sync, late>>
        /\ Answer(w, IF Conflicts(PostRequest(w)) THEN "rejected" ELSE "ok")
    BY <1>2, Zenon DEF postAccepted
  <2>2. Clean(work[w].row, gw, late)
    BY <2>1, HeldIs DEF Holds, Told
  <2>3. ~Conflicts(PostRequest(w))
    BY <1>1, <2>2 DEF Conflicts, Clean
  <2>4. Answer(w, "ok")
    BY <2>1, <2>3
  <2>5. \A k \in Ids : k # work[w].row /\ Clean(k, gw, late) => Clean(k, gw', late')
    BY <1>1, <2>1, CleanElsewhere
  <2> QED
    BY <2>1, <2>4, <2>5, LeaseAnswer
<1>3. CASE postLost(w)
  <2>1. /\ work[w].pc = "claimed" /\ gw' = gw /\ UNCHANGED <<rows, sync>> /\ late' = late \cup {PostRequest(w)}
        /\ Answer(w, "lost")
    BY <1>3, Zenon DEF postLost
  <2>2. \A k \in Ids : k # work[w].row /\ Clean(k, gw, late) => Clean(k, gw', late')
    BY <1>1, <2>1, CleanElsewhere
  <2> QED
    BY <2>1, <2>2, LeaseAnswer
<1>4. CASE postUnsent(w)
  <2>1. work[w].pc = "claimed" /\ UNCHANGED <<rows, sync, gw, late>> /\ Answer(w, "unsent")
    BY <1>4, Zenon DEF postUnsent
  <2> QED
    BY <2>1, LeaseAnswer
<1>5. ASSUME NEW a \in Refusals, postRefused(w, a)
      PROVE  LeaseInv'
  <2>1. work[w].pc = "claimed" /\ UNCHANGED <<rows, sync, gw, late>> /\ Answer(w, a)
    BY <1>5, Zenon DEF postRefused
  <2> QED
    BY <2>1, LeaseAnswer
<1> QED
  BY <1>2, <1>3, <1>4, <1>5

\* The answer is recorded: what goes back to the queue, or is offered for retry, was never sent.
LEMMA LeaseRecord ==
    ASSUME OutboxAssumption, IInv, LeaseInv, NEW w \in Workers, record(w)
    PROVE  LeaseInv'
<1> DEFINE i == work[w].row
           r == rows[i]
           q == Outcome(w, r)
           p == Released(q)
<1>1. work[w].pc = "answered" /\ UNCHANGED <<gw, late, sync>> /\ PutW(w, IdleW) /\ ~Holds(IdleW)
  BY DEF record, IdleW, Holds
<1>2. /\ work[w] \in Worker /\ i \in Ids /\ r.status = "queued"
      /\ ~Told(work[w]) => Clean(i, gw, late)
      /\ \A v \in Workers : v # w /\ Holds(work[v]) => work[v].row # i
      /\ Owns(w)
  BY <1>1, HeldIs DEF Holds
<1>3. work[w].row \in Ids /\ rows[work[w].row] \in OutboxRow /\ ~rows[work[w].row].gid
  BY <1>1, <1>2, OwnedIs
<1>4. \A k \in Ids : rows'[k] = IF k = i THEN p ELSE rows[k]
  BY <1>2, <1>3 DEF record, IInv
<1>5. work[w].resp # "none" /\ (work[w].resp = "ok" => work[w].seen # "none")
  BY <1>1 DEF IInv, WorkInv
<1>6. Written(q, r, work[w].resp, work[w].seen)
  BY <1>2, <1>3, <1>5, OutcomeIs
<1> HIDE DEF q
<1>7. p.status = q.status /\ p.gid = q.gid /\ ~p.stale
  <2>1. q \in OutboxRow
    BY <1>6, Zenon DEF Written
  <2>2. 0 \in 0..MaxClaims
    BY DEF OutboxAssumption
  <2> QED
    BY <2>1, <2>2, ReleasedIs, Zenon
<1> HIDE DEF p
<1>8. Unsent(p) => Clean(i, gw, late)
  <2>1. CASE Told(work[w])
    <3>1. ~(p.status = "none") /\ p.status # "queued" /\ (p.status = "failed" => p.gid)
      BY <1>6, <1>7, <2>1 DEF Told, Written
    <3> QED
      BY <3>1, NoRowIs DEF Unsent, Offered, PhysicalOutcome
  <2>2. CASE ~Told(work[w])
    BY <1>2, <2>2
  <2> QED
    BY <2>1, <2>2
<1> HIDE DEF i
<1>9. /\ Holds(IdleW) => IdleW.row = i /\ HolderInv(IdleW, rows', gw', late')
      /\ Unsent(rows'[i]) => Clean(i, gw', late')
      /\ ~rows'[i].stale /\ sync' = sync /\ rows[i].status = "queued"
  BY <1>1, <1>2, <1>4, <1>7, <1>8 DEF r
<1>10. \A k \in Ids : k # i => rows'[k] = rows[k] /\ (Clean(k, gw, late) => Clean(k, gw', late'))
  BY <1>1, <1>4
<1>11. HolderMoves(w, i, IdleW)
  BY <1>1, <1>2, <1>9, <1>10 DEF HolderMoves
<1> QED
  BY <1>2, <1>11, LeaseHolder, Zenon

\* The row moves to the backup printer: it was never sent.
LEMMA LeaseFailover ==
    ASSUME OutboxAssumption, IInv, LeaseInv, NEW w \in Workers, failover(w)
    PROVE  LeaseInv'
<1> DEFINE i == work[w].row
           r == [rows[i] EXCEPT !.printer = "backup", !.err = "retry"]
           x == [work[w] EXCEPT !.pc = "claimed", !.printer = "backup"]
<1>1. work[w].pc = "answered" /\ work[w].resp = "unsent" /\ UNCHANGED <<gw, late, sync>>
  BY DEF failover
<1>2. /\ work[w] \in Worker /\ i \in Ids /\ rows[i].status = "queued" /\ rows[i].token = work[w].token
      /\ ~rows[i].stale /\ Clean(i, gw, late) /\ Owns(w) /\ work[w].token # 0
      /\ \A v \in Workers : v # w /\ Holds(work[v]) => work[v].row # i
  BY <1>1, HeldIs DEF Holds, Told
<1>3. rows[i] \in OutboxRow
  BY <1>2 DEF IInv, RowInv
<1>4. (\A k \in Ids : rows'[k] = IF k = i THEN r ELSE rows[k]) /\ PutW(w, x)
  BY <1>2 DEF failover, IInv
<1>5. x.pc = "claimed" /\ x.row = i /\ x.token = work[w].token
  BY <1>2 DEF Worker
<1>6. r.status = "queued" /\ r.token = work[w].token /\ ~r.stale
  BY <1>2, <1>3 DEF OutboxRow
<1> HIDE DEF i, r, x
<1>7. ~Unsent(r)
  BY <1>2, <1>6, NoRowIs DEF Unsent, Offered
<1>8. HolderInv(x, rows', gw', late')
  BY <1>1, <1>2, <1>4, <1>5, <1>6 DEF HolderInv
<1>9. /\ Holds(x) => x.row = i /\ HolderInv(x, rows', gw', late')
      /\ Unsent(rows'[i]) => Clean(i, gw', late')
      /\ ~rows'[i].stale /\ sync' = sync /\ rows[i].status = "queued"
  BY <1>1, <1>2, <1>4, <1>5, <1>6, <1>7, <1>8
<1>10. \A k \in Ids : k # i => rows'[k] = rows[k] /\ (Clean(k, gw, late) => Clean(k, gw', late'))
  BY <1>1, <1>4
<1>11. HolderMoves(w, i, x)
  BY <1>2, <1>4, <1>9, <1>10 DEF HolderMoves
<1> QED
  BY <1>2, <1>11, LeaseHolder, Zenon

\* A late request arrives; a job moves on or leaves the Gateway's reach.
LEMMA LeaseGateway ==
    ASSUME IInv, LeaseInv,
           \/ \E q \in late : deliverLate(q)
           \/ \E i \in Ids : gatewayStep(i) \/ gatewayPurge(i)
    PROVE  LeaseInv'
<1>1. gw \in [Ids -> Job] /\ late \subseteq Sent
  BY DEF IInv
<1>2. UNCHANGED <<rows, work, sync>>
  BY DEF deliverLate, gatewayStep, gatewayPurge
<1>3. ASSUME NEW k \in Ids, Clean(k, gw, late)
      PROVE  Clean(k, gw', late')
  <2>1. gw[k].status = "none" /\ \A q \in late : q.row # k
    BY <1>3 DEF Clean
  <2>2. ASSUME NEW q \in late, deliverLate(q)
        PROVE  Clean(k, gw', late')
    <3>1. q \in Sent /\ q.row # k
      BY <1>1, <2>1
    <3>2. Clean(k, Accepted(q), late)
      BY <1>3, <3>1, CleanElsewhere
    <3> QED
      BY <2>2, <3>2 DEF deliverLate, Clean
  <2>3. ASSUME NEW i \in Ids, gatewayStep(i)
        PROVE  Clean(k, gw', late')
    <3>1. PICK s \in Later(gw[i].status) : gw' = [gw EXCEPT ![i].status = s]
      BY <2>3 DEF gatewayStep
    <3>2. i # k
      BY <2>1 DEF Later
    <3> QED
      BY <1>1, <2>1, <2>3, <3>1, <3>2 DEF gatewayStep, Clean
  <2>4. ASSUME NEW i \in Ids, gatewayPurge(i)
        PROVE  Clean(k, gw', late')
    <3>1. i # k
      BY <2>1, <2>4 DEF gatewayPurge
    <3> QED
      BY <1>1, <2>1, <2>4, <3>1 DEF gatewayPurge, Clean
  <2> QED
    BY <2>2, <2>3, <2>4
<1> QED
  BY <1>2, <1>3, LeaseJobs

\* A row that does not change.
LEMMA KeepsItself == ASSUME NEW r, ~r.stale PROVE Keeps(r, r)
BY DEF Keeps

\* The synchronisation neither queues a row nor offers it for retry.
LEMMA LeaseSync ==
    ASSUME OutboxAssumption, IInv, LeaseInv, (\E i \in Ids : syncAsk(i)) \/ syncFailed \/ syncApply
    PROVE  LeaseInv'
<1>1. \A k \in Ids : Keeps(rows[k], rows[k])
  BY KeepsItself DEF LeaseInv
<1>2. IdleS.pc # "answered"
  BY DEF IdleS
<1>3. ASSUME NEW i \in Ids, syncAsk(i)
      PROVE  LeaseInv'
  <2>1. UNCHANGED <<rows, gw, late, work>> /\ sync'.row = i /\ NeedsReconciliation(rows[i])
    BY <1>3 DEF syncAsk
  <2>2. rows[i].gid => rows[i].status \notin {"queued", "none"}
    BY DEF IInv, RowInv
  <2>3. rows[i].status \notin {"queued", "none"}
    BY <2>1, <2>2 DEF NeedsReconciliation
  <2>4. rows[i] # NoRow /\ rows[i].status # "queued"
    BY <2>3, NoRowIs
  <2> QED
    BY <2>1, <2>4 DEF LeaseInv
<1>4. CASE syncFailed
  <2>1. UNCHANGED <<rows, gw, late, work>> /\ sync' = IdleS
    BY <1>4, Zenon DEF syncFailed
  <2> QED
    BY <1>1, <1>2, <2>1, LeaseRows
<1>5. CASE syncApply
  <2> DEFINE i == sync.row
             q == Answered(rows[i], sync.gid, sync.body)
  <2>1. /\ i \in Ids /\ sync.gid \in BOOLEAN /\ sync.body \in GwStatus
        /\ sync.body # "none" => gw[i].status \in After(sync.body)
    BY <1>5 DEF IInv, SyncInv, Sync, syncApply
  <2>2. rows' = [rows EXCEPT ![i] = q] /\ sync' = IdleS /\ UNCHANGED <<gw, late, work>>
    BY <1>5, Zenon DEF syncApply, Answered
  <2>3. RowInv(rows[i], gw[i].status)
    BY <2>1, Zenon DEF IInv
  <2>4. Polled(q, rows[i])
    BY <2>1, <2>3, AnsweredFits
  <2>5. rows[i] # NoRow /\ rows[i].status # "queued" /\ ~rows[i].stale
    BY <1>5, <2>1 DEF LeaseInv, syncApply
  <2> HIDE DEF q, i
  <2>6. q # NoRow /\ q.status # "queued" /\ ~q.stale
    <3>1. NoRow.status \in {"queued", "none"}
      BY DEF NoRow
    <3> QED
      BY <2>4, <2>5, <3>1 DEF Polled
  <2>7. Unsent(q) => Unsent(rows[i])
    BY <2>4, <2>6 DEF Polled, Unsent
  <2>8. Keeps(q, rows[i])
    BY <2>5, <2>6, <2>7 DEF Keeps
  <2>9. \A k \in Ids : rows'[k] = IF k = i THEN q ELSE rows[k]
    BY <2>1, <2>2 DEF IInv
  <2>10. \A k \in Ids : Keeps(rows'[k], rows[k])
    BY <1>1, <2>8, <2>9
  <2> QED
    BY <1>2, <2>2, <2>10, LeaseRows
<1> QED
  BY <1>3, <1>4, <1>5

\* What create_operation makes of each row.
LEMMA CreatedRows ==
    ASSUME OutboxAssumption, IInv, NEW k, NEW p, Room(k), NEW j \in Ids
    PROVE  \/ CreateOperation(k, p)[j] = rows[j]
           \/ ~Known(k) /\ rows[j] = NoRow /\ CreateOperation(k, p)[j] = NewRow(k, p)
<1>1. CASE CreateOperation(k, p) = rows
  BY <1>1
<1>2. CASE ~Known(k) /\ \E f \in Free : CreateOperation(k, p) = [rows EXCEPT ![f] = NewRow(k, p)]
  <2>1. PICK f \in Free : CreateOperation(k, p) = [rows EXCEPT ![f] = NewRow(k, p)]
    BY <1>2
  <2>2. f \in Ids /\ rows[f] = NoRow
    BY DEF Free
  <2> DEFINE n == NewRow(k, p)
  <2> HIDE DEF n
  <2>3. CreateOperation(k, p)[j] = IF j = f THEN n ELSE rows[j]
    BY <2>1, <2>2 DEF IInv, n
  <2> QED
    BY <1>2, <2>2, <2>3 DEF n
<1> QED
  BY <1>1, <1>2, CreatedIs

\* create_operation leaves the rows that exist alone.
LEMMA CreatedElsewhere ==
    ASSUME OutboxAssumption, IInv, NEW k, NEW p, Room(k), NEW j \in Ids, rows[j] # NoRow
    PROVE  CreateOperation(k, p)[j] = rows[j]
BY CreatedRows, Zenon

\* A new row takes an id that no request and no job has.
LEMMA KeepsNew ==
    ASSUME NEW k, NEW p
    PROVE  Keeps(NewRow(k, p), NoRow)
<1>1. ~NewRow(k, p).stale /\ NoRow.status = "none"
  BY DEF NewRow, NoRow
<1> QED
  BY <1>1 DEF Keeps, Unsent

\* action_retry, the two halves of action_force_reprint, and the retention.
LEMMA LeaseManaged ==
    ASSUME OutboxAssumption, IInv, LeaseInv,
           \/ \E i \in Ids : action_retry(i) \/ cleanup(i)
           \/ \E o \in Operators : (\E i \in Ids : readReprints(o, i)) \/ action_force_reprint(o)
    PROVE  LeaseInv'
<1>1. \A k \in Ids : Keeps(rows[k], rows[k])
  BY KeepsItself DEF LeaseInv
<1>2. UNCHANGED <<gw, late, work, sync>>
  BY DEF action_retry, cleanup, readReprints, action_force_reprint
<1>3. ASSUME NEW k, NEW p, Room(k), NEW j \in Ids
      PROVE  Keeps(CreateOperation(k, p)[j], rows[j])
  BY <1>1, <1>3, CreatedRows, KeepsNew, Zenon
<1>4. ASSUME NEW i \in Ids, action_retry(i)
      PROVE  LeaseInv'
  <2>1. Free # {} /\ rows' = CreateOperation(<<NextId, 0>>, rows[i].printer)
    BY <1>4, Zenon DEF action_retry
  <2>2. Room(<<NextId, 0>>)
    BY <2>1 DEF Room
  <2>3. \A k \in Ids : Keeps(rows'[k], rows[k])
    BY <1>3, <2>1, <2>2, Zenon
  <2> QED
    BY <1>2, <2>3, LeaseRows
<1>5. ASSUME NEW i \in Ids, cleanup(i)
      PROVE  LeaseInv'
  <2>1. rows[i].status \in Terminal /\ \A k \in Ids : rows'[k] = IF k = i THEN Deleted ELSE rows[k]
    BY <1>5 DEF cleanup, IInv
  <2>2. Deleted # NoRow /\ Deleted.status = "none" /\ ~Deleted.stale
    BY DEF Deleted, NoRow
  <2>3. Keeps(Deleted, rows[i])
    BY <2>1, <2>2 DEF Keeps, Unsent, Offered, Terminal
  <2>4. \A k \in Ids : Keeps(rows'[k], rows[k])
    BY <1>1, <2>1, <2>3
  <2> QED
    BY <1>2, <2>4, LeaseRows
<1>6. ASSUME NEW o \in Operators, NEW i \in Ids, readReprints(o, i)
      PROVE  LeaseInv'
  <2>1. rows' = rows
    BY <1>6 DEF readReprints
  <2> QED
    BY <1>1, <1>2, <2>1, LeaseRows
<1>7. ASSUME NEW o \in Operators, action_force_reprint(o)
      PROVE  LeaseInv'
  <2> DEFINE i == ops[o][1]
             n == ops[o][2]
             C == CreateOperation(<<i, n>>, rows[i].printer)
             m == Numbered(n, rows[i].reprints)
             q == [rows[i] EXCEPT !.reprints = m]
  <2>1. i # 0 /\ (Exists(i) => Room(<<i, n>>)) /\ i \in Ids
    <3>1. i # 0 /\ (Exists(i) => Room(<<i, n>>))
      BY <1>7, Zenon DEF action_force_reprint, Room
    <3>2. ops \in [Operators -> (0..MaxRows) \X Nat]
      BY DEF IInv
    <3> QED
      BY <3>1, <3>2 DEF Ids, OutboxAssumption
  <2>2. CASE ~Exists(i)
    <3>1. rows' = rows
      BY <1>7, <2>2 DEF action_force_reprint
    <3> QED
      BY <1>1, <1>2, <3>1, LeaseRows
  <2>3. CASE Exists(i)
    <3>1. rows' = [C EXCEPT ![i].reprints = Numbered(n, @)]
      BY <1>7, <2>3 DEF action_force_reprint
    <3>2. \A j \in Ids : Keeps(C[j], rows[j])
      BY <1>3, <2>1, <2>3, Zenon
    <3>3. C[i] = rows[i]
      <4>1. rows[i] # NoRow /\ Room(<<i, n>>)
        BY <2>1, <2>3, NoRowIs DEF Exists
      <4> DEFINE k == <<i, n>>
                 p == rows[i].printer
      <4>2. Room(k) /\ i \in Ids /\ rows[i] # NoRow
        BY <2>1, <4>1, Zenon
      <4> HIDE DEF k, p, i
      <4>3. CreateOperation(k, p)[i] = rows[i]
        BY <4>2, CreatedElsewhere
      <4> QED
        BY <4>3, Zenon DEF k, p
    <3>4. rows[i] \in OutboxRow /\ ~rows[i].stale
      BY <2>1 DEF IInv, RowInv, LeaseInv
    <3>5. C = [j \in Ids |-> C[j]]
      <4>1. rows[i].printer \in Printers /\ <<i, n>> \in (0..MaxRows) \X Nat
        BY <3>4, RowFields, <1>7 DEF IInv
      <4> QED
        BY <2>1, <2>3, <4>1, CreatedFits
    <3> HIDE DEF C, i, n
    <3>6. \A j \in Ids : rows'[j] = IF j = i THEN q ELSE C[j]
      BY <2>1, <3>1, <3>3, <3>5
    <3> HIDE DEF m
    <3>7. /\ q.status = rows[i].status /\ q.token = rows[i].token /\ q.stale = rows[i].stale
          /\ q.gid = rows[i].gid /\ q.err = rows[i].err
      BY <3>4 DEF OutboxRow
    <3> HIDE DEF q
    <3>8. rows[i].status # "none" /\ q # NoRow
      BY <2>3, <3>7, NoRowIs DEF Exists
    <3>9. Unsent(q) => Unsent(rows[i])
      BY <3>7, <3>8 DEF Unsent, Offered, PhysicalOutcome
    <3>10. Keeps(q, rows[i])
      BY <3>4, <3>7, <3>8, <3>9 DEF Keeps
    <3>11. \A j \in Ids : Keeps(rows'[j], rows[j])
      BY <3>2, <3>6, <3>10
    <3> QED
      BY <1>2, <3>11, LeaseRows
  <2> QED
    BY <2>2, <2>3
<1> QED
  BY <1>4, <1>5, <1>6, <1>7

\* Initially nothing is claimed and nothing is sent.
LEMMA LeaseInit == ASSUME OutboxAssumption, OutboxInit PROVE LeaseInv
<1>1. \A i \in Ids : ~rows[i].stale
  BY DEF OutboxInit, NewRow, NoRow
<1>2. \A i \in Ids : Clean(i, gw, late)
  BY DEF OutboxInit, Clean, NoJob
<1>3. \A w \in Workers : ~Holds(work[w])
  BY DEF OutboxInit, IdleW, Holds
<1>4. sync.pc # "answered"
  BY DEF OutboxInit, IdleS
<1> QED
  BY <1>1, <1>2, <1>3, <1>4 DEF LeaseInv, HolderInv

\* Every step keeps it where no worker dies, no lease runs out and no answer is an untyped 5xx.
LEMMA LeaseNext ==
    ASSUME OutboxAssumption, "crash" \notin Faults, "http5xx" \notin Faults, IInv, LeaseInv, [OutboxNext]_outboxVars
    PROVE  LeaseInv'
<1>1. CASE UNCHANGED outboxVars
  BY <1>1 DEF outboxVars, LeaseInv
<1>2. ASSUME NEW w \in Workers, Submit(w)
      PROVE  LeaseInv'
  <2>1. ~crash(w) /\ ~postFailed(w)
    BY DEF crash, postFailed
  <2>2. ASSUME NEW i \in Ids, load(w, i)
        PROVE  LeaseInv'
    <3> DEFINE x == [IdleW EXCEPT !.pc = "loaded", !.row = i, !.attempts = rows[i].attempts,
                                  !.printer = rows[i].printer]
    <3>1. PutW(w, x) /\ UNCHANGED <<rows, gw, late, sync>>
      BY <2>2, Zenon DEF load
    <3>2. ~Holds(x)
      BY DEF IdleW, Holds
    <3> HIDE DEF x
    <3> QED
      BY <3>1, <3>2, LeaseIdle
  <2> QED
    BY <1>2, <2>1, <2>2, LeaseClaim, LeasePost, LeaseRecord, LeaseFailover DEF Submit
<1>3. ASSUME NEW i \in Ids, \/ expireLease(i) \/ syncAsk(i) \/ action_retry(i) \/ cleanup(i)
                            \/ gatewayStep(i) \/ gatewayPurge(i)
      PROVE  LeaseInv'
  <2>1. ~expireLease(i)
    BY DEF expireLease
  <2> QED
    BY <1>3, <2>1, LeaseSync, LeaseManaged, LeaseGateway
<1>4. CASE \/ \E q \in late : deliverLate(q)
           \/ syncFailed \/ syncApply
           \/ \E o \in Operators : \/ \E i \in Ids : readReprints(o, i)
                                   \/ action_force_reprint(o)
  BY <1>4, LeaseSync, LeaseManaged, LeaseGateway
<1> QED
  BY <1>1, <1>2, <1>3, <1>4 DEF OutboxNext

\* Where no worker dies or is overtaken and no answer is an untyped 5xx, a row that action_retry
\* accepts has no job at the Gateway and no request under way: the retry never doubles a print.
THEOREM RetriesAreSafe ==
    ASSUME OutboxAssumption, "crash" \notin Faults, "http5xx" \notin Faults
    PROVE  OutboxSpec => []RetryIsSafe
<1>1. OutboxInit => IInv /\ LeaseInv
  BY InitHolds, LeaseInit
<1>2. IInv /\ LeaseInv /\ [OutboxNext]_outboxVars => IInv' /\ LeaseInv'
  BY NextHolds, LeaseNext
<1>3. LeaseInv => RetryIsSafe
  BY DEF LeaseInv, RetryIsSafe, Unsent, Offered, Clean
<1> QED
  BY <1>1, <1>2, <1>3, PTL DEF OutboxSpec

-----------------------------------------------------------------------------
(* The reprint counters                                                    *)

\* How a row may change without touching the counters.
Counts(q, r) ==
    /\ q.status # "none" => r.status # "none" /\ q.key = r.key /\ q.reprints = r.reprints
    /\ r # NoRow => q # NoRow

\* Rows change, and neither a key nor a counter does.
LEMMA ReprintRows ==
    ASSUME IInv, ReprintInv, \A k \in Ids : Counts(rows'[k], rows[k]), ops' = ops
    PROVE  ReprintInv'
<1>1. CounterCoversReprints'
  BY DEF ReprintInv, CounterCoversReprints, Counts, Exists
<1>2. \A i, j \in Ids : Exists(j)' /\ rows'[j].key[1] = i /\ rows'[j].key[2] # 0 => rows'[i] # NoRow
  BY DEF ReprintInv, Counts, Exists
<1>3. \A o \in Operators : ops'[o][1] # 0 => rows'[ops'[o][1]] # NoRow
  <2>1. \A o \in Operators : ops[o][1] # 0 => ops[o][1] \in Ids
    BY DEF IInv, Ids
  <2> QED
    BY <2>1 DEF ReprintInv, Counts
<1> QED
  BY <1>1, <1>2, <1>3 DEF ReprintInv

\* One row changes without touching the counters.
LEMMA ReprintRow ==
    ASSUME IInv, ReprintInv, NEW i \in Ids, NEW q, rows' = [rows EXCEPT ![i] = q], Counts(q, rows[i]), ops' = ops
    PROVE  ReprintInv'
<1>1. \A k \in Ids : rows'[k] = IF k = i THEN q ELSE rows[k]
  BY DEF IInv
<1>2. \A k \in Ids : Counts(rows[k], rows[k])
  BY DEF Counts
<1>3. \A k \in Ids : Counts(rows'[k], rows[k])
  BY <1>1, <1>2
<1> QED
  BY <1>3, ReprintRows

\* Rows stay as they are.
LEMMA ReprintSame ==
    ASSUME IInv, ReprintInv, rows' = rows, ops' = ops
    PROVE  ReprintInv'
<1>1. \A k \in Ids : Counts(rows'[k], rows[k])
  BY DEF Counts
<1> QED
  BY <1>1, ReprintRows

\* The submission moves no counter.
LEMMA ReprintSubmit ==
    ASSUME OutboxAssumption, IInv, ReprintInv, NEW w \in Workers, Submit(w)
    PROVE  ReprintInv'
<1> DEFINE i == work[w].row
<1>1. work[w] \in Worker /\ i \in Ids /\ WorkInv(work[w], gw)
  BY DEF IInv, WorkInv, Worker
<1>2. rows[i] \in OutboxRow
  BY <1>1 DEF IInv, RowInv
<1>3. ops' = ops
  BY DEF Submit, load, claimLease, postAccepted, postFailed, postUnsent, postLost, postRefused, record, failover, crash
<1>4. CASE rows' = rows
  BY <1>3, <1>4, ReprintSame
<1>5. CASE claimLease(w) /\ rows' # rows
  <2> DEFINE c == claims + 1
             q == [rows[i] EXCEPT !.token = c, !.stale = FALSE]
  <2>1. rows' = [rows EXCEPT ![i] = q] /\ Claimable(rows[i])
    BY <1>1, <1>5 DEF claimLease, IInv
  <2> HIDE DEF c, i
  <2>2. q.status = rows[i].status /\ q.key = rows[i].key /\ q.reprints = rows[i].reprints
    BY <1>2 DEF OutboxRow
  <2>3. q.status # "none"
    BY <2>1, <2>2 DEF Claimable
  <2> HIDE DEF q
  <2>4. Counts(q, rows[i])
    BY <2>2, <2>3, NoRowIs DEF Counts
  <2> QED
    BY <1>1, <1>3, <2>1, <2>4, ReprintRow
<1>6. CASE record(w) /\ rows' # rows
  <2> DEFINE q == Outcome(w, rows[i])
  <2>1. Owns(w) /\ work[w].pc = "answered" /\ rows' = [rows EXCEPT ![i] = Released(q)]
    BY <1>6 DEF record
  <2>2. ~rows[i].gid /\ rows[i].status = "queued"
    BY <2>1, OwnedIs
  <2>3. work[w].resp # "none" /\ (work[w].resp = "ok" => work[w].seen # "none")
    BY <1>1, <2>1 DEF WorkInv
  <2>4. Written(q, rows[i], work[w].resp, work[w].seen)
    BY <1>1, <1>2, <2>2, <2>3, OutcomeIs
  <2> HIDE DEF q, i
  <2>5. q \in OutboxRow /\ q.key = rows[i].key /\ q.reprints = rows[i].reprints /\ q.status # "none"
    BY <2>2, <2>4 DEF Written
  <2> DEFINE p == Released(q)
  <2>6. p.status = q.status /\ p.key = q.key /\ p.reprints = q.reprints
    BY <2>5, ReleasedIs DEF OutboxAssumption
  <2> HIDE DEF p
  <2>7. Counts(p, rows[i])
    BY <2>2, <2>5, <2>6, NoRowIs DEF Counts
  <2> QED
    BY <1>1, <1>3, <2>1, <2>7, ReprintRow DEF p
<1>7. CASE failover(w) /\ rows' # rows
  <2> DEFINE q == [rows[i] EXCEPT !.printer = "backup", !.err = "retry"]
  <2>1. Owns(w) /\ work[w].pc = "answered" /\ rows' = [rows EXCEPT ![i] = q]
    BY <1>1, <1>7 DEF failover, IInv
  <2>2. rows[i].status = "queued"
    BY <2>1, OwnedIs
  <2>3. q.status = rows[i].status /\ q.key = rows[i].key /\ q.reprints = rows[i].reprints
    BY <1>2 DEF OutboxRow
  <2> HIDE DEF q, i
  <2>4. Counts(q, rows[i])
    BY <2>2, <2>3, NoRowIs DEF Counts
  <2> QED
    BY <1>1, <1>3, <2>1, <2>4, ReprintRow
<1>8. rows' = rows \/ claimLease(w) \/ record(w) \/ failover(w)
  BY DEF Submit, load, postAccepted, postFailed, postUnsent, postLost, postRefused, crash
<1> QED
  BY <1>4, <1>5, <1>6, <1>7, <1>8

\* Leases that run out, the Gateway, the synchronisation and the retention move no counter.
LEMMA ReprintQuiet ==
    ASSUME OutboxAssumption, IInv, ReprintInv,
           \/ \E q \in late : deliverLate(q)
           \/ \E i \in Ids : expireLease(i) \/ syncAsk(i) \/ cleanup(i) \/ gatewayStep(i) \/ gatewayPurge(i)
           \/ syncFailed \/ syncApply
    PROVE  ReprintInv'
<1>1. ops' = ops
  BY DEF deliverLate, expireLease, syncAsk, cleanup, gatewayStep, gatewayPurge, syncFailed, syncApply
<1>2. CASE rows' = rows
  BY <1>1, <1>2, ReprintSame
<1>3. ASSUME NEW i \in Ids, expireLease(i)
      PROVE  ReprintInv'
  <2> DEFINE q == [rows[i] EXCEPT !.stale = TRUE]
  <2>1. rows' = [rows EXCEPT ![i] = q] /\ rows[i].token # 0 /\ rows[i] \in OutboxRow
    BY <1>3 DEF expireLease, IInv, RowInv
  <2>2. q.status = rows[i].status /\ q.key = rows[i].key /\ q.reprints = rows[i].reprints /\ q.token # 0
    BY <2>1 DEF OutboxRow
  <2> HIDE DEF q
  <2>3. Counts(q, rows[i])
    BY <2>2, NoRowIs DEF Counts
  <2> QED
    BY <1>1, <2>1, <2>3, ReprintRow
<1>4. ASSUME NEW i \in Ids, cleanup(i)
      PROVE  ReprintInv'
  <2>1. rows' = [rows EXCEPT ![i] = Deleted]
    BY <1>4, Zenon DEF cleanup
  <2>2. Deleted # NoRow /\ Deleted.status = "none"
    BY DEF Deleted, NoRow
  <2>3. Counts(Deleted, rows[i])
    BY <2>2 DEF Counts
  <2> QED
    BY <1>1, <2>1, <2>3, ReprintRow
<1>5. CASE syncApply
  <2> DEFINE i == sync.row
             q == Answered(rows[i], sync.gid, sync.body)
  <2>1. /\ i \in Ids /\ sync.gid \in BOOLEAN /\ sync.body \in GwStatus
        /\ sync.body # "none" => gw[i].status \in After(sync.body)
    BY <1>5 DEF IInv, SyncInv, Sync, syncApply
  <2>2. rows' = [rows EXCEPT ![i] = q]
    BY <1>5, Zenon DEF syncApply, Answered
  <2>3. RowInv(rows[i], gw[i].status)
    BY <2>1, Zenon DEF IInv
  <2>4. Polled(q, rows[i])
    BY <2>1, <2>3, AnsweredFits
  <2>5. ASSUME rows[i].status = "none"
        PROVE  q = rows[i]
    <3>1. ~rows[i].gid
      BY <2>3, <2>5 DEF RowInv
    <3>2. MarkMissing(rows[i], sync.gid) = rows[i] /\ Identified(rows[i]) = rows[i]
      BY <2>5 DEF MarkMissing, Identified
    <3> QED
      BY <3>1, <3>2 DEF Answered
  <2> HIDE DEF q, i
  <2>6. NoRow.status = "none"
    BY DEF NoRow
  <2>7. Counts(q, rows[i])
    BY <2>4, <2>5, <2>6 DEF Counts, Polled
  <2> QED
    BY <1>1, <2>1, <2>2, <2>7, ReprintRow
<1>6. \/ rows' = rows \/ syncApply
      \/ \E i \in Ids : expireLease(i) \/ cleanup(i)
  BY DEF deliverLate, syncAsk, gatewayStep, gatewayPurge, syncFailed
<1> QED
  BY <1>2, <1>3, <1>4, <1>5, <1>6

\* A number below a counter stays below one that grew.
LEMMA CountsChain == \A a, b, c \in Nat : a <= b /\ b <= c => a <= c
OBVIOUS

\* action_retry gives the new row a key of its own; action_force_reprint a derived one, with its number
\* in the counter of the original. No row is derived from an id that was never used.
LEMMA ReprintOperator ==
    ASSUME OutboxAssumption, IInv, ReprintInv,
           \/ \E i \in Ids : action_retry(i)
           \/ \E o \in Operators : (\E i \in Ids : readReprints(o, i)) \/ action_force_reprint(o)
    PROVE  ReprintInv'
<1>1. ops \in [Operators -> (0..MaxRows) \X Nat] /\ \A j \in Ids : rows[j] \in OutboxRow
  BY DEF IInv, RowInv
<1>2. \A i, j \in Ids : Exists(j) /\ rows[j].key[1] = i /\ rows[j].key[2] # 0 => rows[i] # NoRow
  BY DEF ReprintInv
<1>3. \A o \in Operators : ops[o][1] # 0 => ops[o][1] \in Ids /\ rows[ops[o][1]] # NoRow
  BY <1>1 DEF ReprintInv, Ids
<1>4. \A k, p : NewRow(k, p).key = k /\ NewRow(k, p).status # "none" /\ NewRow(k, p).reprints = 0
  BY DEF NewRow, NoRow
<1>5. NoRow.status = "none"
  BY DEF NoRow
<1>6. ASSUME NEW i \in Ids, action_retry(i)
      PROVE  ReprintInv'
  <2> DEFINE k == <<NextId, 0>>
             n == NewRow(k, rows[i].printer)
  <2>1. Free # {} /\ rows' = CreateOperation(k, rows[i].printer) /\ ops' = ops
    BY <1>6, Zenon DEF action_retry
  <2>2. k[2] = 0 /\ n.key = k /\ n.status # "none"
    BY <1>4
  <2> HIDE DEF k
  <2>3. ASSUME NEW j \in Ids
        PROVE  rows'[j] = rows[j] \/ (rows[j] = NoRow /\ rows'[j] = n)
    <3>1. Room(k)
      BY <2>1 DEF Room
    <3> DEFINE C == CreateOperation(k, rows[i].printer)
    <3>2. C[j] = rows[j] \/ (~Known(k) /\ rows[j] = NoRow /\ C[j] = n)
      BY <3>1, CreatedRows, Zenon
    <3>3. rows' = C
      BY <2>1
    <3> HIDE DEF C, n
    <3> QED
      BY <3>2, <3>3
  <2> HIDE DEF n
  <2>4. CounterCoversReprints'
    <3>1. ASSUME NEW g \in Ids, NEW j \in Ids, rows'[g].status # "none", rows'[j].status # "none",
                 rows'[j].key[1] = g, rows'[j].key[2] # 0
          PROVE  rows'[j].key[2] <= rows'[g].reprints
      <4>1. rows'[j] = rows[j]
        BY <2>2, <2>3, <3>1
      <4>2. rows[g] # NoRow
        BY <1>2, <3>1, <4>1 DEF Exists
      <4>3. rows'[g] = rows[g]
        BY <2>3, <4>2
      <4> QED
        BY <3>1, <4>1, <4>3 DEF ReprintInv, CounterCoversReprints, Exists
    <3> QED
      BY <3>1 DEF CounterCoversReprints, Exists
  <2>5. \A m, j \in Ids : Exists(j)' /\ rows'[j].key[1] = m /\ rows'[j].key[2] # 0 => rows'[m] # NoRow
    BY <1>2, <1>5, <2>2, <2>3 DEF Exists
  <2>6. \A o \in Operators : ops'[o][1] # 0 => rows'[ops'[o][1]] # NoRow
    BY <1>3, <2>1, <2>3
  <2> QED
    BY <2>4, <2>5, <2>6 DEF ReprintInv
<1>7. ASSUME NEW o \in Operators, NEW i \in Ids, readReprints(o, i)
      PROVE  ReprintInv'
  <2>1. rows' = rows /\ ops' = [ops EXCEPT ![o] = <<i, rows[i].reprints + 1>>] /\ rows[i].status # "none"
    BY <1>7 DEF readReprints
  <2>2. \A u \in Operators : ops'[u][1] # 0 => rows[ops'[u][1]] # NoRow
    BY <1>1, <1>3, <1>5, <2>1
  <2>3. CounterCoversReprints'
    BY <2>1 DEF ReprintInv, CounterCoversReprints, Exists
  <2> QED
    BY <1>2, <2>1, <2>2, <2>3 DEF ReprintInv, Exists
<1>8. ASSUME NEW o \in Operators, action_force_reprint(o)
      PROVE  ReprintInv'
  <2> DEFINE i == ops[o][1]
             n == ops[o][2]
             k == <<i, n>>
             e == NewRow(k, rows[i].printer)
             C == CreateOperation(k, rows[i].printer)
             m == Numbered(n, rows[i].reprints)
             q == [rows[i] EXCEPT !.reprints = m]
  <2>1. i # 0 /\ (Exists(i) => Room(k)) /\ ops' = [ops EXCEPT ![o] = <<0, 0>>]
    BY <1>8, Zenon DEF action_force_reprint, Room
  <2>2. i \in Ids /\ rows[i] # NoRow /\ n \in Nat /\ k \in (0..MaxRows) \X Nat
    BY <1>1, <1>3, <2>1
  <2>3. \A u \in Operators : ops'[u][1] # 0 => ops'[u] = ops[u]
    BY <1>1, <2>1
  <2>4. CASE ~Exists(i)
    <3>1. rows' = rows
      BY <1>8, <2>4 DEF action_force_reprint
    <3>2. CounterCoversReprints'
      BY <3>1 DEF ReprintInv, CounterCoversReprints, Exists
    <3>3. \A u \in Operators : ops'[u][1] # 0 => rows[ops'[u][1]] # NoRow
      BY <1>3, <2>3
    <3> QED
      BY <1>2, <3>1, <3>2, <3>3 DEF ReprintInv, Exists
  <2>5. CASE Exists(i)
    <3>1. rows' = [C EXCEPT ![i].reprints = Numbered(n, @)]
      BY <1>8, <2>5 DEF action_force_reprint
    <3>2. ASSUME NEW j \in Ids
          PROVE  C[j] = rows[j] \/ (rows[j] = NoRow /\ C[j] = e)
      BY <2>1, <2>5, CreatedRows, Zenon
    <3>3. rows[i] \in OutboxRow /\ rows[i].printer \in Printers /\ rows[i].reprints \in Nat
      BY <1>1, <2>2, RowFields
    <3>4. C = [j \in Ids |-> C[j]]
      BY <2>1, <2>2, <2>5, <3>3, CreatedFits
    <3>5. C[i] = rows[i]
      BY <2>2, <3>2
    <3>6. e.key = k /\ e.status # "none" /\ k[1] = i /\ k[2] = n
      BY <1>4
    <3> HIDE DEF C, i, n, k, e
    <3>7. \A j \in Ids : rows'[j] = IF j = i THEN q ELSE C[j]
      BY <2>2, <3>1, <3>4, <3>5
    <3>8. m \in Nat /\ n <= m /\ rows[i].reprints <= m
      BY <2>2, <3>3 DEF Numbered
    <3> HIDE DEF m
    <3>9. q.status = rows[i].status /\ q.key = rows[i].key /\ q.reprints = m
      BY <3>3 DEF OutboxRow
    <3> HIDE DEF q
    <3>10. rows[i].status # "none" /\ q # NoRow
      BY <1>5, <2>5, <3>9 DEF Exists
    <3>11. ASSUME NEW g \in Ids, NEW j \in Ids, rows'[j].status # "none", rows'[j].key[1] = g, rows'[j].key[2] # 0
           PROVE  /\ rows'[g] # NoRow
                  /\ rows'[g].status # "none" => rows'[j].key[2] <= rows'[g].reprints
      <4>1. CASE rows[j] = NoRow /\ rows'[j] = e
        <5>1. g = i /\ rows'[g] = q /\ rows'[j].key[2] = n
          BY <2>2, <3>6, <3>7, <3>11, <4>1
        <5> QED
          BY <3>8, <3>9, <3>10, <5>1
      <4>2. CASE rows'[j].status = rows[j].status /\ rows'[j].key = rows[j].key
        <5>1. rows[g] # NoRow
          BY <1>2, <3>11, <4>2 DEF Exists
        <5>2. rows'[g] # NoRow /\ (g # i => rows'[g] = rows[g])
          BY <3>2, <3>7, <3>10, <5>1
        <5>3. rows[g].status # "none" => rows[j].key[2] <= rows[g].reprints
          BY <3>11, <4>2 DEF ReprintInv, CounterCoversReprints, Exists
        <5>4. CASE g # i
          BY <4>2, <5>2, <5>3, <5>4
        <5>5. CASE g = i
          <6>1. rows'[g].reprints = m /\ rows[j].key[2] <= rows[i].reprints
            BY <2>2, <3>7, <3>9, <3>10, <5>3, <5>5
          <6>2. rows[j].key[2] \in Nat
            BY <1>1, RowFields
          <6>3. rows[j].key[2] <= m
            BY <3>3, <3>8, <6>1, <6>2, CountsChain, Zenon
          <6> QED
            BY <4>2, <5>2, <6>1, <6>3
        <5> QED
          BY <5>4, <5>5
      <4>3. \/ rows[j] = NoRow /\ rows'[j] = e
            \/ rows'[j].status = rows[j].status /\ rows'[j].key = rows[j].key
        BY <2>2, <3>2, <3>7, <3>9
      <4> QED
        BY <4>1, <4>2, <4>3
    <3>12. CounterCoversReprints'
      BY <3>11 DEF CounterCoversReprints, Exists
    <3>13. \A g, j \in Ids : Exists(j)' /\ rows'[j].key[1] = g /\ rows'[j].key[2] # 0 => rows'[g] # NoRow
      BY <3>11 DEF Exists
    <3>14. \A u \in Operators : ops'[u][1] # 0 => rows'[ops'[u][1]] # NoRow
      <4>1. SUFFICES ASSUME NEW u \in Operators, ops'[u][1] # 0
                     PROVE  rows'[ops'[u][1]] # NoRow
        OBVIOUS
      <4> DEFINE g == ops[u][1]
      <4>2. ops'[u][1] = g /\ g \in Ids /\ rows[g] # NoRow
        BY <1>3, <2>3, <4>1
      <4> HIDE DEF g
      <4>3. rows'[g] # NoRow
        BY <3>2, <3>7, <3>10, <4>2
      <4> QED
        BY <4>2, <4>3
    <3> QED
      BY <3>12, <3>13, <3>14 DEF ReprintInv
  <2> QED
    BY <2>4, <2>5
<1> QED
  BY <1>6, <1>7, <1>8

\* Initially there is one row, derived from none.
LEMMA ReprintInit == ASSUME OutboxAssumption, OutboxInit PROVE ReprintInv
<1>1. NewRow(<<0, 1>>, "primary").key = <<0, 1>> /\ NoRow.status = "none"
  BY DEF NewRow, NoRow
<1>2. \A j \in Ids : rows[j].status # "none" => rows[j].key[1] = 0
  BY <1>1 DEF OutboxInit
<1>3. 0 \notin Ids
  BY DEF Ids, OutboxAssumption
<1>4. \A o \in Operators : ops[o][1] = 0
  BY DEF OutboxInit
<1> QED
  BY <1>2, <1>3, <1>4 DEF ReprintInv, CounterCoversReprints, Exists

\* Every step keeps it.
LEMMA ReprintNext ==
    ASSUME OutboxAssumption, IInv, ReprintInv, [OutboxNext]_outboxVars
    PROVE  ReprintInv'
<1>1. CASE UNCHANGED outboxVars
  BY <1>1, ReprintSame DEF outboxVars
<1>2. CASE OutboxNext
  BY <1>2, ReprintSubmit, ReprintQuiet, ReprintOperator DEF OutboxNext
<1> QED
  BY <1>1, <1>2

\* Two operators that force a reprint of the same row, in any order and with any counter they read
\* before, never leave a derived key ahead of the counter: the next reprint gets a number of its own.
THEOREM ReprintsAreCounted == ASSUME OutboxAssumption PROVE OutboxSpec => []CounterCoversReprints
<1>1. OutboxInit => IInv /\ ReprintInv
  BY InitHolds, ReprintInit
<1>2. IInv /\ ReprintInv /\ [OutboxNext]_outboxVars => IInv' /\ ReprintInv'
  BY NextHolds, ReprintNext
<1>3. ReprintInv => CounterCoversReprints
  BY DEF ReprintInv
<1> QED
  BY <1>1, <1>2, <1>3, PTL DEF OutboxSpec

=============================================================================
