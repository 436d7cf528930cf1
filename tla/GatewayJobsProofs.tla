------------------------- MODULE GatewayJobsProofs -------------------------
(***************************************************************************)
(* Proofs about GatewayJobs, for every set of jobs and every value of the  *)
(* budgets and capacities: the hand-off of attempts and their budgets,     *)
(* what a terminal row may become, that GatewayJobs implements             *)
(* JobContract, and that the agent's executor slots are enough although    *)
(* the count a claim reads leaves out stale claims without evidence of     *)
(* delivery.                                                               *)
(***************************************************************************)
EXTENDS GatewayJobs, FiniteSetTheorems, TLAPS

-----------------------------------------------------------------------------
(* What the statements of JobRow do to a row                               *)

\* The members of the types that the SET clauses write.
LEMMA Vocabulary ==
    /\ JobStatus = {"queued", "claimed", "printing", "success", "failed", "expired"}
    /\ Fresh \in Fresh..Retention /\ NoToken \in Nat
    /\ UnknownMarker \subseteq JobError
    /\ {"null", Pending, Paused, "plain", "LATE_SUCCESS",
        "LATE_SUCCESS_POST_EXPIRATION"} \subseteq JobError
BY DEF JobStatus, LiveStatus, TerminalStatus, Fresh, Retention, NoToken, JobError

\* The statements of a delivery (job-delivery.ts) yield rows of the table's type.
LEMMA DeliveryRows ==
    ASSUME NEW r \in Row, NEW t \in Nat
    PROVE  /\ Claimed(r, t) \in Row
           /\ markJobDelivered(r) \in Row
           /\ markJobDeliveryUnknown(r) \in Row
           /\ recordJobAck(r) \in Row
           /\ releaseUndeliveredClaim(r) \in Row
<1>1. Claimed(r, t) \in Row
  <2>1. /\ r.attempts + 1 \in Nat
        /\ (IF r.status = "claimed" THEN r.retries + 1 ELSE r.retries) \in Nat
    BY DEF Row
  <2> QED
    BY <2>1, Vocabulary, ZenonT(40) DEF Row, Claimed
<1>2. markJobDelivered(r) \in Row
  BY Vocabulary, Zenon DEF Row, markJobDelivered
<1>3. markJobDeliveryUnknown(r) \in Row
  BY Vocabulary, Zenon DEF Row, markJobDeliveryUnknown, UnknownMarker
<1>4. recordJobAck(r) \in Row
  BY Vocabulary, Zenon DEF Row, recordJobAck
<1>5. releaseUndeliveredClaim(r) \in Row
  BY Vocabulary, ZenonT(40) DEF Row, releaseUndeliveredClaim
<1> QED
  BY <1>1, <1>2, <1>3, <1>4, <1>5

\* So do the statements of the sweeper (job-maintenance.ts) ...
LEMMA SweepRows ==
    ASSUME NEW r \in Row
    PROVE  /\ SweepExpired(r) \in Row
           /\ SweepRequeue(r) \in Row
           /\ SweepSilent(r) \in Row
           /\ SweepStalePrinting(r) \in Row
           /\ SweepExhausted(r) \in Row
           /\ SweepFence(r) \in Row
<1>1. SweepExpired(r) \in Row
  BY Vocabulary, ZenonT(40) DEF Row, SweepExpired, HasEvidence, UnknownMarker
<1>2. SweepRequeue(r) \in Row
  <2>1. r.retries + 1 \in Nat
    BY DEF Row
  <2> QED
    BY <2>1, Vocabulary, Zenon DEF Row, SweepRequeue
<1>3. SweepSilent(r) \in Row
  BY Vocabulary, Zenon DEF Row, SweepSilent, UnknownMarker
<1>4. SweepStalePrinting(r) \in Row
  BY Vocabulary, Zenon DEF Row, SweepStalePrinting, UnknownMarker
<1>5. SweepExhausted(r) \in Row
  BY Vocabulary, Zenon DEF Row, SweepExhausted
<1>6. SweepFence(r) \in Row
  BY Vocabulary, Zenon DEF Row, SweepFence
<1> QED
  BY <1>1, <1>2, <1>3, <1>4, <1>5, <1>6

\* ... and every UPDATE a status report leads to (PATCH /api/agent/jobs).
LEMMA PatchRows ==
    ASSUME NEW r \in Row, NEW p \in Patch, p.branch # "replay"
    PROVE  PatchedRow(r, p) \in Row
<1>1. PatchExpire(r) \in Row
  BY Vocabulary, ZenonT(40) DEF Row, PatchExpire, HasEvidence, UnknownMarker
<1>2. ASSUME NEW e \in JobError, NEW f \in BOOLEAN
      PROVE  PatchRequeue(r, e, f) \in Row
  <2>1. /\ r.retries + 1 \in Nat
        /\ (IF f /\ r.attempts > 0 THEN r.attempts - 1 ELSE r.attempts) \in Nat
    BY DEF Row
  <2> QED
    BY <2>1, Vocabulary, ZenonT(40) DEF Row, PatchRequeue
<1>3. ASSUME NEW to \in JobStatus, NEW e \in JobError, NEW t \in Nat
      PROVE  PatchClose(r, to, e, t) \in Row
  BY Vocabulary, ZenonT(40) DEF Row, PatchClose
<1>4. /\ p.token \in Nat /\ p.to \in JobStatus /\ p.error \in JobError
      /\ p.branch \in Branch
  BY DEF Patch
<1>5. /\ "success" \in JobStatus
      /\ {"AGENT_RESTART_DURING_PRINT", Paused, "plain", "LATE_SUCCESS",
          "LATE_SUCCESS_POST_EXPIRATION"} \subseteq JobError
  BY Vocabulary DEF UnknownMarker
<1>6. CASE p.branch = "expire"
  BY <1>6, <1>1 DEF PatchedRow
<1>7. CASE p.branch = "crashRequeue"
  BY <1>7, <1>2, <1>5, Zenon DEF PatchedRow
<1>8. CASE p.branch = "reject"
  BY <1>8, <1>2, <1>5, Zenon DEF PatchedRow
<1>9. CASE p.branch = "lateExpired"
  BY <1>9, <1>3, <1>4, <1>5 DEF PatchedRow
<1>10. CASE p.branch = "late"
  BY <1>10, <1>3, <1>4, <1>5 DEF PatchedRow
<1>11. CASE p.branch = "transition"
  BY <1>11, <1>3, <1>4 DEF PatchedRow
<1> QED
  BY <1>4, <1>6, <1>7, <1>8, <1>9, <1>10, <1>11 DEF Branch

\* The rows of an initial state, and the two clocks.
LEMMA InitialRows ==
    /\ QueuedRow \in Row /\ LegacyRow(1) \in Row /\ LegacyRow(MAX_DELIVERY_ATTEMPTS) \in Row
    /\ \A r \in Row : [r EXCEPT !.error = "null"] \in Row
    /\ \A r \in Row : [r EXCEPT !.age = Fresh] \in Row
    /\ \A r \in Row : r.age < Retention => [r EXCEPT !.age = @ + 1] \in Row
    /\ \A r \in Row : r.ttl < GraceOver => [r EXCEPT !.ttl = @ + 1] \in Row
<1>1. Unexpired \in Unexpired..GraceOver /\ StaleClaim \in Fresh..Retention
  BY DEF Unexpired, GraceOver, StaleClaim, Fresh, Retention
<1>2. QueuedRow \in Row
  BY <1>1, Vocabulary DEF QueuedRow, Row
<1>3. ASSUME NEW n \in Nat
      PROVE  LegacyRow(n) \in Row
  BY <1>1, Vocabulary, Zenon DEF LegacyRow, QueuedRow, Row
<1>4. ASSUME NEW r \in Row, r.age < Retention
      PROVE  [r EXCEPT !.age = @ + 1] \in Row
  <2>1. r.age + 1 \in Fresh..Retention
    BY <1>4 DEF Row, Fresh, Retention
  <2> QED
    BY <2>1 DEF Row
<1>5. ASSUME NEW r \in Row, r.ttl < GraceOver
      PROVE  [r EXCEPT !.ttl = @ + 1] \in Row
  <2>1. r.ttl + 1 \in Unexpired..GraceOver
    BY <1>5 DEF Row, Unexpired, GraceOver
  <2> QED
    BY <2>1 DEF Row
<1>6. ASSUME NEW r \in Row
      PROVE  [r EXCEPT !.error = "null"] \in Row /\ [r EXCEPT !.age = Fresh] \in Row
  BY Vocabulary DEF Row
<1> QED
  BY <1>2, <1>3, <1>4, <1>5, <1>6, BudgetAssumption, Zenon

\* A report is routed to one of the UPDATEs of the PATCH handler or refused.
LEMMA BranchType ==
    ASSUME NEW r, NEW q
    PROVE  PatchBranch(r, q) \in Branch \cup {"refuse"}
BY DEF PatchBranch, Branch

\* Where a report is routed: an UPDATE that ends or requeues an attempt is only
\* chosen for a live row, and only an expiry report may come without a token.
LEMMA BranchFacts ==
    ASSUME NEW r, NEW q, r.status \in JobStatus,
           q.to \in {"printing", "success", "failed", "queued", "expired"}
    PROVE  /\ PatchBranch(r, q) \notin {"expire", "refuse"} => q.token # NoToken
           /\ PatchBranch(r, q) \in {"expire", "crashRequeue", "reject", "transition"}
                => r.status \in LiveStatus
           /\ PatchBranch(r, q) = "transition" => q.to \in {"printing", "success", "failed"}
<1> USE DEF JobStatus, LiveStatus, TerminalStatus
<1>1. canTransition(r.status, q.to, FALSE) =>
        r.status \in LiveStatus /\ q.to \in {"printing", "success", "failed", "queued"}
  BY DEF canTransition, Transition
<1>2. canTransition(r.status, "queued", FALSE) => r.status = "claimed"
  BY DEF canTransition, Transition
<1>3. PatchBranch(r, q) \notin {"expire", "refuse"} => q.token # NoToken
  BY Zenon DEF PatchBranch
<1>4. PatchBranch(r, q) = "expire" => r.status \in LiveStatus
  BY DEF PatchBranch, isTerminal
<1>5. PatchBranch(r, q) \in {"crashRequeue", "reject"} => r.status \in LiveStatus
  BY DEF PatchBranch
<1>6. PatchBranch(r, q) = "transition" =>
        /\ r.status = "printing" \/ canTransition(r.status, q.to, FALSE)
        /\ q.to # "queued" \/ r.status \notin {"claimed", "printing"}
        /\ q.to = "printing" \/ canTransition(r.status, q.to, FALSE)
  BY Zenon DEF PatchBranch
<1> QED
  BY <1>1, <1>2, <1>3, <1>4, <1>5, <1>6, Zenon

-----------------------------------------------------------------------------
(* Type correctness                                                        *)

\* No statement writes a status, marker, counter or age outside the schema.
LEMMA NextType == TypeOK /\ [Next]_vars => TypeOK'
<1> SUFFICES ASSUME TypeOK, [Next]_vars
             PROVE  TypeOK'
  OBVIOUS
<1>0. ASSUME NEW j \in Jobs, NEW r \in Row, Update(j, r)
      PROVE  row' \in [Jobs -> Row]
  BY <1>0 DEF TypeOK, Update
<1>a. ASSUME NEW j \in Jobs
      PROVE  /\ row[j] \in Row /\ minted[j] \in Nat /\ minted[j] + 1 \in Nat
             /\ handed[j] \subseteq Nat
  BY DEF TypeOK
<1>1. ASSUME NEW j \in Jobs, insertQueuedJob(j)
      PROVE  TypeOK'
  BY <1>1, <1>0, InitialRows DEF insertQueuedJob, TypeOK, Stages
<1>2. ASSUME NEW j \in Jobs, claimJobForDelivery(j)
      PROVE  TypeOK'
  <2>1. row' \in [Jobs -> Row]
    BY <1>2, <1>0, <1>a, DeliveryRows, SMTT(30) DEF claimJobForDelivery
  <2>2. pushes' \subseteq Push
    BY <1>2, <1>a DEF claimJobForDelivery, TypeOK, Push, PushStep
  <2> QED
    BY <1>2, <1>a, <2>1, <2>2, Zenon DEF claimJobForDelivery, TypeOK
<1>3. ASSUME NEW p \in pushes, PushNext(p)
      PROVE  TypeOK'
  <2>1. p \in Push /\ p.job \in Jobs /\ p.token \in Nat
    BY DEF TypeOK, Push
  <2>2. ASSUME NEW o \in {"sent", "ambiguous", "not_sent"}, sendJobToAgent(p, o)
        PROVE  TypeOK'
    <3>1. [p EXCEPT !.pc = o] \in Push
      BY <2>1, <2>2 DEF Push, PushStep
    <3> QED
      BY <2>1, <2>2, <3>1 DEF sendJobToAgent, TypeOK
  <2>3. CASE pushDelivered(p)
    <3>1. [p EXCEPT !.pc = "ambiguous"] \in Push
      BY <2>1 DEF Push, PushStep
    <3>2. row' \in [Jobs -> Row]
      BY <2>1, <2>3, <1>0, <1>a, DeliveryRows DEF pushDelivered, TypeOK
    <3> QED
      BY <2>3, <3>1, <3>2 DEF pushDelivered, TypeOK
  <2>4. CASE pushUnknown(p)
    <3>1. row' \in [Jobs -> Row]
      BY <2>1, <2>4, <1>0, <1>a, DeliveryRows DEF pushUnknown, TypeOK
    <3> QED
      BY <2>4, <3>1 DEF pushUnknown, TypeOK
  <2>5. CASE pushRelease(p)
    <3>1. row' \in [Jobs -> Row]
      BY <2>1, <2>5, <1>0, <1>a, DeliveryRows DEF pushRelease, TypeOK
    <3> QED
      BY <2>5, <3>1 DEF pushRelease, TypeOK
  <2> QED
    BY <1>3, <2>2, <2>3, <2>4, <2>5 DEF PushNext
<1>4. ASSUME NEW S \in SUBSET Jobs, pollJobs(S)
      PROVE  TypeOK'
  <2>1. \A j \in Jobs : Claimed(row[j], minted[j] + 1) \in Row
    BY <1>a, DeliveryRows
  <2> QED
    BY <1>4, <1>a, <2>1 DEF pollJobs, TypeOK
<1>5. ASSUME NEW j \in Jobs, AgentNext(j)
      PROVE  TypeOK'
  <2>1. ASSUME NEW t \in handed[j], jobAck(j, t)
        PROVE  TypeOK'
    BY <2>1, <1>0, <1>a, DeliveryRows DEF jobAck, TypeOK
  <2>2. ASSUME NEW t \in handed[j], heartbeatKeepAlive(j, t)
        PROVE  TypeOK'
    BY <2>2, <1>0, <1>a, InitialRows DEF heartbeatKeepAlive, TypeOK
  <2>3. CASE heartbeatResume(j)
    BY <2>3, <1>0, <1>a, InitialRows DEF heartbeatResume, TypeOK
  <2>4. ASSUME NEW q \in Report, NEW t \in handed[j] \cup {NoToken}, patchRead(j, q, t)
        PROVE  TypeOK'
    <3> DEFINE branch == PatchBranch(row[j], Request(q, t))
               p == [job |-> j, token |-> t, to |-> q.to, error |-> q.error,
                     reason |-> q.reason, from |-> row[j].status, branch |-> branch]
    <3>1. branch \in Branch
      BY <2>4, BranchType DEF patchRead
    <3>2. q.to \in JobStatus /\ q.error \in JobError /\ q.reason \in Reason
      BY Vocabulary DEF Report, Reason, UnknownMarker
    <3>3. row[j].status \in JobStatus /\ t \in Nat
      BY <1>a DEF Row, NoToken
    <3>4. p \in Patch
      BY <3>1, <3>2, <3>3 DEF Patch
    <3>5. patches' = patches \cup {p}
      BY <2>4 DEF patchRead
    <3> QED
      BY <2>4, <3>4, <3>5, SMTT(30) DEF patchRead, TypeOK
  <2> QED
    BY <1>5, <2>1, <2>2, <2>3, <2>4 DEF AgentNext
<1>6. ASSUME NEW p \in patches, patchWrite(p)
      PROVE  TypeOK'
  <2>1. p \in Patch /\ p.job \in Jobs /\ p.token \in Nat
    BY DEF TypeOK, Patch
  <2>2. row' \in [Jobs -> Row]
    BY <1>6, <2>1, <1>0, <1>a, PatchRows DEF patchWrite, TypeOK
  <2>3. returned' \in [Jobs -> SUBSET Nat]
    BY <1>6, <2>1 DEF patchWrite, TypeOK
  <2> QED
    BY <1>6, <2>2, <2>3 DEF patchWrite, TypeOK
<1>7. ASSUME NEW j \in Jobs, SweepNext(j)
      PROVE  TypeOK'
  <2>1. CASE sweepExpired(j)
    BY <2>1, <1>0, <1>a, SweepRows DEF sweepExpired, Sweep, TypeOK
  <2>2. CASE sweepRequeuedClaims(j)
    BY <2>2, <1>0, <1>a, SweepRows DEF sweepRequeuedClaims, Sweep, TypeOK
  <2>3. CASE sweepSilent(j)
    BY <2>3, <1>0, <1>a, SweepRows DEF sweepSilent, Sweep, TypeOK
  <2>4. CASE sweepStalePrinting(j)
    BY <2>4, <1>0, <1>a, SweepRows DEF sweepStalePrinting, Sweep, TypeOK
  <2>5. CASE sweepExhaustedClaims(j) \/ sweepExhaustedQueued(j)
    BY <2>5, <1>0, <1>a, SweepRows DEF sweepExhaustedClaims, sweepExhaustedQueued, Sweep, TypeOK
  <2>6. CASE sweepFences(j)
    BY <2>6, <1>0, <1>a, SweepRows DEF sweepFences, Sweep, TypeOK
  <2>7. CASE cleanupTerminalPrintJobs(j)
    BY <2>7 DEF cleanupTerminalPrintJobs, Archive, TypeOK, Stages
  <2> QED
    BY <1>7, <2>1, <2>2, <2>3, <2>4, <2>5, <2>6, <2>7 DEF SweepNext
<1>8. ASSUME NEW j \in Jobs, deleteTerminalJobs(j)
      PROVE  TypeOK'
  BY <1>8 DEF deleteTerminalJobs, Archive, TypeOK, Stages
<1>9. ASSUME NEW j \in Jobs, tickAge(j) \/ tickTtl(j)
      PROVE  TypeOK'
  BY <1>9, <1>0, <1>a, InitialRows DEF tickAge, tickTtl, TypeOK
<1>10. CASE changeAdmission
  BY <1>10 DEF changeAdmission, TypeOK
<1>11. CASE UNCHANGED vars
  BY <1>11 DEF vars, TypeOK
<1> QED
  BY <1>1, <1>2, <1>3, <1>4, <1>5, <1>6, <1>7, <1>8, <1>9, <1>10, <1>11 DEF Next

\* Every state the Gateway reaches is well typed: no statement writes a status,
\* marker, counter or age outside the schema.
THEOREM TypeCorrect == Spec => []TypeOK
<1>1. Init => TypeOK
  BY InitialRows DEF Init, TypeOK, Stages, Admission
<1> QED
  BY <1>1, NextType, PTL DEF Spec


-----------------------------------------------------------------------------
(* How the statements preserve RowInv and Paid                             *)

\* The situation in which a statement meets a row r: n tokens were minted, the
\* tokens h handed over and b given back.
Meets(r, n, h, b) == /\ r \in Row /\ n \in Nat /\ h \subseteq 1..n /\ b \subseteq h
                     /\ RowInv(r, n, h, b) /\ Paid(r, n)

\* The statement leaves the row consistent, and a claim whose frame is being
\* sent stays that claim or ends.
Keeps(r, s, n, h, b) ==
    /\ RowInv(s, n, h, b) /\ Paid(s, n)
    /\ s.status \in LiveStatus =>
         /\ r.status \in LiveStatus
         /\ r.status = "claimed" /\ r.token # NoToken =>
              s.status = "claimed" /\ s.token = r.token

\* Neither claim path finds a token in the agent's hands, and the new claim is
\* paid for from the two budgets.
LEMMA ClaimKeeps ==
    ASSUME NEW r, NEW n, NEW h, NEW b, Meets(r, n, h, b), PollClaimable(r)
    PROVE  /\ h \ b = {}
           /\ r.status = "queued" \/ (r.status = "claimed" /\ r.token = NoToken)
           /\ RowInv(Claimed(r, n + 1), n + 1, h, b)
           /\ RowInv(Claimed(r, n + 1), n + 1, h \cup {n + 1}, b)
           /\ Paid(Claimed(r, n + 1), n + 1)
<1> USE DEF Meets
<1>1. r.status = "queued" \/ (r.status = "claimed" /\ r.token = NoToken)
  BY DEF PollClaimable, QueuedClaimable, Reclaimable, RowInv
<1>2. HasBudget(r)
  BY DEF PollClaimable, QueuedClaimable, Reclaimable
<1>3. h \ b = {}
  BY <1>1 DEF RowInv, NoToken
<1>4. /\ Claimed(r, n + 1).status = "claimed" /\ Claimed(r, n + 1).token = n + 1
      /\ Claimed(r, n + 1).claimedAt /\ Claimed(r, n + 1).error = Pending
      /\ Claimed(r, n + 1).attempts = r.attempts + 1
      /\ Claimed(r, n + 1).retries \in {r.retries, r.retries + 1}
  BY DEF Claimed, Row
<1>5. n + 1 \notin b /\ n + 1 \notin h
  OBVIOUS
<1>6. Paid(Claimed(r, n + 1), n + 1)
  BY <1>2, <1>4, BudgetAssumption DEF Paid, HasBudget, Row
<1>7. ASSUME NEW g, g = h \/ g = h \cup {n + 1}
      PROVE  RowInv(Claimed(r, n + 1), n + 1, g, b)
  <2>1. HasEvidence(Claimed(r, n + 1))
    BY <1>4 DEF HasEvidence
  <2>2. g \ b \subseteq {n + 1}
    BY <1>3, <1>7, Zenon
  <2>3. n + 1 <= n + 1
    OBVIOUS
  <2> HIDE DEF Meets
  <2> QED
    BY <1>4, <1>5, <2>1, <2>2, <2>3 DEF RowInv, isTerminal, TerminalStatus
<1> QED
  BY <1>1, <1>3, <1>6, <1>7

\* The evidence writes of an attempt that still owns the row.
LEMMA DeliveryKeeps ==
    ASSUME NEW r, NEW n, NEW h, NEW b, Meets(r, n, h, b)
    PROVE  /\ r.status \in {"claimed", "printing"} => Keeps(r, markJobDelivered(r), n, h, b)
           /\ r.status = "claimed" => Keeps(r, markJobDeliveryUnknown(r), n, h, b)
           /\ r.status \in {"claimed", "printing"} => Keeps(r, recordJobAck(r), n, h, b)
           /\ Keeps(r, [r EXCEPT !.age = Fresh], n, h, b)
           /\ r.status = "queued" => Keeps(r, [r EXCEPT !.error = "null"], n, h, b)
<1> USE DEF Meets, Keeps, RowInv, Paid, isTerminal, TerminalStatus, LiveStatus
<1>1. ASSUME r.status \in {"claimed", "printing"}
      PROVE  Keeps(r, markJobDelivered(r), n, h, b)
  BY <1>1 DEF markJobDelivered, Row, HasEvidence
<1>2. ASSUME r.status = "claimed"
      PROVE  Keeps(r, markJobDeliveryUnknown(r), n, h, b)
  BY <1>2 DEF markJobDeliveryUnknown, Row, UnknownMarker
<1>3. ASSUME r.status \in {"claimed", "printing"}
      PROVE  Keeps(r, recordJobAck(r), n, h, b)
  BY <1>3 DEF recordJobAck, Row, HasEvidence
<1>4. Keeps(r, [r EXCEPT !.age = Fresh], n, h, b)
  BY DEF Row, HasEvidence
<1>5. ASSUME r.status = "queued"
      PROVE  Keeps(r, [r EXCEPT !.error = "null"], n, h, b)
  BY <1>5 DEF Row, HasEvidence
<1> QED
  BY <1>1, <1>2, <1>3, <1>4, <1>5

\* A push that knows its frame was not sent may take its claim back.
LEMMA ReleaseKeeps ==
    ASSUME NEW r, NEW n, NEW h, NEW b, NEW t, Meets(r, n, h, b),
           Releasable(r, t), t \notin h, t # NoToken
    PROVE  /\ RowInv(releaseUndeliveredClaim(r), n, h, b)
           /\ Paid(releaseUndeliveredClaim(r), n)
<1>1. h \ b = {}
  BY DEF Meets, RowInv, Releasable
<1>2. 0 \notin b
  BY DEF Meets
<1> QED
  BY <1>1, <1>2 DEF Meets, RowInv, Paid, Releasable, releaseUndeliveredClaim, Row, NoToken,
                    isTerminal, TerminalStatus, HasEvidence

\* The sweeper ends or requeues only what the agent cannot hold.
LEMMA SweepKeeps ==
    ASSUME NEW r, NEW n, NEW h, NEW b, Meets(r, n, h, b)
    PROVE  /\ SweepExpiredCand(r) => Keeps(r, SweepExpired(r), n, h, b)
           /\ SweepRequeueCand(r) => Keeps(r, SweepRequeue(r), n, h, b)
           /\ SweepSilentCand(r) => Keeps(r, SweepSilent(r), n, h, b)
           /\ SweepStalePrintingCand(r) => Keeps(r, SweepStalePrinting(r), n, h, b)
           /\ SweepExhaustedClaimCand(r) \/ SweepExhaustedQueuedCand(r)
                => Keeps(r, SweepExhausted(r), n, h, b)
           /\ SweepFenceCand(r) => Keeps(r, SweepFence(r), n, h, b)
<1> USE DEF Meets, Keeps, RowInv, Paid, isTerminal, TerminalStatus, LiveStatus, NoToken
<1>0. 0 \notin b /\ 0 \notin h
  OBVIOUS
<1>1. ASSUME SweepExpiredCand(r)
      PROVE  Keeps(r, SweepExpired(r), n, h, b)
  BY <1>0, <1>1 DEF SweepExpiredCand, SweepExpired, Row, UnknownMarker
<1>2. ASSUME SweepRequeueCand(r)
      PROVE  Keeps(r, SweepRequeue(r), n, h, b)
  <2>1. r.status = "claimed" /\ r.token = NoToken /\ h \ b = {}
    BY <1>0, <1>2 DEF SweepRequeueCand, Reclaimable
  <2>2. HasBudget(r)
    BY <1>2 DEF SweepRequeueCand, Reclaimable
  <2>3. Paid(SweepRequeue(r), n)
    BY <2>2, BudgetAssumption DEF HasBudget, SweepRequeue, Row
  <2> QED
    BY <1>0, <2>1, <2>3 DEF SweepRequeue, Row
<1>3. ASSUME SweepSilentCand(r)
      PROVE  Keeps(r, SweepSilent(r), n, h, b)
  BY <1>3 DEF SweepSilentCand, SweepSilent, Row, UnknownMarker
<1>4. ASSUME SweepStalePrintingCand(r)
      PROVE  Keeps(r, SweepStalePrinting(r), n, h, b)
  BY <1>0, <1>4 DEF SweepStalePrintingCand, SweepStalePrinting, Row, UnknownMarker
<1>5. ASSUME SweepExhaustedClaimCand(r) \/ SweepExhaustedQueuedCand(r)
      PROVE  Keeps(r, SweepExhausted(r), n, h, b)
  BY <1>0, <1>5 DEF SweepExhaustedClaimCand, SweepExhaustedQueuedCand, SweepExhausted, Row
<1>6. ASSUME SweepFenceCand(r)
      PROVE  Keeps(r, SweepFence(r), n, h, b)
  BY <1>0, <1>6, SMTT(30) DEF SweepFenceCand, SweepFence, Row
<1> QED
  BY <1>1, <1>2, <1>3, <1>4, <1>5, <1>6, Zenon


\* What PatchInv says of one report p, the tokens h having been handed over.
ReportInv(p, h) ==
    /\ p.token # NoToken => p.token \in h
    /\ p.branch # "expire" => p.token # NoToken
    /\ p.branch \in {"expire", "crashRequeue", "reject", "transition"} => p.from \in LiveStatus
    /\ p.branch = "transition" => p.to \in {"printing", "success", "failed"}

\* The tokens given back once the UPDATE of p has run.
GivenBack(p, b) == IF p.branch \in {"crashRequeue", "reject"} THEN b \cup {p.token} ELSE b

\* The UPDATE of a status report keeps the row consistent; it leaves a row live
\* only if the attempt that owned it had been handed over.
LEMMA PatchKeeps ==
    ASSUME NEW r, NEW n, NEW h, NEW b, Meets(r, n, h, b), NEW a,
           NEW p \in Patch, p.branch # "replay", ReportInv(p, h), PatchMatches(r, p, a)
    PROVE  /\ RowInv(PatchedRow(r, p), n, h, GivenBack(p, b)) /\ Paid(PatchedRow(r, p), n)
           /\ PatchedRow(r, p).status \in LiveStatus => r.status \in LiveStatus /\ r.token \in h
           /\ GivenBack(p, b) \subseteq h
<1> DEFINE Goal(s) == /\ RowInv(s, n, h, GivenBack(p, b)) /\ Paid(s, n)
                      /\ s.status \in LiveStatus => r.status \in LiveStatus /\ r.token \in h
<1>0. /\ 0 \notin h /\ r.status = p.from /\ r.token = p.token /\ p.token \in Nat
      /\ p.branch \in Branch /\ p.to \in JobStatus /\ p.error \in JobError
  BY DEF Meets, PatchMatches, Patch
<1>1. CASE p.branch = "expire"
  <2>1. PatchedRow(r, p) = PatchExpire(r) /\ GivenBack(p, b) = b /\ r.status \in LiveStatus
    BY <1>0, <1>1 DEF PatchedRow, GivenBack, ReportInv
  <2>2. Goal(PatchExpire(r))
    BY <1>0, <2>1, SMTT(30) DEF PatchExpire, Meets, RowInv, Paid, Row, LiveStatus, isTerminal, TerminalStatus,
                      UnknownMarker, NoToken
  <2> QED
    BY <2>1, <2>2 DEF Meets
<1>2. CASE p.branch \in {"crashRequeue", "reject"}
  <2>1. PICK e \in JobError, f \in BOOLEAN : PatchedRow(r, p) = PatchRequeue(r, e, f)
    <3>1. {"AGENT_RESTART_DURING_PRINT", Paused, "plain"} \subseteq JobError
      BY Vocabulary, SMTT(30) DEF UnknownMarker
    <3> QED
      BY <1>2, <3>1, Zenon DEF PatchedRow
  <2>2. /\ GivenBack(p, b) = b \cup {p.token} /\ p.token \in h /\ r.status \in LiveStatus
        /\ p.token # NoToken
    BY <1>0, <1>2 DEF GivenBack, ReportInv
  <2>3. h \ (b \cup {p.token}) = {}
    BY <1>0, <2>2, Zenon DEF Meets, RowInv, LiveStatus
  <2>4. r.retries < MAX_RETRIES
    BY <1>2, Zenon DEF PatchMatches, PatchClock
  <2>5. /\ PatchRequeue(r, e, f).status = "queued" /\ PatchRequeue(r, e, f).token = NoToken
        /\ PatchRequeue(r, e, f).retries = r.retries + 1
        /\ \/ PatchRequeue(r, e, f).attempts = r.attempts
           \/ r.attempts > 0 /\ PatchRequeue(r, e, f).attempts = r.attempts - 1
    BY DEF PatchRequeue, Meets, Row
  <2>6. Paid(PatchRequeue(r, e, f), n)
    BY <2>4, <2>5, BudgetAssumption, SMTT(30) DEF Meets, Paid, Row
  <2>7. RowInv(PatchRequeue(r, e, f), n, h, b \cup {p.token})
    <3>1. NoToken <= n /\ NoToken \notin b \cup {p.token}
      BY <2>2, SMTT(30) DEF Meets, NoToken
    <3> QED
      BY <2>3, <2>5, <3>1, Zenon DEF RowInv, isTerminal, TerminalStatus
  <2>8. b \cup {p.token} \subseteq h
    BY <2>2, ZenonT(40) DEF Meets
  <2> QED
    BY <1>0, <2>1, <2>2, <2>6, <2>7, <2>8
<1>3. CASE p.branch \in {"lateExpired", "late", "transition"}
  <2>1. PICK to \in JobStatus, e \in JobError :
          /\ PatchedRow(r, p) = PatchClose(r, to, e, p.token)
          /\ to = "printing" => p.branch = "transition"
          /\ to \in {"printing", "success", "failed"}
    <3>1. "success" \in JobStatus /\ {"LATE_SUCCESS", "LATE_SUCCESS_POST_EXPIRATION"} \subseteq JobError
      BY Vocabulary, SMTT(30)
    <3> QED
      BY <1>0, <1>3, <3>1, Zenon DEF PatchedRow, ReportInv
  <2>2. /\ GivenBack(p, b) = b /\ p.token \in h /\ p.token # NoToken
        /\ p.branch = "transition" => r.status \in LiveStatus
    BY <1>0, <1>3 DEF GivenBack, ReportInv
  <2>3. Paid(PatchClose(r, to, e, p.token), n)
    BY DEF Meets, Paid, PatchClose, Row
  <2>4. /\ PatchClose(r, to, e, p.token).status = to
        /\ PatchClose(r, to, e, p.token).error = e
        /\ PatchClose(r, to, e, p.token).claimedAt = r.claimedAt
        /\ to = "printing" => PatchClose(r, to, e, p.token).token = r.token
        /\ PatchClose(r, to, e, p.token).token \in {NoToken, r.token}
        /\ to # "printing" /\ PatchClose(r, to, e, p.token).token # NoToken => e \in UnknownMarker
    BY <2>1 DEF PatchClose, Meets, Row, TerminalStatus, LateSuccessMarker, UnknownMarker
  <2>5. to = "printing" => r.status \in {"claimed", "printing"}
    BY <1>0, <2>1, <2>2 DEF Meets, RowInv, LiveStatus
  <2>6. RowInv(PatchClose(r, to, e, p.token), n, h, b)
    <3> HIDE DEF Goal
    <3>1. CASE to = "printing"
      BY <1>0, <2>2, <2>4, <2>5, <3>1, Zenon DEF Meets, RowInv, isTerminal, TerminalStatus
    <3>2. CASE to \in {"success", "failed"}
      <4>1. NoToken <= n /\ NoToken \notin b
        BY SMTT(30) DEF Meets, NoToken
      <4> QED
        BY <1>0, <2>4, <3>2, <4>1, Zenon DEF Meets, RowInv, isTerminal, TerminalStatus
    <3> QED
      BY <2>1, <3>1, <3>2, Zenon
  <2> QED
    BY <1>0, <2>1, <2>2, <2>3, <2>4, <2>5, <2>6 DEF Meets, LiveStatus
<1> QED
  BY <1>0, <1>1, <1>2, <1>3 DEF Branch


-----------------------------------------------------------------------------
(* The inductive invariant                                                 *)

\* Minting one more token.
LEMMA NextToken ==
    ASSUME NEW n \in Nat
    PROVE  /\ 1..n \subseteq 1..(n + 1) /\ n + 1 \in 1..(n + 1) /\ n + 1 \notin 1..n
           /\ NoToken \notin 1..n
BY DEF NoToken

\* Every row is met in the situation the lemmas above assume.
LEMMA RowsMeet ==
    ASSUME IInv, NEW j \in Jobs
    PROVE  Meets(row[j], minted[j], handed[j], returned[j])
BY SMTT(30) DEF IInv, TypeOK, HandoffInv, BoundedDelivery, Meets

\* One statement writes the row of one job; handlers may finish, and the agent
\* may give back a token it holds.
LEMMA RowStep ==
    ASSUME IInv, TypeOK', NEW j \in Jobs, NEW s, Stored(j), Update(j, s),
           UNCHANGED <<stage, minted, handed>>,
           pushes' \subseteq pushes, patches' \subseteq patches,
           \A k \in Jobs \ {j} : returned'[k] = returned[k],
           returned[j] \subseteq returned'[j], returned'[j] \subseteq handed[j],
           RowInv(s, minted[j], handed[j], returned'[j]), Paid(s, minted[j]),
           \A p \in pushes' : p.job = j /\ p.pc = "claimed" /\ s.status \in LiveStatus
                              => s.status = "claimed" /\ s.token = p.token
    PROVE  HandoffInv' /\ BoundedDelivery'
<1>1. row'[j] = s /\ \A k \in Jobs \ {j} : row'[k] = row[k]
  <2>1. row \in [Jobs -> Row] /\ row' = [row EXCEPT ![j] = s]
    BY Zenon DEF Update, IInv, TypeOK
  <2> QED
    BY <2>1, Zenon
<1>2. BoundedDelivery'
  BY <1>1, ZenonT(40) DEF IInv, BoundedDelivery
<1>3. ASSUME NEW k \in Jobs
      PROVE  /\ RowInv(row[k], minted[k], handed[k], returned[k])'
             /\ (stage[k] = "absent" => row[k] = QueuedRow /\ minted[k] = 0)'
             /\ (handed[k] \subseteq 1..minted[k])' /\ (returned[k] \subseteq handed[k])'
             /\ (\A a, b \in handed[k] \ returned[k] : a = b)'
  <2>1. CASE k = j
    <3>1. RowInv(row'[j], minted'[j], handed'[j], returned'[j])
      BY <1>1, Zenon
    <3>2. RowInv(row[j], minted[j], handed[j], returned[j])'
      BY <3>1, Zenon DEF RowInv, isTerminal, HasEvidence
    <3>3. \A a, b \in handed[j] \ returned[j] : a = b
      BY Zenon DEF IInv, HandoffInv, SingleLiveAttempt
    <3>4. handed'[j] \ returned'[j] \subseteq handed[j] \ returned[j]
      BY Zenon
    <3>5. \A a, b \in handed'[j] \ returned'[j] : a = b
      BY <3>3, <3>4, Zenon
    <3> QED
      BY <2>1, <3>2, <3>5, ZenonT(40) DEF Stored, IInv, HandoffInv
  <2>2. CASE k # j
    <3>1. RowInv(row'[k], minted'[k], handed'[k], returned'[k])
      BY <1>1, <2>2, Zenon DEF IInv, HandoffInv
    <3>2. RowInv(row[k], minted[k], handed[k], returned[k])'
      BY <3>1, Zenon DEF RowInv, isTerminal, HasEvidence
    <3>3. /\ stage[k] = "absent" => row[k] = QueuedRow /\ minted[k] = 0
          /\ handed[k] \subseteq 1..minted[k] /\ returned[k] \subseteq handed[k]
          /\ \A a, b \in handed[k] \ returned[k] : a = b
      BY Zenon DEF IInv, HandoffInv, SingleLiveAttempt
    <3>4. row'[k] = row[k] /\ returned'[k] = returned[k]
      BY <1>1, <2>2, Zenon
    <3> QED
      BY <3>2, <3>3, <3>4, Zenon
  <2> QED
    BY <2>1, <2>2
<1>4. PushInv'
  <2> SUFFICES ASSUME NEW p \in pushes'
               PROVE  /\ p.token \in 1..minted'[p.job]
                      /\ \A q \in pushes' : q.job = p.job /\ q.token = p.token => q = p
                      /\ stage'[p.job] # "absent"
                      /\ p.pc \in {"claimed", "not_sent"} => p.token \notin handed'[p.job]
                      /\ p.pc = "claimed" =>
                           /\ handed'[p.job] \ returned'[p.job] = {}
                           /\ \A q \in pushes' : q.job = p.job /\ q.pc = "claimed" => q = p
                           /\ row'[p.job].status \in LiveStatus =>
                                row'[p.job].status = "claimed" /\ row'[p.job].token = p.token
    BY DEF PushInv
  <2>1. p \in pushes /\ p.job \in Jobs
    BY DEF IInv, TypeOK, Push
  <2>2. returned[p.job] \subseteq returned'[p.job]
    BY <2>1, SMTT(30)
  <2>3. p.pc = "claimed" /\ row'[p.job].status \in LiveStatus =>
          row'[p.job].status = "claimed" /\ row'[p.job].token = p.token
    <3>1. CASE p.job = j
      BY <1>1, <3>1, Zenon
    <3>2. CASE p.job # j
      BY <1>1, <2>1, <3>2, ZenonT(40) DEF IInv, HandoffInv, PushInv
    <3> QED
      BY <3>1, <3>2, Zenon
  <2> QED
    BY <2>1, <2>2, <2>3, ZenonT(40) DEF IInv, HandoffInv, PushInv
<1>5. PatchInv'
  BY Zenon DEF IInv, HandoffInv, PatchInv
<1>6. SingleLiveAttempt'
  BY <1>3, Zenon DEF SingleLiveAttempt
<1> QED
  BY <1>2, <1>3, <1>4, <1>5, <1>6 DEF HandoffInv

\* The common case: nothing but the row changes, by a statement that Keeps it.
LEMMA KeepStep ==
    ASSUME IInv, TypeOK', NEW j \in Jobs, NEW s, Stored(j), Update(j, s),
           UNCHANGED <<stage, minted, handed, returned, patches>>, pushes' \subseteq pushes,
           Keeps(row[j], s, minted[j], handed[j], returned[j])
    PROVE  HandoffInv' /\ BoundedDelivery'
<1>1. ASSUME NEW p \in pushes', p.job = j, p.pc = "claimed", s.status \in LiveStatus
      PROVE  s.status = "claimed" /\ s.token = p.token
  <2>1. p.token # NoToken
    <3>1. p.token \in 1..minted[j] /\ minted[j] \in Nat
      <4>1. minted[j] \in Nat
        BY DEF IInv, TypeOK
      <4> QED
        BY <1>1, <4>1, Zenon DEF IInv, HandoffInv, PushInv
    <3>2. NoToken \notin 1..minted[j]
      BY <3>1, NextToken, Zenon
    <3> QED
      BY <3>1, <3>2, Zenon
  <2>2. row[j].status = "claimed" /\ row[j].token = p.token
    BY <1>1, Zenon DEF Keeps, IInv, HandoffInv, PushInv
  <2> QED
    BY <1>1, <2>1, <2>2, Zenon DEF Keeps
<1>2. returned'[j] = returned[j] /\ returned[j] \subseteq handed[j]
  BY Zenon DEF IInv, HandoffInv
<1> QED
  BY <1>1, <1>2, RowStep, Zenon DEF Keeps


\* Steps that write no row: handlers finish, a job is archived.
LEMMA QuietStep ==
    ASSUME IInv, UNCHANGED <<row, minted, handed, returned>>, pushes' \subseteq pushes,
           \A k \in Jobs : stage'[k] = "absent" => stage[k] = "absent",
           PatchInv'
    PROVE  HandoffInv' /\ BoundedDelivery'
<1>1. BoundedDelivery'
  BY SMTT(30) DEF IInv, BoundedDelivery, Paid
<1>2. ASSUME NEW k \in Jobs
      PROVE  /\ RowInv(row[k], minted[k], handed[k], returned[k])'
             /\ (stage[k] = "absent" => row[k] = QueuedRow /\ minted[k] = 0)'
             /\ (handed[k] \subseteq 1..minted[k])' /\ (returned[k] \subseteq handed[k])'
  BY Zenon DEF IInv, HandoffInv, RowInv, isTerminal, HasEvidence
<1>3. PushInv'
  <2>1. \A p \in pushes : p.job \in Jobs
    BY DEF IInv, TypeOK, Push
  <2> QED
    BY <2>1, ZenonT(40) DEF IInv, HandoffInv, PushInv
<1> QED
  BY <1>1, <1>2, <1>3 DEF IInv, HandoffInv, SingleLiveAttempt

\* A push goes on to its next step; what it may hand over is its own token.
LEMMA PushStepKeeps ==
    ASSUME IInv, NEW p \in pushes, NEW o \in PushStep \ {"claimed"},
           UNCHANGED <<stage, row, minted, patches, returned>>,
           pushes' = (pushes \ {p}) \cup {[p EXCEPT !.pc = o]},
           \/ p.pc = "claimed" /\ o = "not_sent" /\ handed' = handed
           \/ p.pc = "claimed" /\ o # "not_sent"
              /\ handed' = [handed EXCEPT ![p.job] = @ \cup {p.token}]
           \/ p.pc = "sent" /\ o = "ambiguous" /\ handed' = handed
    PROVE  HandoffInv' /\ BoundedDelivery'
<1> DEFINE p2 == [p EXCEPT !.pc = o]
<1>1. /\ p \in Push /\ p.job \in Jobs /\ p2.job = p.job /\ p2.token = p.token /\ p2.pc = o
  BY DEF IInv, TypeOK, Push
<1>2. /\ \A k \in Jobs : k # p.job => handed'[k] = handed[k]
      /\ handed'[p.job] = handed[p.job] \/
         (handed'[p.job] = handed[p.job] \cup {p.token} /\ p.pc = "claimed" /\ o # "not_sent")
  BY DEF IInv, TypeOK
<1>3. /\ p.token \in 1..minted[p.job] /\ stage[p.job] # "absent"
      /\ p.pc = "claimed" =>
           /\ handed[p.job] \ returned[p.job] = {}
           /\ row[p.job].status \in LiveStatus =>
                row[p.job].status = "claimed" /\ row[p.job].token = p.token
  BY SMTT(30) DEF IInv, HandoffInv, PushInv
<1>4. BoundedDelivery'
  BY DEF IInv, BoundedDelivery, Paid
<1>5. ASSUME NEW k \in Jobs
      PROVE  /\ RowInv(row[k], minted[k], handed[k], returned[k])'
             /\ (stage[k] = "absent" => row[k] = QueuedRow /\ minted[k] = 0)'
             /\ (handed[k] \subseteq 1..minted[k])' /\ (returned[k] \subseteq handed[k])'
             /\ (\A a, b \in handed[k] \ returned[k] : a = b)'
  <2>1. CASE handed'[k] = handed[k]
    <3>1. RowInv(row[k], minted[k], handed[k], returned[k])'
      BY <2>1 DEF IInv, HandoffInv, RowInv, isTerminal, HasEvidence
    <3> QED
      BY <2>1, <3>1 DEF IInv, HandoffInv, SingleLiveAttempt
  <2>2. CASE k = p.job /\ handed'[k] = handed[k] \cup {p.token} /\ p.pc = "claimed"
    <3>1. handed'[k] \ returned'[k] \subseteq {p.token}
      BY <1>3, <2>2, SMTT(30)
    <3>2. RowInv(row[k], minted[k], handed[k], returned[k])'
      BY <1>3, <2>2, <3>1 DEF IInv, HandoffInv, RowInv, isTerminal, HasEvidence, LiveStatus
    <3> QED
      BY <1>3, <2>2, <3>1, <3>2 DEF IInv, HandoffInv
  <2> QED
    BY <1>2, <2>1, <2>2
<1>6. PushInv'
  <2> SUFFICES ASSUME NEW q \in pushes'
               PROVE  /\ q.token \in 1..minted'[q.job]
                      /\ \A x \in pushes' : x.job = q.job /\ x.token = q.token => x = q
                      /\ stage'[q.job] # "absent"
                      /\ q.pc \in {"claimed", "not_sent"} => q.token \notin handed'[q.job]
                      /\ q.pc = "claimed" =>
                           /\ handed'[q.job] \ returned'[q.job] = {}
                           /\ \A x \in pushes' : x.job = q.job /\ x.pc = "claimed" => x = q
                           /\ row'[q.job].status \in LiveStatus =>
                                row'[q.job].status = "claimed" /\ row'[q.job].token = q.token
    BY DEF PushInv
  <2>1. \A x \in pushes' : x = p2 \/ (x \in pushes /\ x # p)
    OBVIOUS
  <2>2. CASE q = p2
    <3>1. \A x \in pushes' : x.job = q.job /\ x.token = q.token => x = q
      BY <1>1, <2>1, <2>2 DEF IInv, HandoffInv, PushInv
    <3>2. q.pc = "not_sent" => q.token \notin handed'[q.job]
      BY <1>1, <1>2, <2>2, SMTT(30) DEF IInv, HandoffInv, PushInv
    <3> HIDE DEF p2
    <3> QED
      BY <1>1, <1>3, <2>2, <3>1, <3>2, SMTT(30)
  <2>3. CASE q \in pushes /\ q # p
    <3>1. \A x \in pushes' : x.job = q.job /\ x.token = q.token => x = q
      <4>1. ~(p.job = q.job /\ p.token = q.token)
        BY <2>3 DEF IInv, HandoffInv, PushInv
      <4>2. ~(p2.job = q.job /\ p2.token = q.token)
        BY <1>1, <4>1
      <4> HIDE DEF p2
      <4> QED
        BY <4>2, <2>1, <2>3 DEF IInv, HandoffInv, PushInv
    <3>2. q.job \in Jobs
      BY <2>3 DEF IInv, TypeOK, Push
    <3>3. q.pc = "claimed" => handed'[q.job] = handed[q.job]
      BY <1>2, <2>3, <3>2 DEF IInv, HandoffInv, PushInv
    <3>4. q.pc \in {"claimed", "not_sent"} => q.token \notin handed'[q.job]
      BY <1>2, <2>3, <3>2 DEF IInv, HandoffInv, PushInv
    <3>5. q.pc = "claimed" => \A x \in pushes' : x.job = q.job /\ x.pc = "claimed" => x = q
      <4>1. p2.pc # "claimed"
        BY <1>1
      <4> HIDE DEF p2
      <4> QED
        BY <4>1, <2>1, <2>3 DEF IInv, HandoffInv, PushInv
    <3> QED
      BY <2>3, <3>1, <3>3, <3>4, <3>5, SMTT(30) DEF IInv, HandoffInv, PushInv
  <2> QED
    BY <2>1, <2>2, <2>3
<1>7. PatchInv'
  <2>1. ASSUME NEW x \in patches
        PROVE  x.job \in Jobs /\ handed[x.job] \subseteq handed'[x.job]
    <3>1. x.job \in Jobs
      BY DEF IInv, TypeOK, Patch
    <3> QED
      BY <1>2, <3>1
  <2> QED
    BY <2>1, SMTT(30) DEF IInv, HandoffInv, PatchInv
<1>8. SingleLiveAttempt'
  BY <1>5, SMTT(30) DEF SingleLiveAttempt
<1> QED
  BY <1>4, <1>5, <1>6, <1>7, <1>8 DEF HandoffInv


\* No push is about to send a frame for a job that can be claimed.
LEMMA ClaimableHasNoPush ==
    ASSUME IInv, NEW j \in Jobs, PollClaimable(row[j]), NEW p \in pushes, p.job = j
    PROVE  p.pc # "claimed"
<1>1. row[j].status = "queued" \/ (row[j].status = "claimed" /\ row[j].token = NoToken)
  BY RowsMeet, ClaimKeeps, Zenon
<1>2. p.token # NoToken
  BY SMTT(30) DEF IInv, HandoffInv, PushInv, TypeOK, NoToken
<1> QED
  BY <1>1, <1>2 DEF IInv, HandoffInv, PushInv, LiveStatus

\* The push's claim mints a token that is in nobody's hands yet.
LEMMA ClaimStep ==
    ASSUME IInv, NEW j \in Jobs, claimJobForDelivery(j)
    PROVE  HandoffInv' /\ BoundedDelivery'
<1> DEFINE n == minted[j] + 1
           p == [job |-> j, token |-> n, pc |-> "claimed"]
<1>1. PollClaimable(row[j]) /\ Stored(j)
  BY SMTT(30) DEF claimJobForDelivery, PollClaimable
<1>2. /\ row'[j] = Claimed(row[j], n) /\ minted'[j] = n /\ minted[j] \in Nat
      /\ \A k \in Jobs \ {j} : row'[k] = row[k] /\ minted'[k] = minted[k]
      /\ pushes' = pushes \cup {p}
      /\ UNCHANGED <<stage, patches, handed, returned>>
  BY DEF claimJobForDelivery, Update, IInv, TypeOK
<1>3. /\ handed[j] \ returned[j] = {}
      /\ RowInv(Claimed(row[j], n), n, handed[j], returned[j])
      /\ Paid(Claimed(row[j], n), n)
  BY <1>1, RowsMeet, ClaimKeeps, ZenonT(40)
<1>4. BoundedDelivery'
  BY <1>2, <1>3, Zenon DEF IInv, BoundedDelivery
<1>5. ASSUME NEW k \in Jobs
      PROVE  /\ RowInv(row[k], minted[k], handed[k], returned[k])'
             /\ (stage[k] = "absent" => row[k] = QueuedRow /\ minted[k] = 0)'
             /\ (handed[k] \subseteq 1..minted[k])' /\ (returned[k] \subseteq handed[k])'
  <2>1. RowInv(row'[k], minted'[k], handed'[k], returned'[k])
    BY <1>2, <1>3, Zenon DEF IInv, HandoffInv
  <2>2. RowInv(row[k], minted[k], handed[k], returned[k])'
    BY <2>1, Zenon DEF RowInv, isTerminal, HasEvidence
  <2>3. stage[k] = "absent" => k # j
    BY <1>1, SMTT(30) DEF Stored
  <2>4. handed[k] \subseteq 1..minted'[k]
    <3>1. handed[k] \subseteq 1..minted[k]
      BY Zenon DEF IInv, HandoffInv
    <3>2. 1..minted[k] \subseteq 1..minted'[k]
      BY <1>2, NextToken, Zenon
    <3> QED
      BY <3>1, <3>2, Zenon
  <2> QED
    BY <1>2, <2>2, <2>3, <2>4 DEF IInv, HandoffInv
<1>6. PushInv'
  <2>1. /\ \A q \in pushes : /\ q.job \in Jobs /\ q.token \in 1..minted[q.job]
                             /\ stage[q.job] # "absent"
                             /\ q.job = j => q.pc # "claimed"
    BY <1>1, ClaimableHasNoPush, Zenon DEF IInv, HandoffInv, PushInv, TypeOK, Push
  <2>2. /\ p.job = j /\ p.token = n /\ p.pc = "claimed" /\ n \in 1..minted'[j]
        /\ n \notin handed[j] /\ stage[j] # "absent"
    <3>1. p.job = j /\ p.token = n /\ p.pc = "claimed"
      OBVIOUS
    <3>2. handed[j] \subseteq 1..minted[j]
      BY Zenon DEF IInv, HandoffInv
    <3>3. n \in 1..minted'[j] /\ n \notin handed[j]
      BY <1>2, <3>2, NextToken, Zenon
    <3>4. stage[j] # "absent"
      BY <1>1 DEF Stored
    <3> QED
      BY <3>1, <3>3, <3>4, Zenon
  <2>3. \A q \in pushes : q.token \in 1..minted'[q.job] /\ (q.job = j => q.token # n)
    <3>1. 1..minted[j] \subseteq 1..n /\ n \notin 1..minted[j]
      BY <1>2, NextToken, Zenon
    <3> HIDE DEF n
    <3>2. ASSUME NEW q \in pushes
          PROVE  q.token \in 1..minted'[q.job] /\ (q.job = j => q.token # n)
      <4>1. CASE q.job = j
        BY <1>2, <2>1, <3>1, <4>1, ZenonT(40)
      <4>2. CASE q.job # j
        BY <1>2, <2>1, <4>2, ZenonT(40)
      <4> QED
        BY <4>1, <4>2, Zenon
    <3> QED
      BY <3>2, Zenon
  <2>4. Claimed(row[j], n).status = "claimed" /\ Claimed(row[j], n).token = n
    BY SMTT(30) DEF Claimed, IInv, TypeOK, Row
  <2> HIDE DEF p, n
  <2>5. ASSUME NEW q \in pushes', NEW x \in pushes', x.job = q.job
        PROVE  (x.token = q.token => x = q) /\ (x.pc = "claimed" /\ q.pc = "claimed" => x = q)
    <3>1. q \in pushes \/ q = p
      BY <1>2, Zenon
    <3>2. x \in pushes \/ x = p
      BY <1>2, Zenon
    <3>3. CASE q \in pushes /\ x \in pushes
      BY <2>5, <3>3, Zenon DEF IInv, HandoffInv, PushInv
    <3>4. CASE q = p /\ x \in pushes
      BY <2>1, <2>2, <2>3, <2>5, <3>4, Zenon
    <3>5. CASE q \in pushes /\ x = p
      BY <2>1, <2>2, <2>3, <2>5, <3>5, Zenon
    <3> QED
      BY <3>1, <3>2, <3>3, <3>4, <3>5, Zenon
  <2>6. ASSUME NEW q \in pushes'
        PROVE  /\ q.token \in 1..minted'[q.job] /\ stage[q.job] # "absent"
               /\ q.pc \in {"claimed", "not_sent"} => q.token \notin handed[q.job]
               /\ q.pc = "claimed" => handed[q.job] \ returned[q.job] = {}
               /\ q.pc = "claimed" /\ row'[q.job].status \in LiveStatus =>
                     row'[q.job].status = "claimed" /\ row'[q.job].token = q.token
    <3>1. CASE q = p
      BY <3>1, <1>2, <1>3, <2>2, <2>4, Zenon
    <3>2. CASE q \in pushes
      BY <3>2, <1>2, <2>1, <2>3, ZenonT(40) DEF IInv, HandoffInv, PushInv
    <3> QED
      BY <1>2, <3>1, <3>2, Zenon
  <2> QED
    BY <1>2, <2>5, <2>6, ZenonT(40) DEF PushInv
<1>7. PatchInv' /\ SingleLiveAttempt'
  <2>1. UNCHANGED <<stage, patches, handed, returned>> /\ PatchInv /\ SingleLiveAttempt
    BY <1>2, Zenon DEF IInv, HandoffInv
  <2> HIDE DEF p, n
  <2>2. PatchInv'
    BY <2>1, Zenon DEF PatchInv
  <2>3. SingleLiveAttempt'
    BY <2>1, Zenon DEF SingleLiveAttempt
  <2> QED
    BY <2>2, <2>3
<1> QED
  BY <1>4, <1>5, <1>6, <1>7 DEF HandoffInv

\* The poll's claims mint tokens that the agent may hold from then on.
LEMMA PollStep ==
    ASSUME IInv, NEW S \in SUBSET Jobs, pollJobs(S)
    PROVE  HandoffInv' /\ BoundedDelivery'
<1>1. ASSUME NEW k \in Jobs
      PROVE  /\ k \notin S => /\ row'[k] = row[k] /\ minted'[k] = minted[k]
                              /\ handed'[k] = handed[k]
             /\ k \in S => /\ PollClaimable(row[k]) /\ Stored(k)
                           /\ row'[k] = Claimed(row[k], minted[k] + 1)
                           /\ minted'[k] = minted[k] + 1 /\ minted[k] \in Nat
                           /\ handed'[k] = handed[k] \cup {minted[k] + 1}
  BY SMTT(30) DEF pollJobs, IInv, TypeOK
<1>2. UNCHANGED <<stage, pushes, patches, returned>>
  BY Zenon DEF pollJobs
<1>3. ASSUME NEW k \in S
      PROVE  /\ handed[k] \ returned[k] = {}
             /\ RowInv(Claimed(row[k], minted[k] + 1), minted[k] + 1,
                       handed[k] \cup {minted[k] + 1}, returned[k])
             /\ Paid(Claimed(row[k], minted[k] + 1), minted[k] + 1)
  <2> DEFINE r == row[k]  n == minted[k]  h == handed[k]  b == returned[k]
  <2>1. Meets(r, n, h, b) /\ PollClaimable(r)
    BY <1>1, RowsMeet
  <2> HIDE DEF r, n, h, b
  <2>2. /\ h \ b = {} /\ RowInv(Claimed(r, n + 1), n + 1, h \cup {n + 1}, b)
        /\ Paid(Claimed(r, n + 1), n + 1)
    BY <2>1, ClaimKeeps, ZenonT(40)
  <2> QED
    BY <2>2, Zenon DEF r, n, h, b
<1>4. BoundedDelivery'
  BY <1>1, <1>3, Zenon DEF IInv, BoundedDelivery
<1>5. ASSUME NEW k \in Jobs
      PROVE  /\ RowInv(row[k], minted[k], handed[k], returned[k])'
             /\ (stage[k] = "absent" => row[k] = QueuedRow /\ minted[k] = 0)'
             /\ (handed[k] \subseteq 1..minted[k])' /\ (returned[k] \subseteq handed[k])'
             /\ (\A a, b \in handed[k] \ returned[k] : a = b)'
  <2>1. CASE k \notin S
    <3>1. RowInv(row'[k], minted'[k], handed'[k], returned'[k])
      BY <1>1, <1>2, <2>1, Zenon DEF IInv, HandoffInv
    <3>2. RowInv(row[k], minted[k], handed[k], returned[k])'
      BY <3>1 DEF RowInv, isTerminal, HasEvidence
    <3> QED
      <4>1. /\ stage[k] = "absent" => row[k] = QueuedRow /\ minted[k] = 0
            /\ handed[k] \subseteq 1..minted[k] /\ returned[k] \subseteq handed[k]
            /\ \A a, b \in handed[k] \ returned[k] : a = b
        BY Zenon DEF IInv, HandoffInv, SingleLiveAttempt
      <4>2. /\ stage'[k] = stage[k] /\ row'[k] = row[k] /\ minted'[k] = minted[k]
            /\ handed'[k] = handed[k] /\ returned'[k] = returned[k]
        BY <1>1, <1>2, <2>1, Zenon
      <4> QED
        BY <3>2, <4>1, <4>2, Zenon
  <2>2. CASE k \in S
    <3>1. RowInv(row'[k], minted'[k], handed'[k], returned'[k])
      BY <1>1, <1>2, <1>3, <2>2, ZenonT(40)
    <3>2. RowInv(row[k], minted[k], handed[k], returned[k])'
      BY <3>1 DEF RowInv, isTerminal, HasEvidence
    <3>3. stage'[k] # "absent"
      BY <1>1, <1>2, <2>2, SMTT(30) DEF Stored
    <3>4. handed[k] \subseteq 1..minted[k] /\ returned[k] \subseteq handed[k]
      BY SMTT(30) DEF IInv, HandoffInv
    <3>5. handed'[k] \subseteq 1..minted'[k]
      BY <1>1, <2>2, <3>4, SMTT(30)
    <3> QED
      BY <1>1, <1>2, <1>3, <2>2, <3>2, <3>3, <3>4, <3>5, Zenon
  <2> QED
    BY <2>1, <2>2, Zenon
<1>6. PushInv'
  <2>1. ASSUME NEW p \in pushes
        PROVE  /\ p.job \in Jobs /\ p.token \in 1..minted'[p.job]
               /\ p.pc = "claimed" => p.job \notin S
               /\ p.token \notin handed[p.job] => p.token \notin handed'[p.job]
    <3>1. p.job \in Jobs /\ p.token \in 1..minted[p.job]
      BY SMTT(30) DEF IInv, HandoffInv, PushInv, TypeOK, Push
    <3>2. p.pc = "claimed" => p.job \notin S
      BY <1>1, <3>1, ClaimableHasNoPush, SMTT(30)
    <3> QED
      <4>1. CASE p.job \notin S
        BY <1>1, <3>1, <4>1, Zenon
      <4>2. CASE p.job \in S
        <5>1. minted[p.job] \in Nat /\ minted'[p.job] = minted[p.job] + 1
              /\ handed'[p.job] = handed[p.job] \cup {minted[p.job] + 1}
          BY <1>1, <3>1, <4>2, Zenon
        <5>2. p.token \in 1..minted'[p.job] /\ p.token # minted[p.job] + 1
          <6>1. /\ 1..minted[p.job] \subseteq 1..(minted[p.job] + 1)
                /\ minted[p.job] + 1 \notin 1..minted[p.job]
            BY <5>1, NextToken, Zenon
          <6> QED
            BY <3>1, <5>1, <6>1, ZenonT(40)
        <5> QED
          BY <3>1, <3>2, <5>1, <5>2, Zenon
      <4> QED
        BY <4>1, <4>2, Zenon
  <2>2. ASSUME NEW p \in pushes, p.job \notin S
        PROVE  row'[p.job] = row[p.job] /\ handed'[p.job] = handed[p.job]
    BY <1>1, <2>1, <2>2, Zenon
  <2>3. PushInv
    BY Zenon DEF IInv, HandoffInv
  <2>4. ASSUME NEW p \in pushes
        PROVE  /\ p.token \in 1..minted'[p.job] /\ stage'[p.job] # "absent"
               /\ \A q \in pushes : q.job = p.job /\ q.token = p.token => q = p
               /\ p.pc \in {"claimed", "not_sent"} => p.token \notin handed'[p.job]
    BY <1>2, <2>1, <2>3, Zenon DEF PushInv
  <2>5. ASSUME NEW p \in pushes, p.pc = "claimed"
        PROVE  /\ handed'[p.job] \ returned'[p.job] = {}
               /\ \A q \in pushes : q.job = p.job /\ q.pc = "claimed" => q = p
               /\ row'[p.job].status \in LiveStatus =>
                    row'[p.job].status = "claimed" /\ row'[p.job].token = p.token
    <3>1. row'[p.job] = row[p.job] /\ handed'[p.job] = handed[p.job] /\ returned' = returned
      BY <1>2, <2>1, <2>2, <2>5, Zenon
    <3> QED
      BY <2>3, <2>5, <3>1, Zenon DEF PushInv
  <2> QED
    BY <1>2, <2>4, <2>5, Zenon DEF PushInv
<1>7. PatchInv'
  <2>1. ASSUME NEW x \in patches
        PROVE  handed[x.job] \subseteq handed'[x.job]
    <3>1. x.job \in Jobs
      BY SMTT(30) DEF IInv, TypeOK, Patch
    <3> QED
      BY <1>1, <3>1
  <2> QED
    BY <1>2, <2>1, Zenon DEF IInv, HandoffInv, PatchInv
<1>8. SingleLiveAttempt'
  BY <1>5, Zenon DEF SingleLiveAttempt
<1> QED
  BY <1>4, <1>5, <1>6, <1>7, <1>8, ZenonT(40) DEF HandoffInv


\* The initial rows carry no token.
LEMMA InitIInv == Init => IInv
<1> SUFFICES ASSUME Init
             PROVE  IInv
  OBVIOUS
<1>1. TypeOK
  BY InitialRows DEF Init, TypeOK, Stages, Admission
<1>2. ASSUME NEW j \in Jobs
      PROVE  /\ row[j] = QueuedRow \/ \E n \in 1..MAX_DELIVERY_ATTEMPTS : row[j] = LegacyRow(n)
             /\ stage[j] = "absent" => row[j] = QueuedRow
             /\ minted[j] = 0 /\ handed[j] = {} /\ returned[j] = {}
  <2>1. 1 \in 1..MAX_DELIVERY_ATTEMPTS /\ MAX_DELIVERY_ATTEMPTS \in 1..MAX_DELIVERY_ATTEMPTS
    BY BudgetAssumption
  <2>2. row[j] \in {QueuedRow, LegacyRow(1), LegacyRow(MAX_DELIVERY_ATTEMPTS)}
    BY SMTT(30) DEF Init
  <2> QED
    BY <2>1, <2>2 DEF Init
<1>3. ASSUME NEW j \in Jobs
      PROVE  RowInv(row[j], 0, {}, {}) /\ Paid(row[j], 0)
  <2>1. CASE row[j] = QueuedRow
    <3>1. /\ row[j].status = "queued" /\ row[j].token = NoToken
          /\ row[j].attempts = 0 /\ row[j].retries = 0
      BY <2>1, SMTT(30) DEF QueuedRow
    <3>2. RowInv(row[j], 0, {}, {})
      BY <3>1 DEF RowInv, NoToken, isTerminal, TerminalStatus
    <3>3. Paid(row[j], 0)
      BY <3>1, BudgetAssumption DEF Paid
    <3> QED
      BY <3>2, <3>3
  <2>2. ASSUME NEW n \in 1..MAX_DELIVERY_ATTEMPTS, row[j] = LegacyRow(n)
        PROVE  RowInv(row[j], 0, {}, {}) /\ Paid(row[j], 0)
    <3>1. /\ row[j].status = "claimed" /\ row[j].token = 0
          /\ row[j].attempts = n /\ row[j].retries = 0
      BY <2>2 DEF LegacyRow, QueuedRow, NoToken
    <3> QED
      BY <3>1, BudgetAssumption DEF RowInv, Paid, NoToken, isTerminal, TerminalStatus
  <2> QED
    BY <1>2, <2>1, <2>2, Zenon
<1>4. BoundedDelivery
  BY <1>2, <1>3, SMTT(30) DEF BoundedDelivery
<1>5. PushInv /\ PatchInv /\ SingleLiveAttempt
  BY <1>2 DEF Init, PushInv, PatchInv, SingleLiveAttempt
<1> QED
  BY <1>1, <1>2, <1>3, <1>4, <1>5, Zenon DEF IInv, HandoffInv

\* The reading half of a status report records a decision that ReportInv allows.
LEMMA PatchReadStep ==
    ASSUME IInv, NEW j \in Jobs, NEW q \in Report, NEW t \in handed[j] \cup {NoToken},
           patchRead(j, q, t)
    PROVE  HandoffInv' /\ BoundedDelivery'
<1> DEFINE branch == PatchBranch(row[j], Request(q, t))
           p == [job |-> j, token |-> t, to |-> q.to, error |-> q.error,
                 reason |-> q.reason, from |-> row[j].status, branch |-> branch]
<1>1. branch # "refuse" /\ patches' = patches \cup {p} /\ Stored(j)
  BY Zenon DEF patchRead
<1>2. UNCHANGED <<stage, row, minted, pushes, handed, returned>>
  BY DEF patchRead
<1>3. row[j].status \in JobStatus /\ q.to \in {"printing", "success", "failed", "queued", "expired"}
  BY DEF IInv, TypeOK, Row, Report
<1>4. /\ Request(q, t).to = q.to /\ Request(q, t).token = t
  BY DEF Request
<1>5. /\ t # NoToken => t \in handed[j]
      /\ branch # "expire" => t # NoToken
      /\ branch \in {"expire", "crashRequeue", "reject", "transition"} => row[j].status \in LiveStatus
      /\ branch = "transition" => q.to \in {"printing", "success", "failed"}
  BY <1>1, <1>3, <1>4, BranchFacts, ZenonT(40)
<1>6. PatchInv'
  <2>1. stage[j] # "absent"
    BY <1>1, ZenonT(40) DEF Stored
  <2>2. /\ p.job = j /\ p.token = t /\ p.branch = branch /\ p.from = row[j].status /\ p.to = q.to
    BY ZenonT(40)
  <2> HIDE DEF p, branch
  <2> QED
    BY <1>1, <1>2, <1>5, <2>1, <2>2 DEF IInv, HandoffInv, PatchInv
<1> QED
  BY <1>2, <1>6, QuietStep, SMTT(30)

\* The writing half keeps the invariant whatever happened since the read.
LEMMA PatchWriteStep ==
    ASSUME IInv, TypeOK', NEW p \in patches, patchWrite(p)
    PROVE  HandoffInv' /\ BoundedDelivery'
<1> DEFINE j == p.job
<1>1. /\ p \in Patch /\ j \in Jobs /\ patches' \subseteq patches
      /\ UNCHANGED <<stage, minted, pushes, handed>>
      /\ ReportInv(p, handed[j])
  BY Zenon DEF IInv, TypeOK, Patch, patchWrite, HandoffInv, PatchInv, ReportInv
<1>2. Meets(row[j], minted[j], handed[j], returned[j])
  BY <1>1, RowsMeet
<1>3. CASE /\ p.branch # "replay" /\ Stored(j)
           /\ PatchMatches(row[j], p, admission = "admitted")
  <2> DEFINE s == PatchedRow(row[j], p)
  <2>1. Update(j, s)
    BY <1>3, Zenon DEF patchWrite
  <2>2. /\ \A k \in Jobs \ {j} : returned'[k] = returned[k]
        /\ returned'[j] = GivenBack(p, returned[j])
    BY <1>1, <1>3, Zenon DEF patchWrite, GivenBack, IInv, TypeOK
  <2>3. /\ RowInv(s, minted[j], handed[j], returned'[j]) /\ Paid(s, minted[j])
        /\ s.status \in LiveStatus => row[j].status \in LiveStatus /\ row[j].token \in handed[j]
        /\ returned'[j] \subseteq handed[j]
    <3> DEFINE r == row[j]  n == minted[j]  h == handed[j]  b == returned[j]
               a == (admission = "admitted")
    <3>1. /\ Meets(r, n, h, b) /\ p \in Patch /\ p.branch # "replay"
          /\ ReportInv(p, h) /\ PatchMatches(r, p, a)
      BY <1>1, <1>2, <1>3
    <3> HIDE DEF r, n, h, b, a
    <3>2. /\ RowInv(PatchedRow(r, p), n, h, GivenBack(p, b)) /\ Paid(PatchedRow(r, p), n)
          /\ PatchedRow(r, p).status \in LiveStatus => r.status \in LiveStatus /\ r.token \in h
          /\ GivenBack(p, b) \subseteq h
      BY <3>1, PatchKeeps, Zenon
    <3> QED
      BY <2>2, <3>2, Zenon DEF r, n, h, b
  <2>4. returned[j] \subseteq returned'[j]
    BY <2>2 DEF GivenBack
  <2>5. \A x \in pushes' : x.job = j /\ x.pc = "claimed" /\ s.status \in LiveStatus
                           => s.status = "claimed" /\ s.token = x.token
    BY <1>1, <2>3, ZenonT(40) DEF IInv, HandoffInv, PushInv
  <2> HIDE DEF s, j
  <2> QED
    BY <1>1, <1>3, <2>1, <2>2, <2>3, <2>4, <2>5, RowStep, ZenonT(40)
<1>4. CASE ~(/\ p.branch # "replay" /\ Stored(j)
             /\ PatchMatches(row[j], p, admission = "admitted"))
  <2>1. UNCHANGED <<row, returned>>
    BY <1>4, ZenonT(40) DEF patchWrite
  <2>2. PatchInv'
    BY <1>1, Zenon DEF IInv, HandoffInv, PatchInv
  <2> QED
    BY <1>1, <2>1, <2>2, QuietStep
<1> QED
  BY <1>3, <1>4, Zenon


\* The push records what became of its frame, or takes the claim back.
LEMMA PushNextStep ==
    ASSUME IInv, TypeOK', NEW p \in pushes, PushNext(p)
    PROVE  HandoffInv' /\ BoundedDelivery'
<1> DEFINE j == p.job
<1>1. /\ p \in Push /\ j \in Jobs /\ p.token # NoToken
      /\ p.pc = "not_sent" => p.token \notin handed[j]
  <2>1. p \in Push /\ p.job \in Jobs /\ minted[p.job] \in Nat
    BY SMTT(30) DEF IInv, TypeOK, Push
  <2>2. p.token \in 1..minted[p.job] /\ (p.pc = "not_sent" => p.token \notin handed[p.job])
    BY Zenon DEF IInv, HandoffInv, PushInv
  <2> QED
    <3>1. NoToken \notin 1..minted[p.job]
      BY <2>1, NextToken, Zenon
    <3> QED
      BY <2>1, <2>2, <3>1, ZenonT(40)
<1>2. Meets(row[j], minted[j], handed[j], returned[j])
  BY <1>1, RowsMeet
<1>3. ASSUME UNCHANGED <<row, stage, minted, patches, handed, returned>>, pushes' \subseteq pushes
      PROVE  HandoffInv' /\ BoundedDelivery'
  <2>1. PatchInv'
    BY <1>3 DEF IInv, HandoffInv, PatchInv
  <2> QED
    BY <1>3, <2>1, QuietStep, SMTT(30)
<1>4. ASSUME NEW o \in {"sent", "ambiguous", "not_sent"}, sendJobToAgent(p, o)
      PROVE  HandoffInv' /\ BoundedDelivery'
  BY <1>4, PushStepKeeps DEF sendJobToAgent, PushStep
<1>5. CASE pushDelivered(p)
  <2>1. CASE Stored(j) /\ FencedDelivery(row[j], p.token, {"claimed", "printing"})
    <3>1. Keeps(row[j], markJobDelivered(row[j]), minted[j], handed[j], returned[j])
      BY <1>2, <2>1, DeliveryKeeps, Zenon DEF FencedDelivery
    <3> QED
      BY <1>1, <1>5, <2>1, <3>1, KeepStep DEF pushDelivered
  <2>2. CASE ~(Stored(j) /\ FencedDelivery(row[j], p.token, {"claimed", "printing"}))
    BY <1>5, <2>2, PushStepKeeps DEF pushDelivered, PushStep
  <2> QED
    BY <2>1, <2>2
<1>6. CASE pushUnknown(p)
  <2>1. CASE Stored(j) /\ FencedDelivery(row[j], p.token, {"claimed"})
    <3>1. Keeps(row[j], markJobDeliveryUnknown(row[j]), minted[j], handed[j], returned[j])
      BY <1>2, <2>1, DeliveryKeeps, ZenonT(40) DEF FencedDelivery
    <3> QED
      BY <1>1, <1>6, <2>1, <3>1, KeepStep DEF pushUnknown
  <2>2. CASE ~(Stored(j) /\ FencedDelivery(row[j], p.token, {"claimed"}))
    BY <1>3, <1>6, <2>2, Zenon DEF pushUnknown
  <2> QED
    BY <2>1, <2>2, SMTT(30)
<1>7. CASE pushRelease(p)
  <2>1. CASE Stored(j) /\ Releasable(row[j], p.token)
    <3> DEFINE s == releaseUndeliveredClaim(row[j])
    <3>1. /\ p.pc = "not_sent" /\ Update(j, s) /\ pushes' \subseteq pushes
          /\ UNCHANGED <<stage, minted, patches, handed, returned>>
      BY <1>7, <2>1 DEF pushRelease
    <3>2. RowInv(s, minted[j], handed[j], returned[j]) /\ Paid(s, minted[j])
      BY <1>1, <1>2, <2>1, <3>1, ReleaseKeeps, Zenon
    <3>3. \A x \in pushes : ~(x.job = j /\ x.pc = "claimed")
      <4>1. ASSUME NEW x \in pushes, x.job = j, x.pc = "claimed"
            PROVE  FALSE
        <5>1. row[j].status = "claimed" /\ row[j].token = p.token
          BY <2>1, SMTT(30) DEF Releasable
        <5>2. x.token = p.token
          BY <4>1, <5>1, Zenon DEF IInv, HandoffInv, PushInv, LiveStatus
        <5> QED
          BY <3>1, <4>1, <5>2 DEF IInv, HandoffInv, PushInv
      <4> QED
        BY <4>1, SMTT(30)
    <3>4. returned[j] \subseteq handed[j]
      BY <1>1, Zenon DEF IInv, HandoffInv
    <3> HIDE DEF s, j
    <3> QED
      BY <1>1, <2>1, <3>1, <3>2, <3>3, <3>4, RowStep, Zenon
  <2>2. CASE ~(Stored(j) /\ Releasable(row[j], p.token))
    BY <1>3, <1>7, <2>2, Zenon DEF pushRelease
  <2> QED
    BY <2>1, <2>2, SMTT(30)
<1> QED
  BY <1>4, <1>5, <1>6, <1>7, SMTT(30) DEF PushNext

\* The steps that write one row and nothing else.
LEMMA RowWriteStep ==
    ASSUME IInv, TypeOK', NEW j \in Jobs,
           \/ \E t \in handed[j] : jobAck(j, t) \/ heartbeatKeepAlive(j, t)
           \/ heartbeatResume(j) \/ SweepNext(j) \/ deleteTerminalJobs(j)
           \/ tickAge(j) \/ tickTtl(j)
    PROVE  HandoffInv' /\ BoundedDelivery'
<1> DEFINE K(s) == Keeps(row[j], s, minted[j], handed[j], returned[j])
<1>1. Meets(row[j], minted[j], handed[j], returned[j])
  BY RowsMeet
<1>2. CASE \E t \in handed[j] : jobAck(j, t)
  <2>1. K(recordJobAck(row[j]))
    BY <1>1, <1>2, DeliveryKeeps, Zenon DEF jobAck, FencedDelivery
  <2> QED
    BY <1>2, <2>1, KeepStep, Zenon DEF jobAck
<1>3. CASE \E t \in handed[j] : heartbeatKeepAlive(j, t)
  <2>1. K([row[j] EXCEPT !.age = Fresh])
    BY <1>1, DeliveryKeeps, Zenon
  <2> QED
    BY <1>3, <2>1, KeepStep DEF heartbeatKeepAlive
<1>4. CASE heartbeatResume(j)
  <2>1. K([row[j] EXCEPT !.error = "null"])
    BY <1>1, <1>4, DeliveryKeeps, Zenon DEF heartbeatResume
  <2> QED
    BY <1>4, <2>1, KeepStep DEF heartbeatResume
<1>6. CASE SweepNext(j)
  <2>1. CASE sweepExpired(j)
    <3>1. K(SweepExpired(row[j]))
      BY <1>1, <2>1, SweepKeeps, Zenon DEF sweepExpired, Sweep
    <3> QED
      BY <2>1, <3>1, KeepStep, Zenon DEF sweepExpired, Sweep
  <2>2. CASE sweepRequeuedClaims(j)
    <3>1. K(SweepRequeue(row[j]))
      BY <1>1, <2>2, SweepKeeps, ZenonT(40) DEF sweepRequeuedClaims, Sweep
    <3> QED
      BY <2>2, <3>1, KeepStep, Zenon DEF sweepRequeuedClaims, Sweep
  <2>3. CASE sweepSilent(j)
    <3>1. K(SweepSilent(row[j]))
      BY <1>1, <2>3, SweepKeeps, ZenonT(40) DEF sweepSilent, Sweep
    <3> QED
      BY <2>3, <3>1, KeepStep, Zenon DEF sweepSilent, Sweep
  <2>4. CASE sweepStalePrinting(j)
    <3>1. K(SweepStalePrinting(row[j]))
      BY <1>1, <2>4, SweepKeeps, Zenon DEF sweepStalePrinting, Sweep
    <3> QED
      BY <2>4, <3>1, KeepStep, Zenon DEF sweepStalePrinting, Sweep
  <2>5. CASE sweepExhaustedClaims(j) \/ sweepExhaustedQueued(j)
    <3>1. K(SweepExhausted(row[j]))
      BY <1>1, <2>5, SweepKeeps, Zenon DEF sweepExhaustedClaims, sweepExhaustedQueued, Sweep
    <3> QED
      BY <2>5, <3>1, KeepStep, Zenon DEF sweepExhaustedClaims, sweepExhaustedQueued, Sweep
  <2>6. CASE sweepFences(j)
    <3>1. K(SweepFence(row[j]))
      BY <1>1, <2>6, SweepKeeps, Zenon DEF sweepFences, Sweep
    <3> QED
      BY <2>6, <3>1, KeepStep, Zenon DEF sweepFences, Sweep
  <2>7. CASE cleanupTerminalPrintJobs(j)
    BY <2>7, QuietStep, Zenon
    DEF cleanupTerminalPrintJobs, Archive, IInv, TypeOK, HandoffInv, PatchInv, Patch
  <2> QED
    BY <1>6, <2>1, <2>2, <2>3, <2>4, <2>5, <2>6, <2>7, Zenon DEF SweepNext
<1>7. CASE deleteTerminalJobs(j)
  BY <1>7, QuietStep, Zenon
  DEF deleteTerminalJobs, Archive, IInv, TypeOK, HandoffInv, PatchInv, Patch
<1>8. CASE tickAge(j) \/ tickTtl(j)
  <2>1. ASSUME NEW a
        PROVE  K([row[j] EXCEPT !.age = a]) /\ K([row[j] EXCEPT !.ttl = a])
    BY <1>1 DEF Meets, Keeps, RowInv, Paid, isTerminal, HasEvidence, Row
  <2> QED
    BY <1>8, <2>1, KeepStep, ZenonT(40) DEF tickAge, tickTtl
<1> QED
  BY <1>2, <1>3, <1>4, <1>6, <1>7, <1>8, Zenon

\* HandoffInv, with the types and the budgets, is preserved by every step.
LEMMA NextIInv == IInv /\ TypeOK' /\ [Next]_vars => IInv'
<1> SUFFICES ASSUME IInv, TypeOK', [Next]_vars
             PROVE  HandoffInv' /\ BoundedDelivery'
  BY SMTT(30) DEF IInv
<1>1. ASSUME NEW j \in Jobs, insertQueuedJob(j)
      PROVE  HandoffInv' /\ BoundedDelivery'
  <2>1. row' = row
    BY <1>1 DEF insertQueuedJob, Update, IInv, HandoffInv, TypeOK
  <2>2. PatchInv'
    BY <1>1, Zenon DEF insertQueuedJob, IInv, HandoffInv, PatchInv, TypeOK, Patch
  <2> QED
    BY <1>1, <2>1, <2>2, QuietStep, Zenon DEF insertQueuedJob, IInv, TypeOK
<1>2. ASSUME NEW j \in Jobs, AgentNext(j)
      PROVE  HandoffInv' /\ BoundedDelivery'
  BY <1>2, RowWriteStep, PatchReadStep, Zenon DEF AgentNext
<1>3. CASE changeAdmission \/ UNCHANGED vars
  BY <1>3, QuietStep, Zenon DEF changeAdmission, vars, IInv, HandoffInv, PatchInv
<1> QED
  BY <1>1, <1>2, <1>3, ClaimStep, PollStep, PushNextStep, PatchWriteStep, RowWriteStep, Zenon DEF Next

\* The inductive invariant holds in every reachable state.
THEOREM Invariance == Spec => []IInv
BY InitIInv, NextIInv, TypeCorrect, PTL DEF Spec

\* No lease expiry, failed send, lost evidence write or poll ever hands out a
\* job a second time while an earlier hand-off may still print, for any number
\* of jobs, attempts, slots and concurrent handlers.
THEOREM HandoffSafety == Spec => [](SingleLiveAttempt /\ HandoffInv)
BY Invariance, PTL DEF IInv, HandoffInv

\* Every hand-off is paid for by one of the two budgets, so a job is handed out
\* at most MAX_DELIVERY_ATTEMPTS + MAX_RETRIES times.
THEOREM DeliveryIsBounded == Spec => []BoundedDelivery
BY Invariance, PTL DEF IInv


-----------------------------------------------------------------------------
(* What a step may never do                                                *)

\* The status of the row either stays, or was live and becomes neither printing nor
\* success.
Calm(j) == \/ row'[j].status = row[j].status
           \/ ~isTerminal(row[j]) /\ row'[j].status \notin {"printing", "success"}

\* Only a status report ends the finality of a row, starts printing or reports success.
LEMMA CalmSteps ==
    ASSUME IInv, Next, ~ \E p \in patches : patchWrite(p), NEW j \in Jobs
    PROVE  Calm(j)
<1>1. ASSUME NEW k \in Jobs, NEW s, Update(k, s),
             \/ s.status = row[k].status
             \/ ~isTerminal(row[k]) /\ s.status \notin {"printing", "success"}
      PROVE  Calm(j)
  BY <1>1 DEF Update, Calm, IInv, TypeOK
<1>2. ASSUME UNCHANGED row
      PROVE  Calm(j)
  BY <1>2 DEF Calm
<1>3. ASSUME NEW k \in Jobs
      PROVE  /\ row[k] \in Row
             /\ PollClaimable(row[k]) => ~isTerminal(row[k])
             /\ Claimed(row[k], minted[k] + 1).status = "claimed"
  BY SMTT(30) DEF IInv, TypeOK, Row, Claimed, PollClaimable, QueuedClaimable, Reclaimable,
         isTerminal, TerminalStatus
<1>4. ASSUME NEW k \in Jobs, insertQueuedJob(k)
      PROVE  Calm(j)
  BY <1>1, <1>4 DEF insertQueuedJob, IInv, HandoffInv
<1>5. ASSUME NEW k \in Jobs, claimJobForDelivery(k)
      PROVE  Calm(j)
  BY <1>1, <1>3, <1>5, Zenon DEF claimJobForDelivery, PollClaimable
<1>6. ASSUME NEW S \in SUBSET Jobs, pollJobs(S)
      PROVE  Calm(j)
  BY <1>3, <1>6, Zenon DEF pollJobs, Calm
<1>7. ASSUME NEW p \in pushes, PushNext(p)
      PROVE  Calm(j)
  <2>1. p.job \in Jobs /\ row[p.job] \in Row
    BY DEF IInv, TypeOK, Push
  <2>2. CASE \E o \in {"sent", "ambiguous", "not_sent"} : sendJobToAgent(p, o)
    BY <1>2, <2>2 DEF sendJobToAgent
  <2>3. CASE pushDelivered(p)
    BY <1>1, <1>2, <2>1, <2>3, Zenon DEF pushDelivered, markJobDelivered, Row
  <2>4. CASE pushUnknown(p)
    BY <1>1, <1>2, <2>1, <2>4, Zenon
    DEF pushUnknown, markJobDeliveryUnknown, FencedDelivery, isTerminal, TerminalStatus, Row
  <2>5. CASE pushRelease(p)
    <3>1. releaseUndeliveredClaim(row[p.job]).status \in {"failed", "queued", row[p.job].status}
      BY <2>1, SMTT(30) DEF releaseUndeliveredClaim, Row
    <3> QED
      BY <1>1, <1>2, <2>1, <2>5, <3>1, Zenon DEF pushRelease, Releasable, isTerminal, TerminalStatus
  <2> QED
    BY <1>7, <2>2, <2>3, <2>4, <2>5 DEF PushNext
<1>8. ASSUME NEW k \in Jobs, AgentNext(k)
      PROVE  Calm(j)
  <2>1. CASE \E t \in handed[k] : jobAck(k, t) \/ heartbeatKeepAlive(k, t)
    BY <1>1, <1>3, <2>1, Zenon DEF jobAck, heartbeatKeepAlive, recordJobAck, Row
  <2>2. CASE heartbeatResume(k)
    BY <1>1, <1>3, <2>2, SMTT(30) DEF heartbeatResume, Row
  <2>3. CASE \E q \in Report, t \in handed[k] \cup {NoToken} : patchRead(k, q, t)
    BY <1>2, <2>3 DEF patchRead
  <2> QED
    BY <1>8, <2>1, <2>2, <2>3 DEF AgentNext
<1>9. ASSUME NEW k \in Jobs, SweepNext(k)
      PROVE  Calm(j)
  <2> USE <1>1, <1>3 DEF Sweep, isTerminal, TerminalStatus, LiveStatus, Row
  <2>1. CASE sweepExpired(k)
    BY <2>1, Zenon DEF sweepExpired, SweepExpiredCand, SweepExpired
  <2>2. CASE sweepRequeuedClaims(k)
    BY <2>2, Zenon DEF sweepRequeuedClaims, SweepRequeueCand, Reclaimable, SweepRequeue
  <2>3. CASE sweepSilent(k)
    BY <2>3, Zenon DEF sweepSilent, SweepSilentCand, SweepSilent
  <2>4. CASE sweepStalePrinting(k)
    <3>1. SweepStalePrinting(row[k]).status = "failed"
      BY SMTT(30) DEF SweepStalePrinting
    <3> QED
      BY <2>4, <3>1, ZenonT(40) DEF sweepStalePrinting, SweepStalePrintingCand
  <2>5. CASE sweepExhaustedClaims(k) \/ sweepExhaustedQueued(k)
    BY <2>5, ZenonT(40) DEF sweepExhaustedClaims, sweepExhaustedQueued, SweepExhaustedClaimCand,
                SweepExhaustedQueuedCand, SweepExhausted
  <2>6. CASE sweepFences(k)
    BY <2>6, ZenonT(40) DEF sweepFences, SweepFence
  <2>7. CASE cleanupTerminalPrintJobs(k)
    BY <1>2, <2>7 DEF cleanupTerminalPrintJobs, Archive
  <2> QED
    BY <1>9, <2>1, <2>2, <2>3, <2>4, <2>5, <2>6, <2>7, Zenon DEF SweepNext
<1>10. ASSUME NEW k \in Jobs, deleteTerminalJobs(k) \/ tickAge(k) \/ tickTtl(k)
       PROVE  Calm(j)
  BY <1>1, <1>2, <1>3, <1>10 DEF deleteTerminalJobs, Archive, tickAge, tickTtl, Row
<1>11. CASE changeAdmission
  BY <1>2, <1>11 DEF changeAdmission
<1> QED
  BY <1>4, <1>5, <1>6, <1>7, <1>8, <1>9, <1>10, <1>11 DEF Next

\* The report that does so carries the token of the attempt that owns the row.
LEMMA ReportSteps ==
    ASSUME IInv, NEW p \in patches, patchWrite(p), NEW j \in Jobs, ~Calm(j)
    PROVE  /\ p.job = j /\ Stored(j) /\ row[j].token = p.token
           /\ p.token \in handed[j] \ returned[j]
           /\ isTerminal(row[j]) => /\ row'[j].status = "success" /\ row'[j].closed = p.token
                                    /\ row[j].error \in UnknownMarker
           /\ row[j].status # "printing" /\ row'[j].status = "printing" =>
                /\ row[j].status = "claimed" /\ row[j].ttl = Unexpired
                /\ admission = "admitted"
<1>1. /\ p.branch # "replay" /\ Stored(p.job) /\ p.job = j
      /\ PatchMatches(row[j], p, admission = "admitted")
      /\ row'[j] = PatchedRow(row[j], p)
  BY Zenon DEF patchWrite, Calm, Update, IInv, TypeOK
<1>2. /\ p \in Patch /\ p.branch \in Branch /\ row[j] \in Row
      /\ ReportInv(p, handed[j]) /\ RowInv(row[j], minted[j], handed[j], returned[j])
  BY <1>1 DEF IInv, TypeOK, Patch, HandoffInv, PatchInv, ReportInv
<1>3. row[j].status = p.from /\ row[j].token = p.token
  BY <1>1 DEF PatchMatches, PatchClock
<1>4. p.branch \notin {"expire", "crashRequeue", "reject"}
  <2>1. CASE p.branch = "expire"
    BY <1>1, <1>2, <1>3, <2>1, ZenonT(40)
    DEF PatchedRow, PatchExpire, ReportInv, Calm, Row, LiveStatus, isTerminal, TerminalStatus
  <2>2. CASE p.branch \in {"crashRequeue", "reject"}
    <3>1. row'[j].status = "queued"
      BY <1>1, <1>2, <2>2 DEF PatchedRow, PatchRequeue, Row
    <3> QED
      BY <1>2, <1>3, <2>2, <3>1, Zenon DEF ReportInv, Calm, LiveStatus, isTerminal, TerminalStatus
  <2> QED
    BY <2>1, <2>2
<1>5. p.token \in handed[j] \ returned[j] /\ p.token # NoToken
  BY <1>2, <1>3, <1>4, Zenon DEF ReportInv, RowInv
<1>6. CASE p.branch \in {"late", "lateExpired"}
  <2>1. row'[j].status = "success" /\ row'[j].closed = p.token
    BY <1>1, <1>2, <1>6, ZenonT(40) DEF PatchedRow, PatchClose, Row, TerminalStatus
  <2> QED
    BY <1>1, <1>2, <1>3, <1>5, <2>1, Zenon DEF RowInv
<1>7. CASE p.branch = "transition"
  <2>1. row'[j].status = p.to /\ row[j].status \in LiveStatus
    BY <1>1, <1>2, <1>3, <1>7, ZenonT(40) DEF PatchedRow, PatchClose, Row, ReportInv
  <2>2. row[j].status \in {"claimed", "printing"} /\ ~isTerminal(row[j])
    BY <1>2, <1>3, <1>5, <2>1, Zenon DEF RowInv, LiveStatus, isTerminal, TerminalStatus
  <2>3. p.to = "printing" => row[j].ttl = Unexpired /\ admission = "admitted"
    BY <1>1, <1>7 DEF PatchMatches, PatchClock
  <2> QED
    BY <1>1, <1>3, <1>5, <2>1, <2>2, <2>3, Zenon
<1> QED
  BY <1>1, <1>2, <1>4, <1>6, <1>7, ZenonT(40) DEF Branch

\* A terminal row changes only to success, from an ambiguous outcome, by the
\* attempt whose fence the row still holds and that may have printed.
THEOREM TerminalFinality == Spec => TerminalIsFinal
<1>1. IInv /\ [Next]_vars =>
        [\A j \in Jobs :
           Stored(j) /\ isTerminal(row[j]) /\ row'[j].status # row[j].status
           => /\ row'[j].status = "success"
              /\ row[j].error \in UnknownMarker
              /\ row[j].token \in handed[j] \ returned[j]
              /\ row'[j].closed = row[j].token]_vars
  <2> SUFFICES ASSUME IInv, Next, NEW j \in Jobs,
                      isTerminal(row[j]), row'[j].status # row[j].status
               PROVE  /\ row'[j].status = "success"
                      /\ row[j].error \in UnknownMarker
                      /\ row[j].token \in handed[j] \ returned[j]
                      /\ row'[j].closed = row[j].token
    OBVIOUS
  <2>1. ~Calm(j)
    BY DEF Calm
  <2>2. PICK p \in patches : patchWrite(p)
    BY <2>1, CalmSteps, ZenonT(40)
  <2>3. /\ row[j].token = p.token /\ p.token \in handed[j] \ returned[j]
        /\ isTerminal(row[j]) => /\ row'[j].status = "success" /\ row'[j].closed = p.token
                                 /\ row[j].error \in UnknownMarker
    BY <2>1, <2>2, ReportSteps, ZenonT(40)
  <2> QED
    BY <2>3, ZenonT(40)
<1> QED
  BY <1>1, Invariance, PTL DEF Spec, TerminalIsFinal

\* Printing starts only for the one attempt in the agent's hands, unexpired and
\* admitted at the moment of the write.
THEOREM AdmissionCurrency == Spec => AdmissionIsCurrent
<1>1. IInv /\ [Next]_vars =>
        [\A j \in Jobs :
           row[j].status # "printing" /\ row'[j].status = "printing"
           => /\ admission = "admitted" /\ row[j].ttl = Unexpired
              /\ handed[j] \ returned[j] = {row[j].token}]_vars
  <2> SUFFICES ASSUME IInv, Next, NEW j \in Jobs,
                      row[j].status # "printing", row'[j].status = "printing"
               PROVE  /\ admission = "admitted" /\ row[j].ttl = Unexpired
                      /\ handed[j] \ returned[j] = {row[j].token}
    OBVIOUS
  <2>1. ~Calm(j)
    BY DEF Calm
  <2>2. PICK p \in patches : patchWrite(p)
    BY <2>1, CalmSteps, SMTT(30)
  <2>3. /\ row[j].status = "claimed" /\ row[j].ttl = Unexpired /\ admission = "admitted"
        /\ row[j].token \in handed[j] \ returned[j]
    BY <2>1, <2>2, ReportSteps, Zenon
  <2>4. handed[j] \ returned[j] \subseteq {row[j].token}
    BY <2>3 DEF IInv, HandoffInv, RowInv
  <2> QED
    BY <2>3, <2>4
<1> QED
  BY <1>1, Invariance, PTL DEF Spec, AdmissionIsCurrent

-----------------------------------------------------------------------------
(* Late steps of attempts that were given back                             *)

\* A delayed report or push of an attempt the agent gave back changes nothing: the fence
\* of the row is never an attempt that was given back (fencedJobWrite).
THEOREM ReturnedInertness == Spec => ReturnedAttemptIsInert
<1>1. IInv /\ [Next]_vars =>
        [\A p \in (patches \ patches') \cup (pushes \ pushes') :
           p.token \in returned[p.job] => row'[p.job] = row[p.job]]_vars
  <2> SUFFICES ASSUME IInv, Next,
                      NEW p \in (patches \ patches') \cup (pushes \ pushes'),
                      p.token \in returned[p.job]
               PROVE  row'[p.job] = row[p.job]
    OBVIOUS
  <2>1. p.job \in Jobs
    BY DEF IInv, TypeOK, Push, Patch
  <2>2. row[p.job].token # p.token
    BY <2>1, Zenon DEF IInv, HandoffInv, RowInv
  <2>3. CASE UNCHANGED row
    BY <2>3
  <2>4. ASSUME NEW q \in patches, patchWrite(q)
        PROVE  row'[p.job] = row[p.job]
    <3>1. p \in patches \ patches' => p = q
      BY <2>4, Zenon DEF patchWrite
    <3>2. p \notin pushes \ pushes'
      BY <2>4, Zenon DEF patchWrite
    <3>3. ~PatchMatches(row[p.job], p, admission = "admitted")
      BY <2>2 DEF PatchMatches
    <3> QED
      BY <2>4, <3>1, <3>2, <3>3, Zenon DEF patchWrite
  <2>5. ASSUME NEW q \in pushes, PushNext(q)
        PROVE  row'[p.job] = row[p.job]
    <3>1. p \notin patches \ patches'
      BY <2>5, Zenon DEF PushNext, sendJobToAgent, pushDelivered, pushUnknown, pushRelease
    <3>2. p \in pushes \ pushes' => p = q
      BY <2>5, Zenon DEF PushNext, sendJobToAgent, pushDelivered, pushUnknown, pushRelease
    <3> QED
      BY <2>2, <2>5, <3>1, <3>2, Zenon
      DEF PushNext, sendJobToAgent, pushDelivered, pushUnknown, pushRelease, FencedDelivery, Releasable
  <2>6. ASSUME patches \subseteq patches', pushes \subseteq pushes'
        PROVE  FALSE
    BY <2>6
  <2>7. ASSUME NEW j \in Jobs,
               \/ insertQueuedJob(j) \/ claimJobForDelivery(j)
               \/ AgentNext(j) \/ SweepNext(j) \/ deleteTerminalJobs(j)
               \/ tickAge(j) \/ tickTtl(j)
        PROVE  FALSE
    BY <2>6, <2>7, Zenon
    DEF insertQueuedJob, claimJobForDelivery, AgentNext, jobAck, heartbeatKeepAlive,
        heartbeatResume, patchRead, SweepNext, sweepExpired, sweepRequeuedClaims, sweepSilent,
        sweepStalePrinting, sweepExhaustedClaims, sweepExhaustedQueued, sweepFences, Sweep,
        cleanupTerminalPrintJobs, Archive, deleteTerminalJobs, tickAge, tickTtl
  <2>8. ASSUME NEW S \in SUBSET Jobs, pollJobs(S)
        PROVE  FALSE
    BY <2>6, <2>8, Zenon DEF pollJobs
  <2>9. CASE changeAdmission
    BY <2>3, <2>9, Zenon DEF changeAdmission
  <2> QED
    BY <2>4, <2>5, <2>7, <2>8, <2>9, Zenon DEF Next
<1> QED
  BY <1>1, Invariance, PTL DEF Spec, ReturnedAttemptIsInert

-----------------------------------------------------------------------------
(* The mapped state                                                        *)

phaseOf(st, r) == IF st = "absent" THEN "absent" ELSE IF isTerminal(r) THEN r.status ELSE "open"

\* What a step may do to the phase of a job whose attempts stay as they are.
PhaseStep(j) ==
    LET f == phaseOf(stage[j], row[j])
        g == phaseOf(stage'[j], row'[j])
    IN  \/ g = f
        \/ f = "absent" /\ g = "open"
        \/ f = "open" /\ g \in {"failed", "expired"}
        \/ f # "absent" /\ g = "success" /\ handed[j] \ returned[j] # {}

\* The mapped values of one job, in both states of a step.
LEMMA MappedJob ==
    ASSUME NEW j \in Jobs
    PROVE  /\ contractPhase[j] = phaseOf(stage[j], row[j])
           /\ contractPhase'[j] = phaseOf(stage'[j], row'[j])
           /\ contractLive[j] = handed[j] \ returned[j]
           /\ contractLive'[j] = handed'[j] \ returned'[j]
BY Zenon DEF contractPhase, contractLive, phaseOf, isTerminal

\* A phase step without a change of the attempts is a step of the contract.
LEMMA QuietIsContract ==
    ASSUME NEW j \in Jobs, PhaseStep(j), handed'[j] = handed[j], returned'[j] = returned[j]
    PROVE  Contract!Step(j)
<1>1. /\ contractPhase[j] = phaseOf(stage[j], row[j])
      /\ contractPhase'[j] = phaseOf(stage'[j], row'[j])
      /\ contractLive[j] = handed[j] \ returned[j]
      /\ contractLive'[j] = contractLive[j]
  BY MappedJob, Zenon
<1>2. phaseOf(stage[j], row[j]) \in {"absent", "open", "success", "failed", "expired"}
  BY Zenon DEF phaseOf, isTerminal, TerminalStatus
<1> QED
  BY <1>1, <1>2, ZenonT(40)
  DEF PhaseStep, Contract!Step, Contract!SamePhase, Contract!SameAttempts, Contract!Accept,
      Contract!End, Contract!Correct, Contract!Ended

\* A job is in the table from its insertion on, which writes a queued row.
LEMMA StageSteps ==
    ASSUME IInv, Next, NEW j \in Jobs
    PROVE  /\ stage'[j] = "absent" => stage[j] = "absent"
           /\ stage[j] = "absent" /\ stage'[j] # "absent" => row'[j].status = "queued"
<1>1. ASSUME NEW k \in Jobs, insertQueuedJob(k)
      PROVE  /\ stage'[j] = "absent" => stage[j] = "absent"
             /\ stage[j] = "absent" /\ stage'[j] # "absent" => row'[j].status = "queued"
  <2>1. CASE k = j
    BY <1>1, <2>1, SMTT(30) DEF insertQueuedJob, Update, IInv, TypeOK, QueuedRow
  <2>2. CASE k # j
    BY <1>1, <2>2, SMTT(30) DEF insertQueuedJob, IInv, TypeOK
  <2> QED
    BY <2>1, <2>2
<1>2. ASSUME NEW k \in Jobs, Archive(k)
      PROVE  stage'[j] = stage[j] \/ (stage[j] # "absent" /\ stage'[j] # "absent")
  BY <1>2, SMTT(30) DEF Archive, Stored, IInv, TypeOK
<1>3. ASSUME NEW k \in Jobs, SweepNext(k)
      PROVE  stage' = stage \/ Archive(k)
  BY <1>3, ZenonT(40)
  DEF SweepNext, sweepExpired, sweepRequeuedClaims, sweepSilent, sweepStalePrinting,
      sweepExhaustedClaims, sweepExhaustedQueued, sweepFences, Sweep, cleanupTerminalPrintJobs
<1>4. \/ \E k \in Jobs : insertQueuedJob(k) \/ Archive(k)
      \/ stage' = stage
  BY <1>3, ZenonT(40)
  DEF Next, claimJobForDelivery, AgentNext, jobAck, heartbeatKeepAlive, heartbeatResume, patchRead,
      deleteTerminalJobs, tickAge, tickTtl, pollJobs, PushNext, sendJobToAgent, pushDelivered,
      pushUnknown, pushRelease, patchWrite, changeAdmission
<1> QED
  BY <1>1, <1>2, <1>4, Zenon

\* Every step is a phase step for every job.
LEMMA PhaseSteps ==
    ASSUME IInv, TypeOK', Next, NEW j \in Jobs
    PROVE  PhaseStep(j)
<1>1. row[j].status \in JobStatus /\ row'[j].status \in JobStatus
  BY SMTT(30) DEF IInv, TypeOK, Row
<1>2. CASE stage[j] = "absent"
  BY <1>2, StageSteps, ZenonT(40) DEF PhaseStep, phaseOf, isTerminal, TerminalStatus
<1>3. CASE stage[j] # "absent" /\ Calm(j)
  <2>1. stage'[j] # "absent"
    BY <1>3, StageSteps, Zenon
  <2> QED
    BY <1>1, <1>3, <2>1, ZenonT(40)
    DEF Calm, PhaseStep, phaseOf, isTerminal, JobStatus, LiveStatus, TerminalStatus
<1>4. CASE stage[j] # "absent" /\ ~Calm(j)
  <2>1. stage'[j] # "absent"
    BY <1>4, StageSteps, Zenon
  <2>2. PICK p \in patches : patchWrite(p)
    BY <1>4, CalmSteps, ZenonT(40)
  <2>3. /\ handed[j] \ returned[j] # {}
        /\ isTerminal(row[j]) => row'[j].status = "success"
    BY <1>4, <2>2, ReportSteps, ZenonT(40)
  <2>4. isTerminal(row[j]) \/ row'[j].status \in {"printing", "success"}
    BY <1>4, Zenon DEF Calm
  <2> QED
    BY <1>4, <2>1, <2>3, <2>4, ZenonT(40) DEF PhaseStep, phaseOf, isTerminal, TerminalStatus
<1> QED
  BY <1>2, <1>3, <1>4

-----------------------------------------------------------------------------
(* The attempts                                                            *)

\* A new attempt of a job of which none is out.
LEMMA NewAttempt ==
    ASSUME NEW j \in Jobs, NEW t, t \notin handed[j], returned[j] \subseteq handed[j],
           handed[j] \ returned[j] = {}, stage[j] # "absent",
           handed'[j] = handed[j] \cup {t}, returned'[j] = returned[j],
           phaseOf(stage'[j], row'[j]) = phaseOf(stage[j], row[j])
    PROVE  Contract!Step(j)
<1>1. /\ contractPhase'[j] = contractPhase[j] /\ contractPhase[j] # "absent"
      /\ contractLive[j] = {}
  BY MappedJob, ZenonT(40) DEF phaseOf, isTerminal, TerminalStatus
<1>2. t \in handed'[j] \ handed[j]
  BY Zenon
<1>3. contractLive'[j] = {t}
  BY MappedJob, SMTT(30)
<1>4. Contract!HandOver(j)
  BY <1>1, <1>2, <1>3, Zenon DEF Contract!HandOver, Contract!SamePhase
<1> QED
  BY <1>4, Zenon DEF Contract!Step

\* A frame is sent only for the claim that its push made, and none is out then.
LEMMA SendIsContract ==
    ASSUME IInv, NEW p \in pushes, NEW o, sendJobToAgent(p, o), NEW j \in Jobs
    PROVE  Contract!Step(j)
<1>1. p.job \in Jobs
  BY SMTT(30) DEF IInv, TypeOK, Push
<1>2. /\ phaseOf(stage'[j], row'[j]) = phaseOf(stage[j], row[j])
      /\ returned'[j] = returned[j] /\ returned[j] \subseteq handed[j]
  BY Zenon DEF sendJobToAgent, IInv, HandoffInv
<1>3. CASE j = p.job /\ o # "not_sent"
  <2>1. handed'[j] = handed[j] \cup {p.token}
    BY <1>1, <1>3, SMTT(30) DEF sendJobToAgent, IInv, TypeOK
  <2>2. p.token \notin handed[j] /\ handed[j] \ returned[j] = {} /\ stage[j] # "absent"
    BY <1>3, Zenon DEF sendJobToAgent, IInv, HandoffInv, PushInv
  <2> QED
    BY <1>2, <2>1, <2>2, NewAttempt, ZenonT(40)
<1>4. CASE j # p.job \/ o = "not_sent"
  <2>1. handed'[j] = handed[j]
    BY <1>1, <1>4, SMTT(30) DEF sendJobToAgent, IInv, TypeOK
  <2> QED
    BY <1>2, <2>1, QuietIsContract, Zenon DEF PhaseStep
<1> QED
  BY <1>3, <1>4

\* A poll claims only jobs of which no attempt is out.
LEMMA PollIsContract ==
    ASSUME IInv, TypeOK', NEW S \in SUBSET Jobs, pollJobs(S), NEW j \in Jobs
    PROVE  Contract!Step(j)
<1>1. /\ stage' = stage /\ returned' = returned /\ returned[j] \subseteq handed[j]
      /\ handed[j] \subseteq 1..minted[j] /\ minted[j] \in Nat
  BY Zenon DEF pollJobs, IInv, TypeOK, HandoffInv
<1>2. CASE j \in S
  <2>1. PollClaimable(row[j]) /\ Stored(j) /\ row'[j] = Claimed(row[j], minted[j] + 1)
        /\ handed'[j] = handed[j] \cup {minted[j] + 1}
    BY <1>2, Zenon DEF pollJobs
  <2>2. Meets(row[j], minted[j], handed[j], returned[j])
    BY RowsMeet
  <2>3. /\ handed[j] \ returned[j] = {}
        /\ row[j].status = "queued" \/ (row[j].status = "claimed" /\ row[j].token = NoToken)
    <3> DEFINE r == row[j]  n == minted[j]  h == handed[j]  b == returned[j]
    <3>1. Meets(r, n, h, b) /\ PollClaimable(r)
      BY <2>1, <2>2
    <3> HIDE DEF r, n, h, b
    <3>2. h \ b = {} /\ (r.status = "queued" \/ (r.status = "claimed" /\ r.token = NoToken))
      BY <3>1, ClaimKeeps, ZenonT(40)
    <3> QED
      BY <3>2, Zenon DEF r, n, h, b
  <2>4. row'[j].status = "claimed"
    BY <2>1, <2>2, SMTT(30) DEF Claimed, Meets, Row
  <2>5. minted[j] + 1 \notin handed[j]
    BY <1>1, NextToken, Zenon
  <2>6. stage[j] # "absent" /\ phaseOf(stage'[j], row'[j]) = phaseOf(stage[j], row[j])
    BY <1>1, <2>1, <2>3, <2>4, ZenonT(40) DEF phaseOf, isTerminal, TerminalStatus, Stored
  <2>7. returned'[j] = returned[j]
    BY <1>1
  <2> QED
    BY <1>1, <2>1, <2>3, <2>5, <2>6, <2>7, NewAttempt, ZenonT(40)
<1>3. CASE j \notin S
  <2>1. row'[j] = row[j] /\ handed'[j] = handed[j] /\ returned'[j] = returned[j] /\ stage'[j] = stage[j]
    BY <1>1, <1>3, Zenon DEF pollJobs
  <2> QED
    BY <2>1, QuietIsContract, Zenon DEF PhaseStep
<1> QED
  BY <1>2, <1>3

\* Only the agent gives back an attempt, and then none is out.
LEMMA ReportIsContract ==
    ASSUME IInv, TypeOK', Next, NEW p \in patches, patchWrite(p), NEW j \in Jobs
    PROVE  Contract!Step(j)
<1>1. /\ p \in Patch /\ p.job \in Jobs /\ stage' = stage /\ handed' = handed
      /\ ReportInv(p, handed[p.job])
  BY Zenon DEF IInv, TypeOK, Patch, patchWrite, HandoffInv, PatchInv, ReportInv
<1>2. CASE returned'[j] = returned[j]
  BY <1>1, <1>2, PhaseSteps, QuietIsContract, Zenon
<1>3. CASE returned'[j] # returned[j]
  <2>1. /\ p.job = j /\ Stored(j) /\ p.branch \in {"crashRequeue", "reject"}
        /\ PatchMatches(row[j], p, admission = "admitted")
        /\ row'[j] = PatchedRow(row[j], p)
        /\ returned'[j] = returned[j] \cup {p.token}
    BY <1>1, <1>3, ZenonT(40) DEF patchWrite, Update, IInv, TypeOK
  <2>2. row[j].status \in LiveStatus /\ row[j].token = p.token /\ p.token \in handed[j]
    BY <1>1, <2>1, Zenon DEF PatchMatches, ReportInv
  <2>3. /\ row[j] \in Row
        /\ RowInv(row[j], minted[j], handed[j], returned[j])
        /\ \A a, b \in handed[j] \ returned[j] : a = b
    BY Zenon DEF IInv, TypeOK, HandoffInv, SingleLiveAttempt
  <2>4. p.token \in handed[j] \ returned[j]
    BY <2>2, <2>3, Zenon DEF RowInv
  <2>5. handed[j] \ returned'[j] = {}
    BY <2>1, <2>3, <2>4, Zenon
  <2>6. row'[j].status = "queued"
    BY <2>1, <2>3, SMTT(30) DEF PatchedRow, PatchRequeue, Row
  <2>7. contractPhase[j] = "open" /\ contractPhase'[j] = "open"
    BY <1>1, <2>1, <2>2, <2>6, MappedJob, ZenonT(40)
    DEF phaseOf, isTerminal, TerminalStatus, LiveStatus, Stored
  <2>8. contractLive[j] # {} /\ contractLive'[j] = {}
    BY <1>1, <2>4, <2>5, MappedJob, ZenonT(40)
  <2>9. Contract!GiveBack(j)
    BY <1>1, <2>7, <2>8, Zenon DEF Contract!GiveBack, Contract!SamePhase
  <2> QED
    BY <2>9, Zenon DEF Contract!Step
<1> QED
  BY <1>2, <1>3

\* The other steps leave the attempts alone.
LEMMA OtherSteps ==
    ASSUME Next, ~ \E p \in patches : patchWrite(p), ~ \E S \in SUBSET Jobs : pollJobs(S),
           ~ \E p \in pushes, o \in {"sent", "ambiguous", "not_sent"} : sendJobToAgent(p, o)
    PROVE  handed' = handed /\ returned' = returned
<1>1. ASSUME NEW k \in Jobs, SweepNext(k)
      PROVE  handed' = handed /\ returned' = returned
  BY <1>1, ZenonT(40)
  DEF SweepNext, sweepExpired, sweepRequeuedClaims, sweepSilent, sweepStalePrinting,
      sweepExhaustedClaims, sweepExhaustedQueued, sweepFences, Sweep, cleanupTerminalPrintJobs, Archive
<1> QED
  BY <1>1, ZenonT(40)
  DEF Next, insertQueuedJob, claimJobForDelivery, AgentNext, jobAck, heartbeatKeepAlive,
      heartbeatResume, patchRead, deleteTerminalJobs, Archive, tickAge, tickTtl, PushNext,
      pushDelivered, pushUnknown, pushRelease, changeAdmission

\* Every step of the Gateway is a step of the contract for every job.
LEMMA StepIsContract ==
    ASSUME IInv, TypeOK', Next, NEW j \in Jobs
    PROVE  Contract!Step(j)
<1>1. CASE \E p \in patches : patchWrite(p)
  BY <1>1, ReportIsContract, Zenon
<1>2. CASE \E S \in SUBSET Jobs : pollJobs(S)
  BY <1>2, PollIsContract, Zenon
<1>3. CASE \E p \in pushes, o \in {"sent", "ambiguous", "not_sent"} : sendJobToAgent(p, o)
  BY <1>3, SendIsContract, Zenon
<1>4. CASE handed' = handed /\ returned' = returned
  BY <1>4, PhaseSteps, QuietIsContract, Zenon
<1> QED
  BY <1>1, <1>2, <1>3, <1>4, OtherSteps, Zenon

\* The mapped variables have the contract's types.
MappedOK == /\ contractPhase \in [Jobs -> Contract!Phases]
            /\ contractLive \in [Jobs -> SUBSET Nat] /\ handed \in [Jobs -> SUBSET Nat]

\* The rows of well-typed jobs map to well-typed abstract jobs.
LEMMA MappedTypes == TypeOK => MappedOK
<1> SUFFICES ASSUME TypeOK
             PROVE  MappedOK
  OBVIOUS
<1>1. ASSUME NEW j \in Jobs
      PROVE  /\ phaseOf(stage[j], row[j]) \in Contract!Phases
             /\ handed[j] \ returned[j] \in SUBSET Nat
  BY ZenonT(40) DEF phaseOf, isTerminal, TerminalStatus, Contract!Phases, Contract!Ended, TypeOK
<1> QED
  BY <1>1, ZenonT(40) DEF MappedOK, contractPhase, contractLive, phaseOf, TypeOK

\* The Gateway implements the contract: for any jobs, budgets, slots and concurrent
\* handlers, its behaviours, seen through the mapping, are behaviours of JobContract.
THEOREM Refinement == Spec => ImplementsContract
<1>1. Init => Contract!Init
  <2> SUFFICES ASSUME Init
               PROVE  Contract!Init
    OBVIOUS
  <2>1. ASSUME NEW j \in Jobs
        PROVE  /\ phaseOf(stage[j], row[j]) \in {"absent", "open"}
               /\ handed[j] = {} /\ returned[j] = {}
    <3>1. QueuedRow.status = "queued" /\ \A n : LegacyRow(n).status = "claimed"
      BY SMTT(30) DEF QueuedRow, LegacyRow
    <3>2. row[j] \in {QueuedRow, LegacyRow(1), LegacyRow(MAX_DELIVERY_ATTEMPTS)}
      BY Zenon DEF Init
    <3>3. row[j].status \in {"queued", "claimed"}
      BY <3>1, <3>2, Zenon
    <3> QED
      BY <3>3, ZenonT(40) DEF phaseOf, isTerminal, TerminalStatus, Init
  <2>2. contractPhase \in [Jobs -> {"absent", "open"}]
    BY <2>1, Zenon DEF contractPhase, phaseOf
  <2>3. contractLive = [j \in Jobs |-> {}]
    BY <2>1, SMTT(30) DEF contractLive
  <2> QED
    BY <2>2, <2>3, Zenon DEF Contract!Init, Init
<1>2. IInv /\ TypeOK' /\ MappedOK' /\ [Next]_vars => [Contract!Next]_(Contract!vars)
  <2> SUFFICES ASSUME IInv, TypeOK', MappedOK', [Next]_vars
               PROVE  [Contract!Next]_(Contract!vars)
    OBVIOUS
  <2>1. CASE Next
    BY <2>1, StepIsContract, Zenon DEF MappedOK, Contract!Next
  <2>2. CASE UNCHANGED vars
    BY <2>2, Zenon DEF vars, Contract!vars, contractPhase, contractLive, isTerminal
  <2> QED
    BY <2>1, <2>2
<1> QED
  BY <1>1, <1>2, Invariance, TypeCorrect, MappedTypes, PTL DEF Spec, ImplementsContract, Contract!Spec

-----------------------------------------------------------------------------
(* The agent's executor slots                                              *)

\* The row is a claim of this version that has not expired.
Held(r) == r.status \in {"claimed", "printing"} /\ r.token # NoToken /\ r.ttl = Unexpired

\* A statement takes no slot: what it leaves held was held.
Frees(r, s) == Held(s) => Held(r)

\* Evidence writes, releases and the clocks take no slot (job-delivery.ts, heartbeat).
LEMMA DeliveryFrees ==
    ASSUME NEW r \in Row
    PROVE  /\ Frees(r, markJobDelivered(r)) /\ Frees(r, markJobDeliveryUnknown(r))
           /\ Frees(r, recordJobAck(r)) /\ Frees(r, releaseUndeliveredClaim(r))
           /\ Frees(r, [r EXCEPT !.age = Fresh]) /\ Frees(r, [r EXCEPT !.error = "null"])
           /\ Frees(r, [r EXCEPT !.age = @ + 1]) /\ Frees(r, [r EXCEPT !.ttl = @ + 1])
           /\ Frees(r, QueuedRow)
<1>1. Frees(r, releaseUndeliveredClaim(r))
  BY DEF Frees, Held, releaseUndeliveredClaim, Row, NoToken
<1>2. Frees(r, [r EXCEPT !.ttl = @ + 1])
  BY DEF Frees, Held, Row, Unexpired, GraceOver
<1>3. Frees(r, QueuedRow)
  BY DEF Frees, Held, QueuedRow
<1>4. /\ Frees(r, markJobDelivered(r)) /\ Frees(r, markJobDeliveryUnknown(r))
      /\ Frees(r, recordJobAck(r))
  BY DEF Frees, Held, Row, markJobDelivered, markJobDeliveryUnknown, recordJobAck
<1>5. /\ Frees(r, [r EXCEPT !.age = Fresh]) /\ Frees(r, [r EXCEPT !.error = "null"])
      /\ Frees(r, [r EXCEPT !.age = @ + 1])
  BY DEF Frees, Held, Row
<1> QED
  BY <1>1, <1>2, <1>3, <1>4, <1>5

\* Neither does the sweeper ...
LEMMA SweepFrees ==
    ASSUME NEW r \in Row
    PROVE  /\ Frees(r, SweepExpired(r)) /\ Frees(r, SweepRequeue(r)) /\ Frees(r, SweepSilent(r))
           /\ Frees(r, SweepStalePrinting(r)) /\ Frees(r, SweepExhausted(r))
           /\ Frees(r, SweepFence(r))
<1> USE DEF Frees, Held, Row
<1>1. Frees(r, SweepExpired(r)) /\ Frees(r, SweepRequeue(r)) /\ Frees(r, SweepSilent(r))
  BY DEF SweepExpired, SweepRequeue, SweepSilent
<1>2. Frees(r, SweepStalePrinting(r))
  BY DEF SweepStalePrinting
<1>3. Frees(r, SweepExhausted(r)) /\ Frees(r, SweepFence(r))
  BY DEF SweepExhausted, SweepFence
<1> QED
  BY <1>1, <1>2, <1>3

\* ... nor a report: the one that starts printing finds the row claimed by its token.
LEMMA PatchFrees ==
    ASSUME NEW r \in Row, NEW p \in Patch, p.branch # "replay", r.token = p.token,
           p.branch = "transition" => r.status \in LiveStatus,
           r.status = "queued" => r.token = NoToken
    PROVE  Frees(r, PatchedRow(r, p))
<1> USE DEF Frees, Held, Row
<1>1. Frees(r, PatchExpire(r))
  BY DEF PatchExpire
<1>2. ASSUME NEW e, NEW f
      PROVE  Frees(r, PatchRequeue(r, e, f))
  BY DEF PatchRequeue
<1>3. ASSUME NEW e, NEW t
      PROVE  Frees(r, PatchClose(r, "success", e, t))
  BY DEF PatchClose
<1>4. ASSUME p.branch = "transition"
      PROVE  Frees(r, PatchClose(r, p.to, p.error, p.token))
  BY <1>4, SMTT(30) DEF PatchClose, LiveStatus
<1>5. p.branch \in Branch
  BY DEF Patch
<1> HIDE DEF Frees, Held, Row
<1>6. CASE p.branch = "transition"
  BY <1>4, <1>6 DEF PatchedRow
<1>7. CASE p.branch \in {"lateExpired", "late"}
  BY <1>3, <1>7 DEF PatchedRow
<1>8. CASE p.branch \in {"expire", "crashRequeue", "reject"}
  BY <1>1, <1>2, <1>8 DEF PatchedRow
<1> QED
  BY <1>5, <1>6, <1>7, <1>8 DEF Branch

-----------------------------------------------------------------------------
(* Only a claim takes a slot                                               *)

\* The stored jobs of the agent, row by row.
LEMMA HeldMembers ==
    /\ \A j : j \in HeldByAgent <=> j \in Jobs /\ Stored(j) /\ Held(row[j])
    /\ \A j : j \in HeldByAgent' <=> j \in Jobs /\ stage'[j] = "stored" /\ Held(row'[j])
BY Zenon DEF HeldByAgent, Held, Stored

\* What the agent holds counts against its slots: a claim that carries a token also carries
\* evidence, so it is never mistaken for one that may be claimed again.
LEMMA HeldIsInFlight ==
    ASSUME IInv
    PROVE  HeldByAgent \subseteq InFlightJobs
<1> SUFFICES ASSUME NEW j \in Jobs, Stored(j), Held(row[j])
             PROVE  InFlight(row[j])
  BY HeldMembers, Zenon DEF InFlightJobs
<1>1. RowInv(row[j], minted[j], handed[j], returned[j])
  BY Zenon DEF IInv, HandoffInv
<1> QED
  BY <1>1 DEF RowInv, Held, InFlight, Reclaimable

\* A step that rewrites one row, and no claim, takes no slot.
LEMMA UpdateFrees ==
    ASSUME IInv, NEW j \in Jobs, NEW r, Update(j, r),
           \A k \in Jobs : stage'[k] = "stored" => Stored(k) \/ k = j,
           Held(r) => Stored(j), Frees(row[j], r)
    PROVE  HeldByAgent' \subseteq HeldByAgent
<1>1. ASSUME NEW k \in Jobs
      PROVE  row'[k] = IF k = j THEN r ELSE row[k]
  BY DEF Update, IInv, TypeOK
<1> QED
  BY <1>1, HeldMembers, Zenon DEF Frees

\* A step that leaves the rows alone takes no slot.
LEMMA QuietFrees ==
    ASSUME row' = row, \A k \in Jobs : stage'[k] = "stored" => Stored(k)
    PROVE  HeldByAgent' \subseteq HeldByAgent
BY HeldMembers, Zenon

\* Every handler but the two that claim leaves the agent with no more than it had.
LEMMA OnlyClaimsHold ==
    ASSUME IInv, [Next]_vars,
           \A j \in Jobs : ~claimJobForDelivery(j), \A S \in SUBSET Jobs : ~pollJobs(S)
    PROVE  HeldByAgent' \subseteq HeldByAgent
<1>0. ASSUME NEW j \in Jobs
      PROVE  row[j] \in Row
  BY DEF IInv, TypeOK
<1>1. ASSUME NEW j \in Jobs, NEW r, Update(j, r), Stored(j), Frees(row[j], r), stage' = stage
      PROVE  HeldByAgent' \subseteq HeldByAgent
  BY <1>1, UpdateFrees, Zenon DEF Stored
<1>2. ASSUME UNCHANGED <<stage, row>>
      PROVE  HeldByAgent' \subseteq HeldByAgent
  BY <1>2, QuietFrees, Zenon DEF Stored
<1>3. ASSUME NEW j \in Jobs, insertQueuedJob(j)
      PROVE  HeldByAgent' \subseteq HeldByAgent
  <2>1. \A k \in Jobs : stage'[k] = "stored" => Stored(k) \/ k = j
    BY <1>3 DEF insertQueuedJob, IInv, TypeOK, Stored
  <2>2. ~Held(QueuedRow)
    BY DEF Held, QueuedRow
  <2> QED
    BY <1>0, <1>3, <2>1, <2>2, DeliveryFrees, UpdateFrees, Zenon DEF insertQueuedJob
<1>4. ASSUME NEW j \in Jobs, AgentNext(j)
      PROVE  HeldByAgent' \subseteq HeldByAgent
  BY <1>0, <1>1, <1>2, <1>4, DeliveryFrees, Zenon
  DEF AgentNext, jobAck, heartbeatKeepAlive, heartbeatResume, patchRead
<1>5. ASSUME NEW j \in Jobs, Archive(j)
      PROVE  HeldByAgent' \subseteq HeldByAgent
  <2>1. \A k \in Jobs : stage'[k] = "stored" => Stored(k)
    BY <1>5 DEF Archive, IInv, TypeOK, Stored
  <2> QED
    BY <1>5, <2>1, QuietFrees, Zenon DEF Archive
<1>6. ASSUME NEW j \in Jobs, SweepNext(j)
      PROVE  HeldByAgent' \subseteq HeldByAgent
  BY <1>0, <1>1, <1>5, <1>6, SweepFrees, Zenon
  DEF SweepNext, sweepExpired, sweepRequeuedClaims, sweepSilent, sweepStalePrinting,
      sweepExhaustedClaims, sweepExhaustedQueued, sweepFences, Sweep, cleanupTerminalPrintJobs
<1>7. ASSUME NEW j \in Jobs, tickAge(j) \/ tickTtl(j)
      PROVE  HeldByAgent' \subseteq HeldByAgent
  BY <1>0, <1>1, <1>7, DeliveryFrees, Zenon DEF tickAge, tickTtl
<1>8. ASSUME NEW p \in pushes, PushNext(p)
      PROVE  HeldByAgent' \subseteq HeldByAgent
  <2>1. p.job \in Jobs
    BY DEF IInv, TypeOK, Push
  <2> QED
    BY <1>0, <1>1, <1>2, <1>8, <2>1, DeliveryFrees, Zenon
    DEF PushNext, sendJobToAgent, pushDelivered, pushUnknown, pushRelease
<1>9. ASSUME NEW p \in patches, patchWrite(p)
      PROVE  HeldByAgent' \subseteq HeldByAgent
  <2>1. p \in Patch /\ p.job \in Jobs
    BY DEF IInv, TypeOK, Patch
  <2>2. CASE p.branch # "replay" /\ Stored(p.job)
             /\ PatchMatches(row[p.job], p, admission = "admitted")
    <3>1. row[p.job].status = p.from /\ row[p.job].token = p.token
      BY <2>2, Zenon DEF PatchMatches
    <3>2. p.branch = "transition" => row[p.job].status \in LiveStatus
      BY <3>1, Zenon DEF IInv, HandoffInv, PatchInv
    <3>3. row[p.job].status = "queued" => row[p.job].token = NoToken
      BY <2>1, Zenon DEF IInv, HandoffInv, RowInv
    <3>4. Frees(row[p.job], PatchedRow(row[p.job], p))
      BY <1>0, <2>1, <2>2, <3>1, <3>2, <3>3, PatchFrees, Zenon
    <3> QED
      BY <1>1, <1>9, <2>1, <2>2, <3>4, Zenon DEF patchWrite
  <2>3. CASE UNCHANGED row
    BY <1>2, <1>9, <2>3, Zenon DEF patchWrite
  <2> QED
    BY <1>9, <2>2, <2>3, Zenon DEF patchWrite
<1>10. CASE changeAdmission
  BY <1>2, <1>10, Zenon DEF changeAdmission
<1>11. CASE UNCHANGED vars
  BY <1>2, <1>11, Zenon DEF vars
<1> QED
  BY <1>3, <1>4, <1>5, <1>6, <1>7, <1>8, <1>9, <1>10, <1>11, Zenon DEF Next, deleteTerminalJobs

-----------------------------------------------------------------------------
(* Counting                                                                *)

\* A claim of the jobs in S adds no others to what the agent holds.
LEMMA ClaimHolds ==
    ASSUME IInv, NEW S \in SUBSET Jobs, stage' = stage,
           \A j \in Jobs \ S : row'[j] = row[j]
    PROVE  HeldByAgent' \subseteq InFlightJobs \cup S
<1>1. HeldByAgent' \subseteq HeldByAgent \cup S
  BY HeldMembers, Zenon DEF Stored
<1> QED
  BY <1>1, HeldIsInFlight, Zenon

\* The agent never holds more unexpired jobs than it has executor slots, whatever pushes
\* and polls claim concurrently with the sweeper and the agent's own reports.
THEOREM SlotsSuffice == Spec => []InFlightCeiling
<1>1. Init => InFlightCeiling
  <2> SUFFICES ASSUME Init
               PROVE  InFlightCeiling
    OBVIOUS
  <2>1. ASSUME NEW j \in Jobs
        PROVE  row[j].token = NoToken
    <3>1. row[j] \in {QueuedRow, LegacyRow(1), LegacyRow(MAX_DELIVERY_ATTEMPTS)}
      BY Zenon DEF Init
    <3>2. QueuedRow.token = NoToken /\ \A n : LegacyRow(n).token = NoToken
      BY DEF QueuedRow, LegacyRow
    <3> QED
      BY <3>1, <3>2, Zenon
  <2>2. HeldByAgent = {}
    BY <2>1, Zenon DEF HeldByAgent
  <2> QED
    BY <2>2, FS_EmptySet, CapacityAssumption DEF InFlightCeiling
<1>2. IInv /\ InFlightCeiling /\ [Next]_vars => InFlightCeiling'
  <2> SUFFICES ASSUME IInv, InFlightCeiling, [Next]_vars
               PROVE  Cardinality(HeldByAgent') <= MAX_AGENT_IN_FLIGHT_JOBS
    BY DEF InFlightCeiling
  <2> DEFINE F == InFlightJobs
  <2>0. /\ HeldByAgent \subseteq Jobs /\ F \subseteq Jobs /\ HeldByAgent' \subseteq Jobs
    BY HeldMembers, Zenon DEF InFlightJobs
  <2>1. /\ IsFiniteSet(HeldByAgent) /\ IsFiniteSet(F)
        /\ Cardinality(HeldByAgent) \in Nat /\ Cardinality(F) \in Nat
    BY <2>0, JobsAssumption, FS_Subset, FS_CardinalityType
  <2>2. ASSUME NEW S \in SUBSET Jobs, HeldByAgent' \subseteq F \cup S,
               Cardinality(S) + Cardinality(F) <= MAX_AGENT_IN_FLIGHT_JOBS
        PROVE  Cardinality(HeldByAgent') <= MAX_AGENT_IN_FLIGHT_JOBS
    <3> HIDE DEF F
    <3>1. IsFiniteSet(S) /\ Cardinality(S) \in Nat
      BY JobsAssumption, FS_Subset, FS_CardinalityType
    <3>2. /\ IsFiniteSet(F \cup S)
          /\ Cardinality(F \cup S) = Cardinality(F) + Cardinality(S) - Cardinality(F \cap S)
      BY <2>1, <3>1, FS_Union
    <3>3. Cardinality(F \cap S) \in Nat
      BY <2>1, <3>1, FS_Intersection, FS_CardinalityType
    <3>4. /\ Cardinality(HeldByAgent') <= Cardinality(F \cup S)
          /\ Cardinality(HeldByAgent') \in Nat /\ Cardinality(F \cup S) \in Nat
      BY <2>2, <3>2, FS_Subset, FS_CardinalityType
    <3> QED
      BY <2>1, <2>2, <3>1, <3>2, <3>3, <3>4, CapacityAssumption
  <2>3. ASSUME NEW j \in Jobs, claimJobForDelivery(j)
        PROVE  Cardinality(HeldByAgent') <= MAX_AGENT_IN_FLIGHT_JOBS
    <3>1. \A k \in Jobs \ {j} : row'[k] = row[k]
      BY <2>3 DEF claimJobForDelivery, Update, IInv, TypeOK
    <3>2. HeldByAgent' \subseteq F \cup {j}
      BY <2>3, <3>1, ClaimHolds, Zenon DEF claimJobForDelivery
    <3>3. Cardinality({j}) = 1
      BY FS_Singleton
    <3>4. Cardinality(F) < MAX_AGENT_IN_FLIGHT_JOBS
      BY <2>3, Zenon DEF claimJobForDelivery
    <3> HIDE DEF F
    <3>5. Cardinality({j}) + Cardinality(F) <= MAX_AGENT_IN_FLIGHT_JOBS
      BY <2>1, <3>3, <3>4, CapacityAssumption
    <3> QED
      BY <2>2, <3>2, <3>5
  <2>4. ASSUME NEW S \in SUBSET Jobs, pollJobs(S)
        PROVE  Cardinality(HeldByAgent') <= MAX_AGENT_IN_FLIGHT_JOBS
    <3>1. \A k \in Jobs \ S : row'[k] = row[k]
      BY <2>4, Zenon DEF pollJobs
    <3>2. HeldByAgent' \subseteq F \cup S
      BY <2>4, <3>1, ClaimHolds, Zenon DEF pollJobs
    <3> QED
      BY <2>2, <2>4, <3>2, Zenon DEF pollJobs
  <2>5. CASE HeldByAgent' \subseteq HeldByAgent
    <3>1. Cardinality(HeldByAgent') <= Cardinality(HeldByAgent) /\ Cardinality(HeldByAgent') \in Nat
      BY <2>1, <2>5, FS_Subset, FS_CardinalityType
    <3> QED
      BY <2>1, <3>1, CapacityAssumption DEF InFlightCeiling
  <2> QED
    BY <2>3, <2>4, <2>5, OnlyClaimsHold, Zenon
<1> QED
  BY <1>1, <1>2, Invariance, PTL DEF Spec
=============================================================================
