---------------------------- MODULE JobCreation ----------------------------
(***************************************************************************)
(* How a print request becomes a durable job of the Gateway: the POST and  *)
(* GET of /api/print/jobs (Odoo), the operator's reprint, and the          *)
(* transaction of print-job-service.ts they share, against everything that *)
(* moves meanwhile: the credential, the workspace, the printer, the jobs   *)
(* themselves, and the retention that replaces a finished job by a receipt.*)
(*                                                                         *)
(* PostgreSQL runs at READ COMMITTED: every statement sees what is         *)
(* committed when it starts. A transaction is therefore split where its    *)
(* statements may see different states; the locks it holds are read off    *)
(* its program counter.                                                    *)
(***************************************************************************)
EXTENDS Naturals, FiniteSets

CONSTANTS Requests, IdemKeys, Contents, Kinds,
          MAX_AGENT_QUEUED_JOBS,    \* queued jobs one agent may have
          max_concurrent_jobs,      \* live jobs the plan allows
          max_prints_per_period,    \* credits of one billing period
          MaxPeriod,                \* bound on billing periods
          SweepOverlaps             \* may a retention sweep commit inside an enqueue?

CreationAssumption ==
    /\ MAX_AGENT_QUEUED_JOBS \in Nat \ {0}
    /\ max_concurrent_jobs \in Nat \ {0}
    /\ max_prints_per_period \in Nat \ {0}
    /\ MaxPeriod \in Nat /\ SweepOverlaps \in BOOLEAN
    /\ Kinds \subseteq {"odoo", "reprint", "get"}

VARIABLES
    jobs,       \* the rows of print_jobs
    receipts,   \* the rows of print_job_receipts
    nextId,     \* generated job identifiers
    used,       \* print_usage_periods.used_prints, by period
    period,     \* the subscription's current period
    tenant,     \* tenants.lifecycle
    apiKey,     \* the Odoo credential: "live", "disabled" or "revoked"
    manager,    \* does the operator's session still hold its authority?
    printer,    \* the printer row: its agent, and whether it may take jobs
    req         \* the requests

creationVars == <<jobs, receipts, nextId, used, period, tenant, apiKey, manager, printer, req>>

Agents == {"a1", "a2"}
NoId   == 0
Live   == {"queued", "claimed"}

Original == [id |-> 1, key |-> <<"odoo", "first">>, fp |-> "original", internal |-> FALSE,
             agent |-> "a1", status |-> "failed", period |-> 0]

Idle == [pc |-> "idle", kind |-> "odoo", key |-> <<>>, fp |-> "original",
         agent |-> "a1", id |-> NoId, was |-> FALSE]

CreationInit ==
    /\ jobs = {Original} /\ receipts = {} /\ nextId = 2
    /\ period = 0 /\ used = [p \in 0..MaxPeriod |-> IF p = 0 THEN 1 ELSE 0]
    /\ tenant = "active" /\ apiKey = "live" /\ manager = TRUE
    /\ printer = [agent |-> "a1", usable |-> TRUE]
    /\ req = [r \in Requests |-> Idle]

\* What a transaction holds from its fence to its commit: the share lock on the
\* tenant row, the tenant's advisory lock, and its principal's row.
InTx(r)  == req[r].pc \in {"fenced", "noReceipt"}
Locked   == \E r \in Requests : InTx(r)
KeyHeld  == \E r \in Requests : InTx(r) /\ req[r].kind = "odoo"
UserHeld == \E r \in Requests : InTx(r) /\ req[r].kind = "reprint"

Put(r, f)    == req' = [req EXCEPT ![r] = f]
To(r, pc)    == Put(r, [req[r] EXCEPT !.pc = pc])
Reuse(r, j)  == Put(r, [req[r] EXCEPT !.id = j.id,
                            !.pc = IF req[r].kind = "odoo" THEN "reused" ELSE "done"])
Refuse(r)    == To(r, "refused")
Rest         == <<used, period, tenant, apiKey, manager, printer>>
Tables       == <<jobs, receipts, nextId>>

HasKey(j, k) == j.key = k /\ k # <<>>
ReprintOf(j) == j.key # <<>> /\ j.key[1] = "gw-reprint"

-----------------------------------------------------------------------------
(* A request arrives                                                       *)

\* POST /api/print/jobs: authentication, and the unlocked look at the owner.
POST(r, k, fp) ==
    /\ req[r].pc = "idle" /\ "odoo" \in Kinds
    /\ IF apiKey # "live" \/ tenant # "active" THEN Refuse(r)
       ELSE Put(r, [req[r] EXCEPT !.kind = "odoo", !.key = k, !.fp = fp,
                        !.pc = IF printer.agent \in Agents THEN "begin" ELSE "recover",
                        !.agent = IF printer.agent \in Agents THEN printer.agent ELSE @])
    /\ UNCHANGED <<Tables, Rest>>

\* POST /api/jobs/[id]/reprint of the original: only while its row exists, and
\* only when it did not succeed.
reprint(r) ==
    /\ req[r].pc = "idle" /\ "reprint" \in Kinds
    /\ IF ~manager \/ Original \notin jobs \/ printer.agent \notin Agents THEN Refuse(r)
       ELSE Put(r, [req[r] EXCEPT !.kind = "reprint", !.pc = "begin",
                        !.agent = printer.agent])
    /\ UNCHANGED <<Tables, Rest>>

-----------------------------------------------------------------------------
(* insertQueuedJobAtomically                                               *)

\* The tenant row, the advisory locks, then the caller's own authority: all of
\* them before anything is looked up.
fence(r) ==
    /\ req[r].pc = "begin" /\ ~Locked
    /\ IF \/ tenant # "active"
          \/ req[r].kind = "odoo" /\ apiKey # "live"
          \/ req[r].kind = "reprint" /\ ~manager
       THEN Refuse(r) ELSE To(r, "fenced")
    /\ UNCHANGED <<Tables, Rest>>

ActiveReprints == {j \in jobs : ReprintOf(j) /\ j.status \in Live}

\* Mutant of coordinateReprint: every request allocates the next number.
alwaysAllocate(r) ==
    /\ req[r].pc = "fenced" /\ req[r].kind = "reprint" /\ req[r].key = <<>>
    /\ LET n == Cardinality({j \in jobs \cup receipts : ReprintOf(j)}) IN
       Put(r, [req[r] EXCEPT !.key = <<"gw-reprint", n + 1>>])
    /\ UNCHANGED <<Tables, Rest>>

\* A live reprint of the same original is returned; otherwise the next number
\* is taken from what jobs and receipts remember.
coordinateReprint(r) ==
    /\ req[r].pc = "fenced" /\ req[r].kind = "reprint" /\ req[r].key = <<>>
    /\ IF ActiveReprints # {} THEN \E j \in ActiveReprints : Reuse(r, j)
       ELSE LET n == Cardinality({j \in jobs \cup receipts : ReprintOf(j)}) IN
            Put(r, [req[r] EXCEPT !.key = <<"gw-reprint", n + 1>>])
    /\ UNCHANGED <<Tables, Rest>>

Coordinated(r) == req[r].kind = "reprint" => req[r].key # <<>>

\* Mutant of Matches: the content of the request is not compared.
MatchesKeyOnly(r, j) == req[r].kind = "odoo" => ~j.internal

\* The stored operation is the one asked for, and within the caller's reach.
Matches(r, j) == j.fp = req[r].fp /\ (req[r].kind = "odoo" => ~j.internal)

Replay(r, S) == \E j \in S : IF Matches(r, j) THEN Reuse(r, j) ELSE To(r, "conflict")

\* Mutant of findReceipt: a receipt does not count.
findReceiptSkipped(r) ==
    /\ req[r].pc = "fenced" /\ Coordinated(r)
    /\ To(r, "noReceipt")
    /\ UNCHANGED <<Tables, Rest>>

\* The first statement: the receipts.
findReceipt(r) ==
    /\ req[r].pc = "fenced" /\ Coordinated(r)
    /\ LET S == {j \in receipts : HasKey(j, req[r].key)} IN
       IF S # {} THEN Replay(r, S) ELSE To(r, "noReceipt")
    /\ UNCHANGED <<Tables, Rest>>

\* Mutant of OwnerAccepts: the owner found before the locks is kept.
OwnerOnceSeen(r) == printer.usable

\* The owner re-read under its locks.
OwnerAccepts(r) == printer.agent = req[r].agent /\ printer.usable

QueuedAt(a) == {j \in jobs : j.agent = a /\ j.status = "queued"}
LiveJobs    == {j \in jobs : j.status \in Live}

\* Mutant of WithinLimits: the queue may hold one job more than it may.
WithinLimitsOffByOne(r) ==
    /\ Cardinality(LiveJobs) < max_concurrent_jobs
    /\ Cardinality(QueuedAt(req[r].agent)) <= MAX_AGENT_QUEUED_JOBS

\* enforceTenantJobEntitlements, and the agent's own queue.
WithinLimits(r) == /\ Cardinality(LiveJobs) < max_concurrent_jobs
                   /\ Cardinality(QueuedAt(req[r].agent)) < MAX_AGENT_QUEUED_JOBS

reserveTenantPrintCredit == used' = [used EXCEPT ![period] = @ + 1]

NewJob(r) == [id |-> nextId, key |-> req[r].key, fp |-> req[r].fp,
              internal |-> req[r].kind # "odoo", agent |-> req[r].agent,
              status |-> "queued", period |-> period]

Created(r) == /\ jobs' = jobs \cup {NewJob(r)} /\ nextId' = nextId + 1
              /\ Put(r, [req[r] EXCEPT !.pc = "done", !.id = nextId])
              /\ UNCHANGED receipts

Admissible(r) == OwnerAccepts(r) /\ WithinLimits(r) /\ used[period] < max_prints_per_period

\* Mutant of admit: the credit is taken before the job is looked up, so that a
\* replay pays again.
admitChargingReplays(r) ==
    /\ req[r].pc = "noReceipt"
    /\ LET S == {j \in jobs : HasKey(j, req[r].key)} IN
       IF S # {} THEN Replay(r, S) /\ UNCHANGED Tables /\ reserveTenantPrintCredit
       ELSE IF Admissible(r) THEN Created(r) /\ reserveTenantPrintCredit
       ELSE Refuse(r) /\ UNCHANGED <<Tables, used>>
    /\ UNCHANGED <<period, tenant, apiKey, manager, printer>>

\* Mutant of admit: a replay is given an identifier of its own.
admitUnbounded(r) ==
    /\ req[r].pc = "noReceipt"
    /\ jobs' = jobs \cup {[NewJob(r) EXCEPT !.id = nextId - 1]}
    /\ To(r, "done")
    /\ UNCHANGED <<receipts, nextId, Rest>>

\* The second statement, the jobs; then the checks, the credit and the insert.
\* A refusal rolls the credit back.
admit(r) ==
    /\ req[r].pc = "noReceipt"
    /\ LET S == {j \in jobs : HasKey(j, req[r].key)} IN
       IF S # {} THEN Replay(r, S) /\ UNCHANGED <<Tables, used>>
       ELSE IF Admissible(r) THEN Created(r) /\ reserveTenantPrintCredit
       ELSE Refuse(r) /\ UNCHANGED <<Tables, used>>
    /\ UNCHANGED <<period, tenant, apiKey, manager, printer>>

\* The printer or its agent is gone: only a receipt may answer.
recoverReceiptForMissingOwner(r) ==
    /\ req[r].pc = "recover" /\ ~Locked
    /\ LET S == {j \in receipts : HasKey(j, req[r].key)} IN
       IF tenant # "active" \/ apiKey # "live" \/ S = {} THEN Refuse(r) ELSE Replay(r, S)
    /\ UNCHANGED <<Tables, Rest>>

-----------------------------------------------------------------------------
(* The reply to a replay, and GET by idempotency key                       *)

Visible(S, r) == {j \in S : ~j.internal /\ (IF req[r].kind = "get" THEN HasKey(j, req[r].key)
                                            ELSE j.id = req[r].id)}

GET(r, k) ==
    /\ req[r].pc = "idle" /\ "get" \in Kinds /\ apiKey # "revoked"
    /\ Put(r, [req[r] EXCEPT !.kind = "get", !.key = k, !.pc = "reused",
                   !.was = \E j \in jobs \cup receipts : HasKey(j, k) /\ ~j.internal])
    /\ UNCHANGED <<Tables, Rest>>

\* Mutant of ReadOrder: the receipts are read first.
ReceiptsFirst == <<receipts, jobs>>

\* Retention moves a row from the first table to the second.
ReadOrder == <<jobs, receipts>>

readJob(r) ==
    /\ req[r].pc = "reused"
    /\ To(r, IF Visible(ReadOrder[1], r) # {} THEN "done" ELSE "readReceipt")
    /\ UNCHANGED <<Tables, Rest>>

readReceipt(r) ==
    /\ req[r].pc = "readReceipt"
    /\ To(r, IF Visible(ReadOrder[2], r) # {} THEN "done" ELSE "missing")
    /\ UNCHANGED <<Tables, Rest>>

-----------------------------------------------------------------------------
(* The rest of the Gateway                                                 *)

Restatus(j, s) == jobs' = (jobs \ {j}) \cup {[j EXCEPT !.status = s]}

claim(j) == /\ j.status = "queued" /\ Restatus(j, "claimed")
            /\ UNCHANGED <<receipts, nextId, Rest, req>>

finish(j) == /\ j.status \in Live /\ Restatus(j, "failed")
             /\ UNCHANGED <<receipts, nextId, Rest, req>>

\* A receipt keeps the identity, the key and the fingerprint. A second receipt
\* of a key is dropped by the unique index.
Materialized(j) == IF \E c \in receipts : HasKey(c, j.key) THEN receipts ELSE receipts \cup {j}

\* The automatic retention holds a lock of its own, not the tenant's.
cleanupTerminalPrintJob(j) ==
    /\ j.status \notin Live
    /\ SweepOverlaps \/ \A r \in Requests : req[r].pc # "noReceipt"
    /\ jobs' = jobs \ {j} /\ receipts' = Materialized(j)
    /\ UNCHANGED <<nextId, Rest, req>>

\* The operator's clean-up, DELETE /api/jobs, holds the tenant's.
DELETE(j) ==
    /\ j.status \notin Live /\ ~Locked /\ tenant = "active" /\ manager
    /\ jobs' = jobs \ {j} /\ receipts' = Materialized(j)
    /\ UNCHANGED <<nextId, Rest, req>>

\* Revocation takes the tenant's lock and the key's row.
revokeKey ==
    /\ ~Locked
    /\ apiKey # "revoked" /\ apiKey' = "revoked"
    /\ UNCHANGED <<Tables, used, period, tenant, manager, printer, req>>

\* Odoo switches the integration off and on; the key's row is locked.
toggleKey ==
    /\ ~KeyHeld /\ apiKey # "revoked"
    /\ apiKey' = IF apiKey = "live" THEN "disabled" ELSE "live"
    /\ UNCHANGED <<Tables, used, period, tenant, manager, printer, req>>

\* A lifecycle change waits for the transactions that share the tenant row.
suspendTenant ==
    /\ ~Locked /\ tenant = "active" /\ tenant' = "suspended"
    /\ UNCHANGED <<Tables, used, period, apiKey, manager, printer, req>>

endSession ==
    /\ ~UserHeld /\ manager /\ manager' = FALSE
    /\ UNCHANGED <<Tables, used, period, tenant, apiKey, printer, req>>

\* Reassigned, removed, unshared or unusable: rows that no request has locked
\* before its last statement. Who owns an unusable printer does not matter.
changePrinter(a, u) ==
    /\ u \/ a = "a1"
    /\ printer' = [agent |-> a, usable |-> u]
    /\ UNCHANGED <<Tables, used, period, tenant, apiKey, manager, req>>

renew == /\ period < MaxPeriod /\ period' = period + 1
         /\ UNCHANGED <<Tables, used, tenant, apiKey, manager, printer, req>>

-----------------------------------------------------------------------------
Step(r) == \/ \E k \in IdemKeys : GET(r, <<"odoo", k>>) \/ \E fp \in Contents : POST(r, <<"odoo", k>>, fp)
           \/ reprint(r) \/ fence(r) \/ coordinateReprint(r) \/ findReceipt(r) \/ admit(r)
           \/ recoverReceiptForMissingOwner(r) \/ readJob(r) \/ readReceipt(r)

CreationNext ==
    \/ \E r \in Requests : Step(r)
    \/ \E j \in jobs : claim(j) \/ finish(j) \/ cleanupTerminalPrintJob(j) \/ DELETE(j)
    \/ revokeKey \/ toggleKey \/ suspendTenant \/ endSession \/ renew
    \/ \E a \in Agents \cup {"gone"}, u \in BOOLEAN : changePrinter(a, u)

CreationSpec == CreationInit /\ [][CreationNext]_creationVars

-----------------------------------------------------------------------------
(* Properties                                                              *)

Record == [id: Nat \ {0}, key: {<<>>} \cup ({"odoo"} \X (IdemKeys \cup {"first"}))
                                     \cup ({"gw-reprint"} \X (Nat \ {0})),
           fp: Contents \cup {"original"}, internal: BOOLEAN, agent: Agents,
           status: Live \cup {"failed"}, period: 0..MaxPeriod]

\* Every variable has its type, and an identifier names one row of the two tables.
CreationTypeOK ==
    /\ jobs \subseteq Record /\ receipts \subseteq Record
    /\ \A i, j \in jobs \cup receipts : i.id = j.id => i = j
    /\ \A j \in jobs \cup receipts : j.id < nextId
    /\ used \in [0..MaxPeriod -> 0..max_prints_per_period] /\ period \in 0..MaxPeriod
    /\ printer \in [agent: Agents \cup {"gone"}, usable: BOOLEAN]
    /\ Cardinality({r \in Requests : InTx(r)}) <= 1

\* An idempotency key names one logical job for ever: "a payload-free receipt
\* is kept so idempotency and duplicate-print protection survive"
\* (cleanupTerminalPrintJobs).
OneJobPerKey == \A i, j \in jobs \cup receipts : HasKey(i, j.key) => i.id = j.id

\* One credit for every job ever admitted, in the period that admitted it: a
\* replay or a refused request costs nothing ("retries never double-charge the
\* same logical print", insertQueuedJobAtomically).
CreditsMatchJobs ==
    \A p \in 0..MaxPeriod : used[p] = Cardinality({j \in jobs \cup receipts : j.period = p})

\* What a caller is told is its job is a job of that content and, for Odoo, one
\* that Odoo asked for (the fingerprint comparisons, and the api_key_id test).
ReplayIsSameOperation ==
    \A r \in Requests : req[r].id # NoId =>
        \A j \in jobs \cup receipts : j.id = req[r].id =>
            j.fp = req[r].fp /\ j.internal = (req[r].kind # "odoo")

\* While a reprint of the original is live, no second one is created.
OneActiveReprint == Cardinality(ActiveReprints) <= 1

\* The limits hold however the requests race for the last place.
Ceilings == /\ \A a \in Agents : Cardinality(QueuedAt(a)) <= MAX_AGENT_QUEUED_JOBS
            /\ Cardinality(LiveJobs) <= max_concurrent_jobs

\* The requests that insert a job in this step have their standing in this state.
InsertedWithStanding ==
    \A r \in Requests : (req[r].pc = "noReceipt" /\ nextId' = nextId + 1 /\ req[r].pc # req'[r].pc) =>
       /\ tenant = "active" /\ printer.agent = req[r].agent /\ printer.usable
       /\ IF req[r].kind = "odoo" THEN apiKey = "live" ELSE manager

\* No job is ever inserted for a caller, a workspace or an owner that lost its
\* standing after the request was authenticated.
AdmittedUnderAuthority == [][InsertedWithStanding]_creationVars

\* A job that existed when a caller asked for it, or that it was just given, is
\* found, although retention moves rows between the two reads: "the idempotency
\* key lookup closes the ambiguous-POST recovery gap" (GET).
AcceptedIsFound ==
    \A r \in Requests : req[r].pc = "missing" => (req[r].kind = "get" /\ ~req[r].was)

\* An idempotency key names one job, for ever and to everyone who asks.
KeyNamesOneJob == CreationTypeOK /\ OneJobPerKey /\ ReplayIsSameOperation /\ AcceptedIsFound

\* Credits, reprints and queue places are never over-committed.
LimitsHold == CreditsMatchJobs /\ OneActiveReprint /\ Ceilings

=============================================================================
