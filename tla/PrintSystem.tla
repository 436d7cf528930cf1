---------------------------- MODULE PrintSystem ----------------------------
(***************************************************************************)
(* The Gateway and the agent together. The Gateway's steps are those of    *)
(* GatewayJobs; here the agent that talks to it is the Go program: its     *)
(* ledger, one worker per job in flight, the outboxes that repeat reports  *)
(* and returns, crashes, and the recovery at startup.                      *)
(*                                                                         *)
(* A frame or poll response handed over may arrive at any time or never.   *)
(* A request the agent sends stays in sent: the Gateway may handle it at   *)
(* any time, never, or again. A worker that waits for an answer may give   *)
(* up at any time and take the call for failed.                            *)
(***************************************************************************)
EXTENDS GatewayJobs, AgentLedger

CONSTANT MaxCrashes   \* bound: crashes of the agent

ASSUME CrashAssumption == MaxCrashes \in Nat

VARIABLES
    received,  \* per job: claim tokens whose delivery arrived at the agent
    sent,      \* per job: status requests the agent has sent
    ledger,    \* per job: the local ledger row, durable
    worker,    \* per job: the goroutine that holds it in the inFlight map
    fence,     \* per job: terminalExecution, an outcome SQLite could not store
    up,        \* whether the agent process runs
    crashes,   \* number of crashes so far
    reprint,   \* agent.reprint_after_crash, the operator's setting
    paper      \* history, per job: attempts that may have produced output

netVars   == <<received, sent>>
agentVars == <<ledger, worker, fence, up, crashes, reprint, paper>>
sysVars   == <<vars, netVars, agentVars>>

WorkerStep == {"idle", "received", "reserved", "began", "prepare", "admit", "bytes",
               "closing", "returning"}
Worker == [pc: WorkerStep, token: Nat, reply: {"none", "accepted", "refused"}]

Idle == [pc |-> "idle", token |-> NoToken, reply |-> "none"]

Outcome  == [to: {"success", "failed"}, error: JobError, token: Nat]
NoResult == [to |-> "failed", error |-> "null", token |-> NoToken]

-----------------------------------------------------------------------------
(* Requests                                                                *)

Printing(t)      == [to |-> "printing", error |-> "null", reason |-> "none", token |-> t]
Closing(to, e, t) == [to |-> to, error |-> e, reason |-> "none", token |-> t]
Return(reason, t) == [to |-> "queued", error |-> "null", reason |-> reason, token |-> t]

Send(j, m) == sent' = [sent EXCEPT ![j] = @ \cup {m}]

\* The worker takes its next step and the rest of the job's state is kept.
Go(j, pc) == worker' = [worker EXCEPT ![j] = [@ EXCEPT !.pc = pc, !.reply = "none"]]
Leave(j)  == worker' = [worker EXCEPT ![j] = Idle]

SetLedger(j, e) == ledger' = [ledger EXCEPT ![j] = e]

At(j, steps) == up /\ worker[j].pc \in steps

-----------------------------------------------------------------------------
(* dispatchJob: a delivery arrives                                         *)

Arrives(j, t) == /\ up
                 /\ received' = [received EXCEPT ![j] = @ \cup {t}]

\* Shutting down, fenced by the Gateway, or the executor is full.
refuseDelivery(j, t) ==
    /\ Arrives(j, t)
    /\ Send(j, Return("pre_execution", t))
    /\ UNCHANGED agentVars

\* The process knows an outcome it could not store: it is reported again.
reReportFence(j, t) ==
    /\ Arrives(j, t) /\ fence[j] # NoResult
    /\ Send(j, Closing(fence[j].to, fence[j].error, fence[j].token))
    /\ UNCHANGED agentVars

dropDuplicate(j, t) ==
    /\ Arrives(j, t) /\ fence[j] = NoResult /\ worker[j] # Idle
    /\ UNCHANGED <<sent, agentVars>>

acceptDelivery(j, t) ==
    /\ Arrives(j, t) /\ fence[j] = NoResult /\ worker[j] = Idle
    /\ worker' = [worker EXCEPT ![j] = [Idle EXCEPT !.pc = "received", !.token = t]]
    /\ UNCHANGED <<sent, ledger, fence, up, crashes, reprint, paper>>

-----------------------------------------------------------------------------
(* processJob: up to the start of the physical attempt                     *)

MarkerOf(e) == IF WasInterrupted(e) THEN "AGENT_RESTART_DURING_PRINT"
               ELSE "UNKNOWN_PARTIAL_DELIVERY"

StoredOutcome(e, t) == IF e.status = "success" THEN Closing("success", "null", t)
                       ELSE Closing("failed", MarkerOf(e), t)

\* The ledger already holds an outcome that forbids printing.
Blocked(e) == e.status = "success" \/ (WasOutcomeUnknown(e) /\ ~reprint)

reReportStored(j) ==
    /\ At(j, {"received"}) /\ Blocked(ledger[j])
    /\ Send(j, StoredOutcome(ledger[j], worker[j].token))
    /\ Go(j, "closing")
    /\ UNCHANGED <<received, ledger, fence, up, crashes, reprint, paper>>

invalidPayload(j) ==
    /\ At(j, {"received"}) /\ ~Blocked(ledger[j])
    /\ Send(j, Closing("failed", "plain", worker[j].token))
    /\ Go(j, "closing")
    /\ UNCHANGED <<received, ledger, fence, up, crashes, reprint, paper>>

reserve(j) ==
    /\ At(j, {"received"}) /\ ~Blocked(ledger[j])
    /\ SetLedger(j, ReserveBeforeDispatch(ledger[j], worker[j].token))
    /\ Go(j, "reserved")
    /\ UNCHANGED <<netVars, fence, up, crashes, reprint, paper>>

\* The ledger cannot be read or written.
ledgerUnavailable(j) ==
    /\ At(j, {"received", "reserved"})
    /\ Send(j, Return("pre_execution", worker[j].token))
    /\ Go(j, "closing")
    /\ UNCHANGED <<received, ledger, fence, up, crashes, reprint, paper>>

\* A gate behind the printer lock turns the job away: the printer is not at
\* its desired state or not shared, or no execution slot before shutdown.
returnUnstarted(j, reason) ==
    /\ At(j, {"reserved"})
    /\ Send(j, Return(reason, worker[j].token))
    /\ SetLedger(j, AbortPrint(ledger[j]))
    /\ Go(j, "closing")
    /\ UNCHANGED <<received, fence, up, crashes, reprint, paper>>

\* The printer is not configured or cannot print this kind of document.
failUnstarted(j) ==
    /\ At(j, {"reserved"})
    /\ Send(j, Closing("failed", "plain", worker[j].token))
    /\ SetLedger(j, AbortPrint(ledger[j]))
    /\ Go(j, "closing")
    /\ UNCHANGED <<received, fence, up, crashes, reprint, paper>>

beginPrint(j) ==
    /\ At(j, {"reserved"})
    /\ LET e == ledger[j]  t == worker[j].token
       IN  IF MayBegin(e, reprint)
           THEN SetLedger(j, BeginPrint(e, t)) /\ Send(j, Printing(t)) /\ Go(j, "began")
           ELSE /\ UNCHANGED ledger
                /\ IF e.status = "printing" /\ e.token = t
                   THEN Leave(j) /\ UNCHANGED sent
                   ELSE Send(j, StoredOutcome(e, t)) /\ Go(j, "closing")
    /\ UNCHANGED <<received, fence, up, crashes, reprint, paper>>

\* Shutdown while waiting, or the printing report was refused or not answered:
\* nothing was sent to the printer, and nothing will be.
abortAttempt(j) ==
    /\ At(j, {"reserved", "began", "prepare"})
    /\ worker[j].token \notin paper[j]
    /\ SetLedger(j, AbortPrint(ledger[j]))
    /\ Leave(j)
    /\ UNCHANGED <<netVars, fence, up, crashes, reprint, paper>>

-----------------------------------------------------------------------------
(* processJob: the physical attempt                                        *)

printingAcknowledged(j) ==
    /\ At(j, {"began"}) /\ worker[j].reply = "accepted"
    /\ Go(j, "prepare")
    /\ UNCHANGED <<netVars, ledger, fence, up, crashes, reprint, paper>>

\* The document is prepared; admission is asked for again, directly before the
\* transport sends its first byte.
runDispatchAdmission(j) ==
    /\ At(j, {"prepare"})
    /\ Send(j, Printing(worker[j].token))
    /\ Go(j, "admit")
    /\ UNCHANGED <<received, ledger, fence, up, crashes, reprint, paper>>

firstByte(j) ==
    /\ At(j, {"admit"}) /\ worker[j].reply = "accepted"
    /\ paper' = [paper EXCEPT ![j] = @ \cup {worker[j].token}]
    /\ Go(j, "bytes")
    /\ UNCHANGED <<netVars, ledger, fence, up, crashes, reprint>>

\* The cash drawer was opened; the document itself is still to be sent.
drawerKicked(j) ==
    /\ At(j, {"bytes"})
    /\ Go(j, "prepare")
    /\ UNCHANGED <<netVars, ledger, fence, up, crashes, reprint, paper>>

\* Store the outcome, or keep it in memory if SQLite cannot (the drawer's
\* failure path does not even do that), and report it.
Finish(j, to, error) ==
    /\ Send(j, Closing(to, error, worker[j].token))
    /\ \/ SetLedger(j, UpdateTerminal(ledger[j], to, error)) /\ UNCHANGED fence
       \/ /\ UNCHANGED ledger
          /\ fence' = [fence EXCEPT ![j] = [to |-> to, error |-> error, token |-> worker[j].token]]
       \/ UNCHANGED <<ledger, fence>>
    /\ Go(j, "closing")
    /\ UNCHANGED <<received, up, crashes, reprint, paper>>

\* Mutant of printSucceeded: a job that was not admitted counts as printed.
printSucceededUnsent(j) == At(j, {"admit", "bytes"}) /\ Finish(j, "success", "null")

printSucceeded(j) == At(j, {"bytes"}) /\ Finish(j, "success", "null")

\* Mutant of printFailed: a cancelled transport counts as not printed.
printFailedPlain(j) == At(j, {"prepare", "admit", "bytes"}) /\ Finish(j, "failed", "plain")

\* Refused admission, an unreachable printer or a broken transport: ambiguous
\* as soon as a byte or the drawer's pulse may have gone out.
printFailed(j) ==
    /\ At(j, {"prepare", "admit", "bytes"})
    /\ Finish(j, "failed", IF worker[j].token \in paper[j]
                           THEN "UNKNOWN_PARTIAL_DELIVERY" ELSE "plain")

\* Mutant of panic: the attempt is taken back as if nothing had been sent.
panicTakenBack(j, unreadable) ==
    /\ At(j, {"received", "reserved", "began", "prepare", "admit", "bytes"})
    /\ Send(j, Return("agent_reprint_after_crash", worker[j].token))
    /\ SetLedger(j, AbortPrint(ledger[j]))
    /\ Go(j, "closing")
    /\ UNCHANGED <<received, fence, up, crashes, reprint, paper>>

\* A panic in the worker is classified by what the ledger says.
panic(j, unreadable) ==
    /\ At(j, {"received", "reserved", "began", "prepare", "admit", "bytes"})
    /\ LET e == ledger[j]  t == worker[j].token
       IN  IF unreadable \/ e.status = "printing" \/ WasOutcomeUnknown(e)
           THEN LET m == Closing("failed", "UNKNOWN_PARTIAL_DELIVERY", t)
                IN  /\ Send(j, m)
                    /\ \/ /\ SetLedger(j, IF e.status = "none" THEN e
                                           ELSE UpdateTerminal(e, m.to, m.error))
                          /\ UNCHANGED fence
                       \/ /\ fence' = [fence EXCEPT ![j] = [to |-> m.to, error |-> m.error, token |-> t]]
                          /\ UNCHANGED ledger
           ELSE /\ Send(j, IF e.status = "success" THEN Closing("success", "null", t)
                           ELSE Closing("failed", "plain", t))
                /\ UNCHANGED <<ledger, fence>>
    /\ Go(j, "closing")
    /\ UNCHANGED <<received, up, crashes, reprint, paper>>

\* The last report returned or timed out; forgetJob.
forgetJob(j) ==
    /\ At(j, {"closing"})
    /\ Leave(j)
    /\ UNCHANGED <<netVars, ledger, fence, up, crashes, reprint, paper>>

-----------------------------------------------------------------------------
(* Outboxes, retention, crash and recovery                                 *)

reportPendingTerminal(j) ==
    /\ up /\ PendingTerminalReport(ledger[j])
    /\ Send(j, Closing(ledger[j].status, ledger[j].error, ledger[j].token))
    /\ UNCHANGED <<received, agentVars>>

\* Holds the job in the inFlight map while it waits for the answer.
reportPendingReturn(j, reason) ==
    /\ At(j, {"idle"}) /\ PendingPreDispatchReturn(ledger[j])
    /\ Send(j, Return(reason, ledger[j].token))
    /\ worker' = [worker EXCEPT ![j] = [Idle EXCEPT !.pc = "returning", !.token = ledger[j].token]]
    /\ UNCHANGED <<received, ledger, fence, up, crashes, reprint, paper>>

\* Accepted, or refused because the claim is no longer current.
returnAnswered(j) ==
    /\ At(j, {"returning"}) /\ worker[j].reply # "none"
    /\ SetLedger(j, ClearPreDispatchClaim(ledger[j], worker[j].token))
    /\ Leave(j)
    /\ UNCHANGED <<netVars, fence, up, crashes, reprint, paper>>

returnUnanswered(j) ==
    /\ At(j, {"returning"})
    /\ Leave(j)
    /\ UNCHANGED <<netVars, ledger, fence, up, crashes, reprint, paper>>

cleanupLocal(j) ==
    /\ up /\ Deletable(ledger[j])
    /\ SetLedger(j, NoEntry)
    /\ UNCHANGED <<netVars, worker, fence, up, crashes, reprint, paper>>

crash ==
    /\ up /\ crashes < MaxCrashes
    /\ up' = FALSE /\ crashes' = crashes + 1
    /\ worker' = [j \in Jobs |-> Idle]
    /\ fence' = [j \in Jobs |-> NoResult]
    /\ UNCHANGED <<netVars, ledger, reprint, paper>>

\* Mutant of RecoveryReport: requeues without asking for the operator's choice.
RecoveryAlwaysRequeues(t) == Return("agent_reprint_after_crash", t)

\* What recovery tells the Gateway about a job found printing.
RecoveryReport(t) ==
    IF reprint THEN Return("agent_reprint_after_crash", t)
    ELSE Closing("failed", "AGENT_RESTART_DURING_PRINT", t)

\* Mutant of recoverInterruptedJobs: an interrupted job starts over.
recoverByStartingOver ==
    /\ ~up /\ up' = TRUE
    /\ ledger' = [j \in Jobs |-> AbortPrint(ledger[j])]
    /\ sent' = [j \in Jobs |-> IF ledger[j].status = "printing"
                               THEN sent[j] \cup {RecoveryAlwaysRequeues(ledger[j].token)}
                               ELSE sent[j]]
    /\ UNCHANGED <<received, worker, fence, crashes, reprint, paper>>

recoverInterruptedJobs ==
    /\ ~up /\ up' = TRUE
    /\ ledger' = [j \in Jobs |-> MarkInterrupted(ledger[j])]
    /\ sent' = [j \in Jobs |-> IF ledger[j].status = "printing"
                               THEN sent[j] \cup {RecoveryReport(ledger[j].token)} ELSE sent[j]]
    /\ UNCHANGED <<received, worker, fence, crashes, reprint, paper>>

-----------------------------------------------------------------------------
(* The Gateway's side of a request                                         *)

Awaits(w, to, t) == /\ w.token = t
                    /\ \/ w.pc \in {"began", "admit"} /\ to = "printing"
                       \/ w.pc = "returning" /\ to = "queued"

Answer(j, to, t, reply) ==
    worker' = IF Awaits(worker[j], to, t) THEN [worker EXCEPT ![j].reply = reply] ELSE worker

gatewayReads(j) ==
    /\ \E m \in sent[j] : patchRead(j, m, m.token)
    /\ UNCHANGED <<netVars, agentVars>>

\* Not authenticated, job unknown, stale claim or illegal transition.
gatewayRefuses(j) ==
    /\ \E m \in sent[j] :
         /\ Awaits(worker[j], m.to, m.token) /\ worker[j].reply = "none"
         /\ \/ admission = "disabled" \/ ~Stored(j)
            \/ PatchBranch(row[j], m) = "refuse"
         /\ Answer(j, m.to, m.token, "refused")
    /\ UNCHANGED <<vars, netVars, ledger, fence, up, crashes, reprint, paper>>

\* The agent drops the token of what the Gateway acknowledged. Returns other
\* than that of a printer no longer shared leave it to the outbox.
Acknowledged(e, p) ==
    IF p.to = "printing" \/ p.reason = "pre_execution" THEN e
    ELSE IF p.reason = "printer_not_shared" THEN ClearPreDispatchClaim(e, p.token)
    ELSE ClearClaimToken(e, p.token)

\* The UPDATE, and its answer, which may be lost.
gatewayWrites(p) ==
    LET j == p.job
        accepted == /\ Stored(j)
                    /\ IF p.branch = "replay"
                       THEN row[j].status = p.from /\ row[j].closed = p.token
                       ELSE PatchMatches(row[j], p, admission = "admitted")
    IN  /\ patchWrite(p)
        /\ Answer(j, p.to, p.token, IF accepted THEN "accepted" ELSE "refused")
        /\ \/ UNCHANGED ledger
           \/ up /\ accepted /\ SetLedger(j, Acknowledged(ledger[j], p))
        /\ UNCHANGED <<netVars, fence, up, crashes, reprint, paper>>

\* The job is only a receipt: a report that repeats its outcome is acknowledged.
receiptAcknowledges(j) ==
    /\ stage[j] = "archived" /\ up
    /\ \E m \in sent[j] :
         /\ m.token # NoToken /\ m.to = row[j].status /\ m.token = row[j].closed
         /\ SetLedger(j, ClearClaimToken(ledger[j], m.token))
    /\ UNCHANGED <<vars, netVars, worker, fence, up, crashes, reprint, paper>>

-----------------------------------------------------------------------------
SysInit ==
    /\ Init /\ stage = [j \in Jobs |-> "absent"]
    /\ received = [j \in Jobs |-> {}] /\ sent = [j \in Jobs |-> {}]
    /\ ledger = [j \in Jobs |-> NoEntry]
    /\ worker = [j \in Jobs |-> Idle] /\ fence = [j \in Jobs |-> NoResult]
    /\ up = TRUE /\ crashes = 0 /\ reprint \in BOOLEAN
    /\ paper = [j \in Jobs |-> {}]

AgentStep(j) ==
    \/ \E t \in handed[j] \ received[j] :
         \/ refuseDelivery(j, t) \/ reReportFence(j, t) \/ dropDuplicate(j, t)
         \/ acceptDelivery(j, t)
    \/ reReportStored(j) \/ invalidPayload(j) \/ reserve(j) \/ ledgerUnavailable(j)
    \/ \E r \in {"pre_execution", "printer_not_shared"} :
         returnUnstarted(j, r) \/ reportPendingReturn(j, r)
    \/ failUnstarted(j) \/ beginPrint(j) \/ abortAttempt(j)
    \/ printingAcknowledged(j) \/ runDispatchAdmission(j) \/ firstByte(j) \/ drawerKicked(j)
    \/ printSucceeded(j) \/ printFailed(j)
    \/ \E unreadable \in BOOLEAN : panic(j, unreadable)
    \/ forgetJob(j)
    \/ reportPendingTerminal(j) \/ returnAnswered(j) \/ returnUnanswered(j) \/ cleanupLocal(j)

\* Steps of the Gateway that involve no request of the agent, and the two whose
\* requests carry nothing but a token the agent received.
GatewayStep(j) ==
    \/ insertQueuedJob(j) \/ claimJobForDelivery(j) \/ SweepNext(j)
    \/ deleteTerminalJobs(j) \/ tickAge(j) \/ tickTtl(j) \/ heartbeatResume(j)
    \/ \E t \in received[j] : jobAck(j, t) \/ heartbeatKeepAlive(j, t)

SysNext ==
    \/ \E j \in Jobs : AgentStep(j) /\ UNCHANGED vars
    \/ \E j \in Jobs : GatewayStep(j) /\ UNCHANGED <<netVars, agentVars>>
    \/ \E j \in Jobs : gatewayReads(j) \/ gatewayRefuses(j) \/ receiptAcknowledges(j)
    \/ \E p \in patches : gatewayWrites(p)
    \/ \E S \in SUBSET Jobs \ {{}} : pollJobs(S) /\ UNCHANGED <<netVars, agentVars>>
    \/ \E p \in pushes : PushNext(p) /\ UNCHANGED <<netVars, agentVars>>
    \/ changeAdmission /\ UNCHANGED <<netVars, agentVars>>
    \/ (crash \/ recoverInterruptedJobs) /\ UNCHANGED vars

SysSpec == SysInit /\ [][SysNext]_sysVars

-----------------------------------------------------------------------------
(* Properties                                                              *)

\* Every variable of the agent and the network holds a value of its type.
SysTypeOK ==
    /\ received \in [Jobs -> SUBSET Nat]
    /\ \A j \in Jobs : sent[j] \subseteq [to: JobStatus, error: JobError, reason: Reason, token: Nat]
    /\ ledger \in [Jobs -> LedgerRow] /\ worker \in [Jobs -> Worker]
    /\ fence \in [Jobs -> Outcome]
    /\ up \in BOOLEAN /\ crashes \in 0..MaxCrashes /\ reprint \in BOOLEAN
    /\ paper \in [Jobs -> SUBSET Nat]

\* A document comes out once: a second attempt reaches the printer only if the
\* operator enabled reprint_after_crash, and then at most once per crash,
\* whatever is lost, repeated or delayed (BeginPrint, processJob, PATCH).
NoDuplicatePaper ==
    \A j \in Jobs :
        Cardinality(paper[j]) <= 1 + (IF reprint THEN crashes ELSE 0)

\* What the Gateway tells a client is honest: a job that ended as not printed has
\* produced no output, unless the operator enabled reprint_after_crash, and a job is
\* a success only if its closing attempt sent the document (derivePhysicalOutcome).
HonestOutcome ==
    \A j \in Jobs :
        /\ (/\ ~reprint /\ stage[j] # "absent"
            /\ isTerminal(row[j]) /\ derivePhysicalOutcome(row[j]) = "not_printed")
           => paper[j] = {}
        /\ row[j].status = "success" => row[j].closed \in paper[j]

\* An attempt given back as not started never reaches the printer, before or
\* after the Gateway accepts it (rejectJobExact, reportPendingPreDispatchReturns).
ReturnedNeverPrints ==
    ~reprint => \A j \in Jobs : paper[j] \cap returned[j] = {}

=============================================================================
