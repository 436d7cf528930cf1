---------------------------- MODULE AgentLedger ----------------------------
(***************************************************************************)
(* One row of the agent's local SQLite ledger, and the statements of       *)
(* agent/internal/queue as operators from rows to rows. The ledger is the  *)
(* agent's evidence of what may have reached a printer; it survives a      *)
(* crash of the process, and its claim tokens are the outbox of reports    *)
(* the Gateway has not acknowledged.                                       *)
(***************************************************************************)
EXTENDS JobRow

LedgerStatus == {"none", "queued", "printing", "success", "failed"}

\* "none" is the absence of a row.
LedgerRow == [status: LedgerStatus, token: Nat, error: JobError]

NoEntry == [status |-> "none", token |-> NoToken, error |-> "null"]

Settled(e) == e.status \in {"success", "failed"}

WasOutcomeUnknown(e) == e.status = "failed" /\ e.error \in UnknownMarker

WasInterrupted(e) == e.error = "AGENT_RESTART_DURING_PRINT"

-----------------------------------------------------------------------------
\* A claim is recorded while it waits for hardware. A failure that provably
\* printed nothing is reopened; success, live and unknown rows are kept.
ReserveBeforeDispatch(e, t) ==
    CASE e.status = "none" \/ (e.status = "failed" /\ ~WasOutcomeUnknown(e)) ->
           [status |-> "queued", token |-> t, error |-> "null"]
      [] e.status = "queued" -> [e EXCEPT !.token = t]
      [] OTHER -> e

\* The only states from which a physical attempt may start.
MayBegin(e, allowUnknownReprint) ==
    \/ e.status \in {"none", "queued"}
    \/ e.status = "failed" /\ (WasOutcomeUnknown(e) => allowUnknownReprint)

BeginPrint(e, t) == [e EXCEPT !.status = "printing", !.token = t]

UpdateTerminal(e, status, error) == [e EXCEPT !.status = status, !.error = error]

\* Nothing was sent: the attempt is over and its token is dead.
AbortPrint(e) ==
    IF e.status = "printing"
    THEN [status |-> "queued", token |-> NoToken, error |-> "plain"]
    ELSE e

\* The Gateway answered a return of claim t.
ClearPreDispatchClaim(e, t) ==
    IF e.status = "queued" /\ e.token = t THEN [e EXCEPT !.token = NoToken] ELSE e

\* The Gateway acknowledged the outcome of attempt t.
ClearClaimToken(e, t) ==
    IF Settled(e) /\ e.token = t THEN [e EXCEPT !.token = NoToken] ELSE e

\* Mutant of MarkInterrupted: a status the rest of the ledger does not know.
MarkInterruptedOwnStatus(e) ==
    IF e.status = "printing"
    THEN UpdateTerminal(e, "interrupted", "AGENT_RESTART_DURING_PRINT") ELSE e

\* A row found printing at startup: the process died with the document at the
\* printer.
MarkInterrupted(e) ==
    IF e.status = "printing"
    THEN UpdateTerminal(e, "failed", "AGENT_RESTART_DURING_PRINT") ELSE e

PendingTerminalReport(e)    == Settled(e) /\ e.token # NoToken
PendingPreDispatchReturn(e) == e.status = "queued" /\ e.token # NoToken

\* Retention and the operator's purge delete acknowledged outcomes only.
Deletable(e) == Settled(e) /\ e.token = NoToken

=============================================================================
