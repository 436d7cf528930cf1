---------------------------- MODULE AgentOutbox ----------------------------
(***************************************************************************)
(* The agent's two durable outboxes, and the periodic scan that empties    *)
(* them: first the outcomes the Gateway has not acknowledged, then the     *)
(* claims that were received and never started. Both are read from the     *)
(* ledger oldest first and in bounded batches, while workers that wait for *)
(* a printer keep their claims at the front of the second list.            *)
(***************************************************************************)
EXTENDS Naturals, Sequences, SequencesExt, FiniteSets

CONSTANTS Claims,
          maxPendingJobs,   \* jobs the executor holds at once
          handBackBatch,    \* returns attempted in one scan
          reportLimit       \* outcomes read in one scan

OutboxAssumption == /\ maxPendingJobs \in Nat \ {0}
                           /\ handBackBatch \in Nat \ {0}
                           /\ reportLimit \in Nat \ {0}

VARIABLES
    fresh,    \* claims not delivered yet
    busy,     \* claims of the inFlight map
    returns,  \* ledger rows queued with a token, oldest first
    reports,  \* ledger rows success or failed with a token, oldest first
    closed,   \* claims whose job the Gateway has closed without them
    scan      \* the running scan: what it read and what it may still try

vars == <<fresh, busy, returns, reports, closed, scan>>

NoScan == [phase |-> "off", todo |-> <<>>, left |-> 0]

Init == /\ fresh = Claims /\ busy = {} /\ closed = {}
        /\ returns = <<>> /\ reports = <<>>
        /\ scan = NoScan

Without(s, c) == SelectSeq(s, LAMBDA d : d # c)

Prefix(s, n) == SubSeq(s, 1, IF Len(s) < n THEN Len(s) ELSE n)

-----------------------------------------------------------------------------
(* Workers                                                                 *)

\* Mutant of deliver: the pending slots are not counted.
deliverUncounted(c) ==
    /\ c \in fresh
    /\ fresh' = fresh \ {c} /\ busy' = busy \cup {c}
    /\ returns' = Append(returns, c)
    /\ UNCHANGED <<reports, closed, scan>>

\* Admitted, and reserved in the ledger while it waits for its printer.
deliver(c) ==
    /\ c \in fresh /\ Cardinality(busy) < maxPendingJobs
    /\ fresh' = fresh \ {c} /\ busy' = busy \cup {c}
    /\ returns' = Append(returns, c)
    /\ UNCHANGED <<reports, closed, scan>>

\* The wait was cancelled, or a gate refused the job and its return was lost.
abandon(c) ==
    /\ c \in busy /\ Contains(returns, c)
    /\ busy' = busy \ {c}
    /\ UNCHANGED <<fresh, returns, reports, closed, scan>>

\* Printed or failed: the outcome is stored, and its first report got lost.
finish(c) ==
    /\ c \in busy /\ Contains(returns, c)
    /\ busy' = busy \ {c}
    /\ returns' = Without(returns, c) /\ reports' = Append(reports, c)
    /\ UNCHANGED <<fresh, closed, scan>>

\* The sweeper fails the job meanwhile: a report of its failure, or of its
\* success after the late-success window, is refused from now on.
closeAtGateway(c) ==
    /\ c \in Claims \ (fresh \cup closed)
    /\ closed' = closed \cup {c}
    /\ UNCHANGED <<fresh, busy, returns, reports, scan>>

-----------------------------------------------------------------------------
(* The scan; one runs at a time                                            *)

reportPendingTerminalStatuses ==
    /\ scan = NoScan
    /\ scan' = [phase |-> "reports", todo |-> Prefix(reports, reportLimit), left |-> 0]
    /\ UNCHANGED <<fresh, busy, returns, reports, closed>>

Skip == scan' = [scan EXCEPT !.todo = Tail(@)]

\* The Gateway acknowledges an outcome; refused or unanswered ones stay.
reportAccepted(c) ==
    /\ scan.phase = "reports" /\ scan.todo # <<>> /\ c = Head(scan.todo) /\ c \notin closed
    /\ reports' = Without(reports, c)
    /\ Skip
    /\ UNCHANGED <<fresh, busy, returns, closed>>

reportFailed ==
    /\ scan.phase = "reports" /\ scan.todo # <<>>
    /\ Skip
    /\ UNCHANGED <<fresh, busy, returns, reports, closed>>

\* Mutant of reportPendingPreDispatchReturns: reads no more than one batch.
returnsOneBatch ==
    /\ scan.phase = "reports" /\ scan.todo = <<>>
    /\ scan' = [phase |-> "returns", todo |-> Prefix(returns, handBackBatch),
                left |-> handBackBatch]
    /\ UNCHANGED <<fresh, busy, returns, reports, closed>>

\* Reads enough to get past every live waiter.
reportPendingPreDispatchReturns ==
    /\ scan.phase = "reports" /\ scan.todo = <<>>
    /\ scan' = [phase |-> "returns", todo |-> Prefix(returns, maxPendingJobs + handBackBatch),
                left |-> handBackBatch]
    /\ UNCHANGED <<fresh, busy, returns, reports, closed>>

\* The scan comes to c and reserves it in the inFlight map, unless it is there.
Reaches(c) == /\ scan.phase = "returns" /\ scan.left > 0
              /\ scan.todo # <<>> /\ c = Head(scan.todo)

Attempted == scan' = [scan EXCEPT !.todo = Tail(@), !.left = @ - 1]

skipBusy(c) ==
    /\ Reaches(c) /\ c \in busy
    /\ Skip
    /\ UNCHANGED <<fresh, busy, returns, reports, closed>>

\* The ledger no longer holds the token the scan read.
skipMoved(c) ==
    /\ Reaches(c) /\ c \notin busy /\ ~Contains(returns, c)
    /\ Attempted
    /\ UNCHANGED <<fresh, busy, returns, reports, closed>>

Idle(c) == Reaches(c) /\ c \notin busy /\ Contains(returns, c)

\* Accepted, or refused because the claim is stale: the token is cleared.
returnAnswered(c) ==
    /\ Idle(c)
    /\ returns' = Without(returns, c)
    /\ Attempted
    /\ UNCHANGED <<fresh, busy, reports, closed>>

\* Without an answer the scan goes on, or its four seconds are over.
returnUnanswered(c) ==
    /\ Idle(c)
    /\ Attempted \/ scan' = NoScan
    /\ UNCHANGED <<fresh, busy, returns, reports, closed>>

endScan ==
    /\ scan.phase = "returns" /\ (scan.todo = <<>> \/ scan.left = 0)
    /\ scan' = NoScan
    /\ UNCHANGED <<fresh, busy, returns, reports, closed>>

-----------------------------------------------------------------------------
Scan == \/ reportPendingTerminalStatuses \/ reportFailed
        \/ reportPendingPreDispatchReturns \/ endScan
        \/ \E c \in Claims : \/ reportAccepted(c) \/ skipBusy(c) \/ skipMoved(c)
                             \/ returnAnswered(c) \/ returnUnanswered(c)

Next == \/ Scan
        \/ \E c \in Claims : deliver(c) \/ abandon(c) \/ finish(c) \/ closeAtGateway(c)

Spec == Init /\ [][Next]_vars

-----------------------------------------------------------------------------
(* Properties                                                              *)

Members(s) == {s[i] : i \in DOMAIN s}

\* Every variable has its type, a claim is in one place of the ledger at most,
\* and the executor holds no more jobs than it admits.
TypeOK == /\ fresh \subseteq Claims /\ busy \subseteq Claims /\ closed \subseteq Claims
          /\ returns \in Seq(Claims) /\ reports \in Seq(Claims)
          /\ IsInjective(returns) /\ IsInjective(reports)
          /\ fresh \cap (Members(returns) \cup Members(reports)) = {}
          /\ Members(returns) \cap Members(reports) = {}
          /\ busy \subseteq Members(returns) /\ Cardinality(busy) <= maxPendingJobs
          /\ scan \in [phase: {"off", "reports", "returns"}, todo: Seq(Claims), left: Nat]

\* A claim its worker abandoned is given back in the end, however long the
\* workers ahead of it wait for their printers (the comment in
\* reportPendingPreDispatchReturns on starving orphaned claims).
AbandonedClaimsReturn ==
    \A c \in Claims : (Contains(returns, c) /\ c \notin busy) ~> ~Contains(returns, c)

\* An outcome the Gateway would acknowledge is acknowledged in the end:
\* "replays durable local terminal outcomes until the Gateway acknowledges
\* one" (reportPendingTerminalStatuses).
OutcomesAreReported ==
    \A c \in Claims :
        (Contains(reports, c) /\ c \notin closed) ~> (~Contains(reports, c) \/ c \in closed)

=============================================================================
