--------------------------- MODULE MCSubmission ---------------------------
(* The way of a print job into the Gateway and to its first claim, for     *)
(* TLC: Odoo's outbox (OdooOutbox, three instances), the idempotent        *)
(* creation of jobs (JobCreation), and two jobs that compete for one       *)
(* executor slot (GatewayJobs). One component takes steps in a behaviour,  *)
(* in the instance its scenario names; they share no variable, so what     *)
(* holds of each alone holds of them together.                             *)
EXTENDS GatewayJobs, JobCreation, OdooOutbox, TLC

CONSTANTS n1, n2

VARIABLE scenario  \* the component that takes steps, and its instance

Retry == INSTANCE OdooOutbox WITH
    MaxRows <- 1, Workers <- {n1, n2}, Operators <- {}, MaxAttempts <- 2,
    MAX_BILLING_PARK_ATTEMPTS <- 2, MaxClaims <- 3,
    Refusals <- {"retry", "rejected", "offline"}, Faults <- {}
ReprintRows == INSTANCE OdooOutbox WITH
    MaxRows <- 3, Workers <- {n1}, Operators <- {n1, n2}, MaxAttempts <- 1,
    MAX_BILLING_PARK_ATTEMPTS <- 1, MaxClaims <- 1, Refusals <- {"rejected"},
    Faults <- {}

ASSUME OutboxAssumption /\ Retry!OutboxAssumption /\ ReprintRows!OutboxAssumption
ASSUME CreationAssumption

allVars == <<scenario, vars, outboxVars, creationVars>>

\* A component that takes no steps stays as it is at the start.
GatewayJobsAtRest == Init /\ \A j \in Jobs : stage[j] = "absent"

InitAll ==
    \/ scenario = "slots" /\ Init /\ OutboxInit /\ CreationInit
    \/ scenario \in {"outbox", "creation"} /\ GatewayJobsAtRest /\ OutboxInit /\ CreationInit
    \/ scenario = "retry" /\ Retry!OutboxInit /\ GatewayJobsAtRest /\ CreationInit
    \/ scenario = "reprintRows" /\ ReprintRows!OutboxInit /\ GatewayJobsAtRest /\ CreationInit

\* The component is the one that takes the step, in scenario s.
GatewayJobsIn(s) == scenario = s /\ UNCHANGED <<scenario, outboxVars, creationVars>>
OdooOutboxIn(s) == scenario = s /\ UNCHANGED <<scenario, vars, creationVars>>
JobCreationIn(s) == scenario = s /\ UNCHANGED <<scenario, vars, outboxVars>>

NextAll ==
    \/ GatewayJobsIn("slots") /\ Next
    \/ OdooOutboxIn("outbox") /\ OutboxNext
    \/ OdooOutboxIn("retry") /\ Retry!OutboxNext
    \/ OdooOutboxIn("reprintRows") /\ ReprintRows!OutboxNext
    \/ JobCreationIn("creation") /\ CreationNext

MaxTokens == 2   \* bound: claims of the two competing jobs together
MaxPushes == 1   \* bound: pushes to the agent under way

\* Bound of the two competing jobs: one that ended is not followed further (no
\* statement makes it live again, which the run of GatewayJobs checks), and a live
\* one up to the first threshold of each clock. The agent stays admitted: a
\* lifecycle that holds it back only removes claims.
LiveJobsOnly ==
    scenario = "slots" =>
        /\ admission = "admitted" /\ Cardinality(pushes) <= MaxPushes
        /\ \A j \in Jobs :
              /\ row[j].age <= StaleClaim /\ row[j].ttl <= Grace
              /\ isTerminal(row[j]) => row[j].age = Fresh /\ stage[j] = "stored"
        /\ minted[n1] + minted[n2] <= MaxTokens

SpecAll == InitAll /\ [][NextAll]_allVars

\* A row an operator may retry under a new key has no job at the Gateway and
\* no request that could still create one, and no derived key is ahead of its
\* original's counter (action_retry, action_force_reprint).
NoDoubleByRetry ==
    /\ scenario = "outbox" => OutboxTypeOK
    /\ scenario = "retry" => Retry!RetryIsSafe
    /\ scenario = "reprintRows" => ReprintRows!RetryIsSafe /\ ReprintRows!CounterCoversReprints

Symmetry == Permutations({n1, n2})

=============================================================================
