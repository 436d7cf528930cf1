----------------------------- MODULE MCTenancy -----------------------------
(* The Odoo integration of a workspace and its subscription, for TLC. One  *)
(* component takes steps in a behaviour, in the instance its scenario      *)
(* names; the components share no variable, so what holds of each alone    *)
(* holds of them together.                                                 *)
EXTENDS Integers, TLC

CONSTANTS i1, i2, p1, p2, None

VARIABLES
    scenario,  \* the component that takes steps, and its instance
    cfg, gw, susp, worker, late, known, writes, lost,  \* OdooIntegration
    row, req, sessions, subs, performed, events, processed, now, last, settled, stops  \* Billing

Activation == INSTANCE OdooIntegration WITH
    Ids <- {i1, i2}, Workers <- {p1, p2}, SameUrl <- FALSE, Faults <- {"crash"},
    MaxRev <- 3, MaxWrites <- 2, MaxLost <- 1, Ops <- {"toggle", "move", "retry"}
Deletion == INSTANCE OdooIntegration WITH
    Ids <- {i1, i2}, Workers <- {p1}, SameUrl <- FALSE, Faults <- {"crash"},
    MaxRev <- 4, MaxWrites <- 2, MaxLost <- 1,
    Ops <- {"toggle", "move", "retry", "unlink"}
KeyRotation == INSTANCE OdooIntegration WITH
    Ids <- {i1, i2}, Workers <- {p1, p2}, SameUrl <- TRUE,
    Faults <- {"rotate", "revoke"}, MaxRev <- 2, MaxWrites <- 1, MaxLost <- 0,
    Ops <- {"toggle", "move", "cron", "reset"}
ConnectionTest == INSTANCE OdooIntegration WITH
    Ids <- {i1, i2}, Workers <- {p1, p2}, SameUrl <- TRUE, Faults <- {"suspend"},
    MaxRev <- 2, MaxWrites <- 2, MaxLost <- 0,
    Ops <- {"toggle", "remove", "test", "unlink"}

Checkout == INSTANCE Billing WITH
    Procs <- {p1, p2}, Plans <- {1, 2}, Subscribed <- FALSE, PromptHooks <- TRUE,
    Replay <- 1, SessionLife <- 1, Reconcile <- 2, MaxNow <- 2, MaxKey <- 2,
    MaxEvents <- 2, MaxStops <- 1, Ops <- {"checkout", "pay", "hook"}
Resubscribe == INSTANCE Billing WITH
    Procs <- {p1}, Plans <- {1}, Subscribed <- FALSE, PromptHooks <- TRUE,
    Replay <- 1, SessionLife <- 1, Reconcile <- 2, MaxNow <- 0, MaxKey <- 2,
    MaxEvents <- 4, MaxStops <- 0, Ops <- {"checkout", "pay", "hook", "change"}
Webhooks == INSTANCE Billing WITH
    Procs <- {p1, p2}, Plans <- {1}, Subscribed <- TRUE, PromptHooks <- TRUE,
    Replay <- 1, SessionLife <- 1, Reconcile <- 2, MaxNow <- 0, MaxKey <- 1,
    MaxEvents <- 3, MaxStops <- 0, Ops <- {"hook", "change"}
Operations == INSTANCE Billing WITH
    Procs <- {p1, p2}, Plans <- {1}, Subscribed <- TRUE, PromptHooks <- TRUE,
    Replay <- 1, SessionLife <- 1, Reconcile <- 2, MaxNow <- 0, MaxKey <- 3,
    MaxEvents <- 3, MaxStops <- 1, Ops <- {"cancel", "resume", "hook"}
Pausing == INSTANCE Billing WITH
    Procs <- {p1, p2}, Plans <- {1}, Subscribed <- TRUE, PromptHooks <- TRUE,
    Replay <- 1, SessionLife <- 1, Reconcile <- 2, MaxNow <- 0, MaxKey <- 2,
    MaxEvents <- 3, MaxStops <- 1, Ops <- {"resume", "cancel", "change"}
Reconciling == INSTANCE Billing WITH
    Procs <- {p1, p2}, Plans <- {1}, Subscribed <- FALSE, PromptHooks <- FALSE,
    Replay <- 1, SessionLife <- 1, Reconcile <- 2, MaxNow <- 2, MaxKey <- 1,
    MaxEvents <- 3, MaxStops <- 1, Ops <- {"checkout", "pay", "hook"}
Renewal == INSTANCE Billing WITH
    Procs <- {p1, p2}, Plans <- {1}, Subscribed <- TRUE, PromptHooks <- TRUE,
    Replay <- 1, SessionLife <- 1, Reconcile <- 2, MaxNow <- 0, MaxKey <- 1,
    MaxEvents <- 2, MaxStops <- 0, Ops <- {"checkout", "hook", "change", "lapse"}

ASSUME Checkout!BillingAssumption /\ Resubscribe!BillingAssumption
ASSUME Webhooks!BillingAssumption /\ Operations!BillingAssumption
ASSUME Pausing!BillingAssumption /\ Reconciling!BillingAssumption /\ Renewal!BillingAssumption

odooIntegrationVars == <<cfg, gw, susp, worker, late, known, writes, lost>>
billingVars == <<row, req, sessions, subs, performed, events, processed, now, last, settled, stops>>
vars == <<scenario, odooIntegrationVars, billingVars>>

\* A component that takes no steps stays as it is at the start.
OdooIntegrationAtRest == Activation!Init /\ cfg.id = i1 /\ cfg.en /\ \A i \in {i1, i2} : gw[i].en
BillingAtRest == Checkout!Init

Init ==
    \/ scenario = "activation" /\ Activation!Init /\ BillingAtRest
    \/ scenario = "deletion" /\ Deletion!Init /\ BillingAtRest
    \/ scenario = "keyRotation" /\ KeyRotation!Init /\ BillingAtRest
    \/ scenario = "connectionTest" /\ ConnectionTest!Init /\ BillingAtRest
    \/ scenario = "checkout" /\ Checkout!Init /\ OdooIntegrationAtRest
    \/ scenario = "resubscribe" /\ Resubscribe!Init /\ OdooIntegrationAtRest
    \/ scenario = "webhooks" /\ Webhooks!Init /\ OdooIntegrationAtRest
    \/ scenario = "operations" /\ Operations!Init /\ OdooIntegrationAtRest
    \/ scenario = "pausing" /\ Pausing!Init /\ OdooIntegrationAtRest
    \/ scenario = "reconciling" /\ Reconciling!Init /\ OdooIntegrationAtRest
    \/ scenario = "renewal" /\ Renewal!Init /\ OdooIntegrationAtRest

\* The component is the one that takes the step, in scenario s.
OdooIntegrationIn(s) == scenario = s /\ UNCHANGED <<scenario, billingVars>>
BillingIn(s) == scenario = s /\ UNCHANGED <<scenario, odooIntegrationVars>>

Next ==
    \/ OdooIntegrationIn("activation") /\ Activation!Next
    \/ OdooIntegrationIn("deletion") /\ Deletion!Next
    \/ OdooIntegrationIn("keyRotation") /\ KeyRotation!Next
    \/ OdooIntegrationIn("connectionTest") /\ ConnectionTest!Next
    \/ BillingIn("checkout") /\ Checkout!Next
    \/ BillingIn("resubscribe") /\ Resubscribe!Next
    \/ BillingIn("webhooks") /\ Webhooks!Next
    \/ BillingIn("operations") /\ Operations!Next
    \/ BillingIn("pausing") /\ Pausing!Next
    \/ BillingIn("reconciling") /\ Reconciling!Next
    \/ BillingIn("renewal") /\ Renewal!Next

Spec == Init /\ [][Next]_vars

\* A credential that Odoo no longer uses can print only while the fence that
\* will shut it down, or a synchronisation, is still there; and a record that
\* shows its state as confirmed shows the state of the Gateway (write, unlink,
\* _persist_enabled_sync_result).
IntegrationIsHonest ==
    /\ scenario = "activation" => Activation!TypeOK /\ Activation!OldShutDown
    /\ scenario = "deletion" => Deletion!OldShutDown
    /\ scenario = "keyRotation" => KeyRotation!ShownIsReal
    /\ scenario = "connectionTest" => ConnectionTest!ShownIsReal

\* Never a second thing to pay: while a subscription has not ended or a
\* Checkout Session can be paid, no other session is open
\* (checkout/route.ts:28 and :322).
NoSecondPayable ==
    /\ scenario = "checkout" => Checkout!NoSecondPayable
    /\ scenario = "renewal" => Renewal!NoSecondPayable

\* Once every event is processed and no request runs, the row says what Stripe
\* says, whatever the order of delivery; without a pending claim, Stripe holds
\* what the last finalized operation asked for (webhook/route.ts,
\* billing-operation.ts).
BillingAgrees ==
    /\ scenario = "resubscribe" => Resubscribe!TypeOK /\ Resubscribe!SyncedAgrees
    /\ scenario = "pausing" => Pausing!TypeOK
    /\ scenario = "webhooks" => Webhooks!SyncedAgrees
    /\ scenario = "reconciling" => Reconciling!SyncedAgrees
    /\ scenario = "operations" => Operations!SyncedAgrees /\ Operations!SettledHolds

Symmetry == Permutations({p1, p2})

=============================================================================
