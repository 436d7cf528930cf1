------------------------------ MODULE MCFleet ------------------------------
(* Agents and printers as the Gateway records them, for TLC: inventory     *)
(* pages, desired configurations and the health the console shows. One     *)
(* component takes steps in a behaviour, in the instance its scenario      *)
(* names; the components share no variable, so what holds of each alone    *)
(* holds of them together.                                                 *)
EXTENDS Integers, TLC

CONSTANTS a1, a2, p1, p2

OwnedBy(printers) == [p \in printers |-> a1]   \* one agent owns all printers

VARIABLES
    scenario,  \* the component that takes steps, and its instance
    loc, clk, cur, net, row, mark, billing, paused, seen, denied, bound,  \* Inventory
    g, desiredStateNet, hb, des, tomb, rt, reg, synced, disk, probe, probed, gone, desiredStateBound,  \* DesiredState
    agent, printer, depth  \* HealthPolicy

Absence == INSTANCE Inventory WITH
    Agents <- {a1}, Printers <- {p1, p2}, ManagerOps <- {}, Limit <- 2, MaxVer <- 3,
    MaxNet <- 2, MaxRestarts <- 0, MaxChanges <- 1,
    Kinds <- {"gone", "shared", "bad"}
Alias == INSTANCE Inventory WITH
    Agents <- {a1, a2}, Printers <- {p1}, ManagerOps <- {"lifecycle", "edit"},
    Limit <- 3, MaxVer <- 2, MaxNet <- 2, MaxRestarts <- 0, MaxChanges <- 0,
    Kinds <- {"gone", "shared"}
Sharing == INSTANCE Inventory WITH
    Agents <- {a1}, Printers <- {p1}, ManagerOps <- {"register", "billing"},
    Limit <- 2, MaxVer <- 2, MaxNet <- 2, MaxRestarts <- 1, MaxChanges <- 2,
    Kinds <- {"gone", "shared", "private"}
PlanLimit == INSTANCE Inventory WITH
    Agents <- {a1}, Printers <- {p1, p2}, ManagerOps <- {"register", "billing"},
    Limit <- 1, MaxVer <- 3, MaxNet <- 1, MaxRestarts <- 0, MaxChanges <- 2,
    Kinds <- {"gone", "shared"}

Desired == INSTANCE DesiredState WITH
    Printers <- {1}, InRegistry <- {1}, MaxRev <- 2, MaxNet <- 1, MaxFaults <- 2,
    MaxRepairs <- 1, net <- desiredStateNet, bound <- desiredStateBound
DesiredPages == INSTANCE DesiredState WITH
    Printers <- {1, 2}, InRegistry <- {2}, MaxRev <- 1, MaxNet <- 1, MaxFaults <- 1,
    MaxRepairs <- 1, net <- desiredStateNet, bound <- desiredStateBound
StaleConfig == INSTANCE DesiredState WITH
    Printers <- {1}, InRegistry <- {}, MaxRev <- 2, MaxNet <- 2, MaxFaults <- 2,
    MaxRepairs <- 0, net <- desiredStateNet, bound <- desiredStateBound

HealthPages == INSTANCE HealthPolicy WITH
    Agents <- {a1}, Printers <- {p1, p2}, Owner <- OwnedBy({p1, p2}),
    AgentStale <- 0, PrinterStale <- 0, DegradedAge <- 1, StartingAge <- 1,
    MaxAge <- 3, MaxDepth <- 2, MaxErr <- 1
SystemHealth == INSTANCE HealthPolicy WITH
    Agents <- {a1, a2}, Printers <- {p1}, Owner <- OwnedBy({p1}), AgentStale <- 1,
    PrinterStale <- 1, DegradedAge <- 1, StartingAge <- 1, MaxAge <- 3,
    MaxDepth <- 0, MaxErr <- 0

inventoryVars == <<loc, clk, cur, net, row, mark, billing, paused, seen, denied, bound>>
desiredStateVars == <<g, desiredStateNet, hb, des, tomb, rt, reg, synced, disk, probe, probed, gone, desiredStateBound>>
healthPolicyVars == <<agent, printer, depth>>
vars == <<scenario, inventoryVars, desiredStateVars, healthPolicyVars>>

\* A component that takes no steps stays as it is at the start.
InventoryAtRest == Absence!Init /\ \A p \in {p1, p2} : loc[a1][p] = "gone"
DesiredStateAtRest == Desired!Init
HealthPolicyAtRest == HealthPages!Init

Init ==
    \/ scenario = "absence" /\ Absence!Init /\ DesiredStateAtRest /\ HealthPolicyAtRest
    \/ scenario = "alias" /\ Alias!Init /\ DesiredStateAtRest /\ HealthPolicyAtRest
    \/ scenario = "sharing" /\ Sharing!Init /\ DesiredStateAtRest /\ HealthPolicyAtRest
    \/ scenario = "planLimit" /\ PlanLimit!Init /\ DesiredStateAtRest /\ HealthPolicyAtRest
    \/ scenario = "desired" /\ Desired!Init /\ InventoryAtRest /\ HealthPolicyAtRest
    \/ scenario = "desiredPages" /\ DesiredPages!Init /\ InventoryAtRest /\ HealthPolicyAtRest
    \/ scenario = "staleConfig" /\ StaleConfig!Init /\ InventoryAtRest /\ HealthPolicyAtRest
    \/ scenario = "healthPages" /\ HealthPages!Init /\ InventoryAtRest /\ DesiredStateAtRest
    \/ scenario = "systemHealth" /\ SystemHealth!Init /\ InventoryAtRest /\ DesiredStateAtRest

\* The component is the one that takes the step, in scenario s.
InventoryIn(s) == scenario = s /\ UNCHANGED <<scenario, desiredStateVars,
    healthPolicyVars>>
DesiredStateIn(s) == scenario = s /\ UNCHANGED <<scenario, inventoryVars,
    healthPolicyVars>>
HealthPolicyIn(s) == scenario = s /\ UNCHANGED <<scenario, inventoryVars,
    desiredStateVars>>

Next ==
    \/ InventoryIn("absence") /\ Absence!Next
    \/ InventoryIn("alias") /\ Alias!Next
    \/ InventoryIn("sharing") /\ Sharing!Next
    \/ InventoryIn("planLimit") /\ PlanLimit!Next
    \/ DesiredStateIn("desired") /\ Desired!Next
    \/ DesiredStateIn("desiredPages") /\ DesiredPages!Next
    \/ DesiredStateIn("staleConfig") /\ StaleConfig!Next
    \/ HealthPolicyIn("healthPages") /\ HealthPages!Next
    \/ HealthPolicyIn("systemHealth") /\ SystemHealth!Next

Spec == Init /\ [][Next]_vars

\* A job the console's convergence admits is never executed with an older
\* configuration; an observed revision was really probed, and a printer that a
\* complete snapshot no longer names executes nothing; a printer its local
\* owner withheld is not shared again except by a snapshot newer than the
\* refusal (desired_state.go, privatePrinterIds).
DesiredIsEnforced ==
    /\ scenario = "desired" => Desired!TypeOK /\ Desired!ObservedIsProbed /\ Desired!MissingStaysFenced
    /\ scenario = "staleConfig" => StaleConfig!StaleConfigNeverPrints
    /\ scenario = "absence" => Absence!TypeOK
    /\ scenario = "sharing" => Sharing!DenialSticks

\* The pages never advertise an agent or a printer that delivery would refuse,
\* the fleet page agrees with the detail page, and the overall verdict is the
\* worst of what was measured (agent-health.ts, printer-health.ts,
\* system-health.ts).
HealthIsHonest ==
    /\ scenario = "healthPages" => HealthPages!TypeOK /\ HealthPages!HealthPagesAgree
    /\ scenario = "systemHealth" => SystemHealth!RoutableIsWorking /\ SystemHealth!OverallIsWorst

\* A printer becomes absent, gets a row, is released, takes a place of the
\* plan or is fenced as deleted only on the evidence of a newer report that
\* says so (heartbeat/route.ts, desired_state.go).
ReportsAreApplied == [][/\ scenario = "absence" => Absence!AbsenceIsReported
                        /\ scenario = "alias" => Alias!EveryReportHasARow
                        /\ scenario = "sharing" => Sharing!ReleaseNeedsNewEvidence
                        /\ scenario = "planLimit" => PlanLimit!AdmissionWithinLimit
                        /\ scenario = "desiredPages" => DesiredPages!OnlyDeletedAreFenced]_vars

Symmetry == Permutations({p1, p2})

=============================================================================
