----------------------------- MODULE MCBrowser -----------------------------
(* What people do in their browsers, for TLC: the kitchen tickets of an    *)
(* order (KitchenTickets), the print operations of a receipt, a sale       *)
(* details page and a report in two tabs (ClientPrints, three instances),  *)
(* and sign-in, sessions and accounts (SessionTokens, Accounts). One       *)
(* component takes steps in a behaviour, in the instance its scenario      *)
(* names; they share no variable, so what holds of each alone holds of     *)
(* them together.                                                          *)
EXTENDS KitchenTickets, ClientPrints, TLC

CONSTANTS p1, p2, p3, t1, t2, r1, r2, Platform, NoRole

VARIABLES
    scenario,  \* the component that takes steps, and its instance
    password, lifecycle, role, rows, expired, sessionLast, jar, tx, gen, closed,  \* SessionTokens
    user, links, mail, chooser, sess, req, strange  \* Accounts

Details == INSTANCE ClientPrints WITH
    MaxVersion <- 1, MaxCount <- 0, MaxReloads <- 1, Kind <- "details"
Report == INSTANCE ClientPrints WITH
    MaxVersion <- 0, MaxCount <- 0, MaxReloads <- 1, Kind <- "report"

Rotation == INSTANCE SessionTokens WITH
    last <- sessionLast,
    Procs <- {p1, p2}, Tenants <- {t1}, Roles <- {r1}, MaxPassword <- 1, MaxGen <- 0,
    OwnerIsUser <- TRUE, PromptRequests <- FALSE,
    Ops <- {"login", "refresh", "logout", "reset"}, MaxTokens <- 3
Selection == INSTANCE SessionTokens WITH
    last <- sessionLast,
    Procs <- {p1, p2}, Tenants <- {t1, t2}, Roles <- {r1}, MaxPassword <- 1,
    MaxGen <- 0, OwnerIsUser <- TRUE, PromptRequests <- FALSE,
    Ops <- {"login", "select", "chooser", "reset", "member"}, MaxTokens <- 2
Suspension == INSTANCE SessionTokens WITH
    last <- sessionLast,
    Procs <- {p1, p2}, Tenants <- {t1}, Roles <- {r1}, MaxPassword <- 0, MaxGen <- 1,
    OwnerIsUser <- FALSE, PromptRequests <- FALSE,
    Ops <- {"login", "platform", "lifecycle", "refresh"}, MaxTokens <- 3
Order == INSTANCE SessionTokens WITH
    last <- sessionLast,
    Procs <- {p1, p2}, Tenants <- {t1}, Roles <- {r1}, MaxPassword <- 1, MaxGen <- 1,
    OwnerIsUser <- TRUE, PromptRequests <- FALSE,
    Ops <- {"login", "platform", "lifecycle", "refresh", "select", "reset"},
    MaxTokens <- 2
Membership == INSTANCE SessionTokens WITH
    last <- sessionLast,
    Procs <- {p1, p2}, Tenants <- {t1}, Roles <- {r1, r2}, MaxPassword <- 0,
    MaxGen <- 0, OwnerIsUser <- TRUE, PromptRequests <- FALSE,
    Ops <- {"login", "member", "refresh", "expiry"}, MaxTokens <- 2
SharedSession == INSTANCE SessionTokens WITH
    last <- sessionLast,
    Procs <- {p1, p2, p3}, Tenants <- {t1}, Roles <- {r1}, MaxPassword <- 0,
    MaxGen <- 0, OwnerIsUser <- TRUE, PromptRequests <- TRUE,
    Ops <- {"login", "refresh"}, MaxTokens <- 4

Recovery == INSTANCE Accounts WITH
    Procs <- {p1, p2},
    Ops <- {"register", "resend", "forgot", "verify", "reset", "login"},
    Ids <- {1, 2, 3}, Strangers <- 2, MaxSpaces <- 1
Workspaces == INSTANCE Accounts WITH
    Procs <- {p1, p2}, Ops <- {"forgot", "reset", "login", "select", "join"},
    Ids <- {1, 2}, Strangers <- 0, MaxSpaces <- 2

ASSUME Rotation!SessionAssumption /\ Selection!SessionAssumption
ASSUME Suspension!SessionAssumption /\ Order!SessionAssumption
ASSUME Membership!SessionAssumption /\ SharedSession!SessionAssumption

ASSUME ClientAssumption /\ Details!ClientAssumption /\ Report!ClientAssumption
ASSUME KitchenAssumption

sessionVars == <<password, lifecycle, role, rows, expired, sessionLast, jar, tx, gen, closed>>
accountVars == <<user, links, mail, chooser, sess, req, strange>>
allVars == <<scenario, vars, clientVars, sessionVars, accountVars>>

\* A component that takes no steps stays as it is at the start.
PagesAtRest    == Init /\ ClientInit
SessionsAtRest == Rotation!Init
AccountsAtRest == Recovery!Init /\ user.there
PeopleAtRest   == SessionsAtRest /\ AccountsAtRest

InitAll ==
    \/ scenario \in {"kitchen", "receipt"} /\ PagesAtRest /\ PeopleAtRest
    \/ scenario = "details" /\ Details!ClientInit /\ Init /\ PeopleAtRest
    \/ scenario = "report" /\ Report!ClientInit /\ Init /\ PeopleAtRest
    \/ scenario = "rotation" /\ Rotation!Init /\ PagesAtRest /\ AccountsAtRest
    \/ scenario = "selection" /\ Selection!Init /\ PagesAtRest /\ AccountsAtRest
    \/ scenario = "suspension" /\ Suspension!Init /\ PagesAtRest /\ AccountsAtRest
    \/ scenario = "order" /\ Order!Init /\ PagesAtRest /\ AccountsAtRest
    \/ scenario = "membership" /\ Membership!Init /\ PagesAtRest /\ AccountsAtRest
    \/ scenario = "sharedSession" /\ SharedSession!Init /\ PagesAtRest /\ AccountsAtRest
    \/ scenario = "recovery" /\ Recovery!Init /\ PagesAtRest /\ SessionsAtRest
    \/ scenario = "workspaces" /\ Workspaces!Init /\ PagesAtRest /\ SessionsAtRest

\* The component is the one that takes the step, in scenario s.
KitchenTicketsIn(s) == scenario = s /\ UNCHANGED <<scenario, clientVars, sessionVars, accountVars>>
ClientPrintsIn(s)   == scenario = s /\ UNCHANGED <<scenario, vars, sessionVars, accountVars>>
SessionTokensIn(s)  == scenario = s /\ UNCHANGED <<scenario, vars, clientVars, accountVars>>
AccountsIn(s)       == scenario = s /\ UNCHANGED <<scenario, vars, clientVars, sessionVars>>

NextAll ==
    \/ KitchenTicketsIn("kitchen") /\ Next
    \/ ClientPrintsIn("receipt") /\ ClientNext
    \/ ClientPrintsIn("details") /\ Details!ClientNext
    \/ ClientPrintsIn("report") /\ Report!ClientNext
    \/ SessionTokensIn("rotation") /\ Rotation!Next
    \/ SessionTokensIn("selection") /\ Selection!Next
    \/ SessionTokensIn("suspension") /\ Suspension!Next
    \/ SessionTokensIn("order") /\ Order!Next
    \/ SessionTokensIn("membership") /\ Membership!Next
    \/ SessionTokensIn("sharedSession") /\ SharedSession!Next
    \/ AccountsIn("recovery") /\ Recovery!Next
    \/ AccountsIn("workspaces") /\ Workspaces!Next

MaxTickets == 4  \* bound: different fates of kitchen tickets in a behaviour

Bounded == Cardinality(tickets) <= MaxTickets

SpecAll == InitAll /\ [][NextAll]_allVars

\* A live session was obtained with the current password and after the last
\* suspension of its workspace; a family that was ended as a whole has no live
\* token and never gets one again; and a browser that refreshes from several
\* tabs keeps its session (session-tokens.ts).
SessionsAreCurrent ==
    /\ scenario = "rotation" => Rotation!LiveIsCurrent /\ Rotation!ClosedStaysClosed
    /\ scenario = "selection" => Selection!TypeOK /\ Selection!LiveIsCurrent
    /\ scenario = "suspension" => Suspension!LiveIsCurrent
    /\ scenario = "membership" => Membership!ClosedStaysClosed
    /\ scenario = "sharedSession" => SharedSession!TabsKeepSession

\* No two requests wait for each other: tenant, user, family is one order for
\* all transactions (reset-password/route.ts:62, session-tokens.ts:602,
\* tenant-lifecycle.ts:63).
NoLockCycle == scenario = "order" => Order!NoLockCycle

\* Whoever registers somebody else's address never gets a session of that
\* account; a session was obtained with the present password, at most one
\* recovery link is open, and a workspace selection token yields one session
\* (verify-email, reset-password, select-tenant).
OwnerOnly ==
    /\ scenario = "recovery" => Recovery!TypeOK /\ Recovery!StrangerLockedOut /\ Recovery!OneOpenReset /\ Recovery!SessionsCurrent
    /\ scenario = "workspaces" => Workspaces!SessionsCurrent /\ Workspaces!SelectionOnce

\* A workspace changes its lifecycle only while the session that asked for it
\* is alive at the commit, and the password of an account only in a step that
\* consumes an open link (tenant-lifecycle.ts, reset-password/route.ts).
UnderAuthority == [][/\ scenario = "order" => Order!TransitionUnderAuthority
                     /\ scenario = "recovery" => Recovery!PasswordNeedsLink]_allVars

Symmetry == Permutations({p1, p2})

=============================================================================
