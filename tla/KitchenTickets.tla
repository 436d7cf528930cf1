--------------------------- MODULE KitchenTickets ---------------------------
(***************************************************************************)
(* Kitchen tickets of a POS order (pos_print_router.js).  What the kitchen *)
(* has not been told is the difference between the order and its last      *)
(* preparation change.  Sending it captures both, prints one ticket per    *)
(* station, and takes the capture for the new preparation change only when *)
(* every ticket was accepted; meanwhile the cashier goes on editing.       *)
(*                                                                         *)
(* One order with one line per station, and a Gateway that is enabled and  *)
(* has a route for every station.  A turn of the event loop, from one      *)
(* await to the next, is one step.                                         *)
(***************************************************************************)
EXTENDS Integers, FiniteSets

CONSTANTS
  Stations,  \* preparation printers with a Gateway route
  MaxQty,    \* bound on the quantity of a line
  MaxIds,    \* bound on operation ids
  MaxEdits   \* bound on edits of the order

KitchenAssumption == IsFiniteSet(Stations) /\ MaxQty \in Nat /\ MaxIds \in Nat /\ MaxEdits \in Nat

VARIABLES
  qty,       \* the live order: the quantity of each station's line
  edits,     \* edits so far
  prep,      \* last_order_preparation_change: what the kitchen counts as told
  attempts,  \* gatewayKitchenAttempts: the last result of a ticket
  ids,       \* gatewayKitchenOperationIds: the operation id of a ticket
  pending,   \* gatewayKitchenPendingKeys
  last,      \* the change of the last complete print, which a reprint repeats
  op,        \* the operation that owns the order
  dialog,    \* the retry popup that is open
  nextId,    \* the next operation id
  round,     \* how often a change was consumed
  tickets    \* what became of every ticket: [round, key, id, reprint, event]

vars == <<qty, edits, prep, attempts, ids, pending, last, op, dialog, nextId, round, tickets>>
uiState == <<attempts, ids, pending, last>>

Orders == [Stations -> 0..MaxQty]
\* changesToOrder: the order against what the kitchen knows, as <<from, to>>.
Changes == Orders \X Orders
None == <<>>
\* A ticket's key: the station and the whole change it belongs to.
Keys == Stations \X Changes

\* What can become of a ticket: accepted; refused or not rendered; refused for good, as by
\* the plan limit; not even asked for; or the answer is lost or says nothing.
Events == {"accepted", "rejected", "forGood", "notAsked", "unclear"}
MayBePrinted == {"accepted", "unclear"}

\* A variant of the code that the properties below must reject.
BrokenIsFailed(e) ==
  CASE e = "accepted" -> "accepted"
    [] e \in {"rejected", "unclear"} -> "failed"
    [] e = "forGood" -> "final"
    [] OTHER -> "unasked"

\* What printOrderChanges makes of it. "failed" is a confirmed rejection; only it and
\* "unasked" may be tried again.
classified(e) ==
  CASE e = "accepted" -> "accepted"
    [] e = "rejected" -> "failed"
    [] e = "forGood" -> "final"
    [] e = "notAsked" -> "unasked"
    [] e = "unclear" -> "unknown"

Results == {classified(e) : e \in Events}

NoOp == [st |-> "idle", change |-> None, todo |-> {}, kind |-> "send", printed |-> FALSE, all |-> TRUE,
         retry |-> {}, at |-> None]

Init ==
  /\ qty = [s \in Stations |-> 0] /\ prep = qty /\ edits = 0
  /\ attempts = << >> /\ ids = << >> /\ pending = {} /\ last = None
  /\ op = NoOp /\ dialog = None
  /\ nextId = 1 /\ round = 0 /\ tickets = {}

\* The stations a change has lines for: only they get a ticket.
Concerned(c) == {s \in Stations : c[1][s] # c[2][s]}

\* f with f[k] = v
With(f, k, v) == [x \in DOMAIN f \cup {k} |-> IF x = k THEN v ELSE f[x]]
At(f, k, default) == IF k \in DOMAIN f THEN f[k] ELSE default

-----------------------------------------------------------------------------
\* The cashier edits the order, whatever is under way; a popup keeps them from it.
edit(s) ==
  /\ dialog = None /\ edits < MaxEdits /\ edits' = edits + 1
  /\ \E q \in 0..MaxQty \ {qty[s]} : qty' = [qty EXCEPT ![s] = q]
  /\ UNCHANGED <<prep, uiState, op, dialog, nextId, round, tickets>>

\* withKitchenOperation: one operation per order.
ownsOrder == op.st = "idle"

\* sendOrderInPreparation takes the order, then waits for the Gateway's state and the sync.
send ==
  /\ ownsOrder /\ dialog = None
  /\ op' = [NoOp EXCEPT !.st = "asking"]
  /\ UNCHANGED <<qty, edits, prep, uiState, dialog, nextId, round, tickets>>

\* Nothing is printed: the call failed, or there is nothing to print.
sendStops ==
  /\ op.st = "asking"
  /\ op' = NoOp
  /\ UNCHANGED <<qty, edits, prep, uiState, dialog, nextId, round, tickets>>

\* The change and the snapshot are captured in one turn.
capture ==
  /\ op.st = "asking" /\ qty # prep
  /\ op' = [op EXCEPT !.st = "routing", !.change = <<prep, qty>>]
  /\ UNCHANGED <<qty, edits, prep, uiState, dialog, nextId, round, tickets>>

\* An explicit reprint repeats the last change when there is no new one.
captureReprint ==
  /\ op.st = "asking" /\ qty = prep /\ last # None
  /\ op' = [op EXCEPT !.st = "routing", !.kind = "reprint", !.change = last]
  /\ UNCHANGED <<qty, edits, prep, uiState, dialog, nextId, round, tickets>>

\* retry of the popup: the old change, for the printers that failed. The retry of a
\* reprint is a reprint.
retryDialog ==
  /\ ownsOrder /\ dialog # None
  /\ op' = [NoOp EXCEPT !.st = "routing", !.kind = dialog.kind, !.change = dialog.change, !.todo = dialog.printers]
  /\ dialog' = None
  /\ UNCHANGED <<qty, edits, prep, uiState, nextId, round, tickets>>

closeDialog ==
  /\ dialog # None /\ dialog' = None
  /\ UNCHANGED <<qty, edits, prep, uiState, op, nextId, round, tickets>>

\* printChanges has its routes; a retry keeps to the stations it was made for.
routed ==
  /\ op.st = "routing"
  /\ op' = [op EXCEPT !.st = "printing",
                      !.todo = IF op.todo # {} THEN op.todo \cap Concerned(op.change) ELSE Concerned(op.change)]
  /\ UNCHANGED <<qty, edits, prep, uiState, dialog, nextId, round, tickets>>

\* Routes are invalid, incomplete or unreachable: printChanges gives up.
notRouted ==
  /\ op.st = "routing"
  /\ op' = NoOp
  /\ UNCHANGED <<qty, edits, prep, uiState, dialog, nextId, round, tickets>>

-----------------------------------------------------------------------------
Key(s) == <<s, op.change>>
prior(s) == IF op.kind = "reprint" THEN "none" ELSE At(attempts, Key(s), "none")

\* A result that must not be submitted again: the ticket may be on paper.
reusable(s) == prior(s) \in {"accepted", "unknown"}

\* The ticket's operation id: kept for every attempt, except that a retry after a
\* confirmed rejection, and every reprint, is a new operation.
fresh(s) ==
  \/ op.kind = "reprint"
  \/ op.kind = "retry" /\ prior(s) = "failed"
  \/ Key(s) \notin DOMAIN ids

\* What the loop does with a result.
Counted(s, r) ==
  [op EXCEPT !.st = "printing", !.todo = @ \ {s}, !.at = None,
             !.printed = @ \/ r = "accepted", !.all = @ /\ r = "accepted",
             !.retry = IF r \in {"failed", "unasked"} THEN @ \cup {s} ELSE @]

\* The loop reaches a ticket whose outcome it already knows.
reuse(s) ==
  /\ op.st = "printing" /\ s \in op.todo /\ reusable(s)
  /\ op' = Counted(s, prior(s))
  /\ pending' = pending \cup {Key(s)}
  /\ UNCHANGED <<qty, edits, prep, attempts, ids, last, dialog, nextId, round, tickets>>

\* printOrderChanges: render and submit.
submit(s) ==
  /\ op.st = "printing" /\ s \in op.todo /\ ~reusable(s)
  /\ fresh(s) => nextId <= MaxIds
  /\ LET id == IF fresh(s) THEN nextId ELSE ids[Key(s)]
     IN /\ nextId' = IF fresh(s) THEN nextId + 1 ELSE nextId
        /\ IF op.kind = "reprint" THEN UNCHANGED <<ids, pending>>
           ELSE ids' = With(ids, Key(s), id) /\ pending' = pending \cup {Key(s)}
        /\ op' = [op EXCEPT !.st = "waiting", !.at = <<s, id>>]
  /\ UNCHANGED <<qty, edits, prep, attempts, last, dialog, round, tickets>>

\* printOrderChanges returns.
answer(e) ==
  /\ op.st = "waiting"
  /\ LET s == op.at[1]
         r == classified(e)
         t == [round |-> round, key |-> Key(s), id |-> op.at[2], reprint |-> op.kind = "reprint", event |-> e]
     IN /\ tickets' = tickets \cup {t}
        /\ attempts' = IF op.kind = "reprint" THEN attempts ELSE With(attempts, Key(s), r)
        /\ op' = Counted(s, r)
  /\ UNCHANGED <<qty, edits, prep, ids, pending, last, dialog, nextId, round>>

\* Every ticket that was ever started since the last complete print is accepted.
batchAccepted == op.kind = "reprint" \/ \A k \in pending : At(attempts, k, "none") = "accepted"

complete == op.printed /\ op.all /\ batchAccepted

\* A variant of the code that the properties below must reject.
LiveOrder(c) == qty

\* consumeAcceptedKitchenSnapshot: the kitchen knows what was captured, not what is there now.
consumed(c) == c[2]

\* The loop is over. A complete print is consumed; failures that may be tried again open
\* the popup.
finish ==
  /\ op.st = "printing" /\ op.todo = {}
  /\ IF complete /\ op.kind # "reprint"
     THEN /\ prep' = consumed(op.change) /\ round' = round + 1
          /\ attempts' = << >> /\ ids' = << >> /\ pending' = {}
          /\ last' = op.change
     ELSE UNCHANGED <<prep, round, uiState>>
  /\ dialog' = IF op.retry = {} THEN None ELSE [change |-> op.change, printers |-> op.retry,
                                                     kind |-> IF op.kind = "reprint" THEN "reprint" ELSE "retry"]
  /\ op' = NoOp
  /\ UNCHANGED <<qty, edits, nextId, tickets>>

Next ==
  \/ send \/ sendStops \/ capture \/ captureReprint \/ retryDialog \/ closeDialog
  \/ routed \/ notRouted \/ finish
  \/ \E s \in Stations : edit(s) \/ reuse(s) \/ submit(s)
  \/ \E e \in Events : answer(e)

Spec == Init /\ [][Next]_vars

-----------------------------------------------------------------------------
TypeOK ==
  /\ qty \in Orders /\ prep \in Orders /\ edits \in 0..MaxEdits
  /\ DOMAIN attempts \subseteq pending /\ DOMAIN ids \subseteq pending /\ pending \subseteq Keys
  /\ \A k \in DOMAIN attempts : attempts[k] \in Results
  /\ op.st \in {"idle", "asking", "routing", "printing", "waiting"} /\ op.todo \subseteq Stations
  /\ last = None \/ last \in Changes
  /\ nextId \in 1..MaxIds + 1
  /\ \A t \in tickets : t.key \in Keys /\ t.event \in Events

\* A change of what the kitchen counts as told is the change of an accepted ticket.
ToldStep ==
  prep' # prep =>
    \A s \in Stations : prep'[s] # prep[s] =>
      \E t \in tickets : /\ t.round = round /\ t.event = "accepted" /\ ~t.reprint
                         /\ t.key[1] = s /\ t.key[2][1][s] = prep[s] /\ t.key[2][2][s] = prep'[s]

\* The kitchen is taken to know a quantity only when the station's ticket with exactly
\* that change was accepted: an edit made while tickets were under way stays to be sent
\* (the snapshot of captureKitchenPreparationState).
ToldByTicket == [][ToldStep]_vars

\* A ticket that may be on paper is not sent again as another operation, unless the
\* cashier asked for a reprint ("automatic physical retry is forbidden").
NoSecondTicket ==
  \A t, u \in tickets :
    /\ t.key = u.key /\ t.round = u.round /\ ~t.reprint /\ ~u.reprint /\ t.id < u.id
    => t.event \notin MayBePrinted

=============================================================================
