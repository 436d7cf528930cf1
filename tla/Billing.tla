------------------------------ MODULE Billing ------------------------------
(***************************************************************************)
(* The subscription of one workspace: Checkout, cancel and resume, and the *)
(* webhook, against Stripe.  Each database transaction starts by locking   *)
(* the tenant row and is one step; between two transactions of a request   *)
(* stands a call to Stripe, and other requests run there.  A request may   *)
(* stop anywhere (process death, timeout, lost response, lost authority).  *)
(* Stripe delivers events late, twice and out of order.                    *)
(***************************************************************************)
EXTENDS Naturals, Sequences, FiniteSets, TLC

CONSTANTS
    Procs,        \* requests running at the same time
    Plans,
    Ops,          \* what happens in this instance
    Subscribed,   \* start from a synchronised active subscription
    PromptHooks,  \* hours pass, and customers pay, only after every event was processed
    Replay,       \* CHECKOUT_IDEMPOTENCY_REPLAY_MAX_AGE_MS
    SessionLife,  \* CHECKOUT_SESSION_MAX_LIFETIME_MS, and how long Stripe keeps a key
    Reconcile,    \* CHECKOUT_STALE_RECONCILE_AGE_MS
    MaxNow, MaxKey, MaxEvents, MaxStops \* bounds

BillingAssumption ==
    /\ Plans \subseteq Nat \ {0} /\ {Subscribed, PromptHooks} \subseteq BOOLEAN
    /\ {Replay, SessionLife, Reconcile, MaxNow, MaxKey, MaxEvents, MaxStops} \subseteq Nat
    /\ Replay <= SessionLife /\ SessionLife < Reconcile

VARIABLES
    row,        \* tenant_subscriptions of the workspace
    req,        \* the running requests
    sessions,   \* Stripe: Checkout Sessions, by idempotency key
    subs,       \* Stripe: subscriptions
    performed,  \* Stripe: idempotency keys of the cancel and resume calls it performed
    events,     \* Stripe: events, by id
    processed,  \* billing_events with processed_at
    now,        \* hours
    last,       \* idempotency keys minted so far
    settled,    \* history: cancel_at_period_end of the last operation that was finalized
    stops       \* requests that stopped halfway

vars == <<row, req, sessions, subs, performed, events, processed, now, last, settled, stops>>
stripe == <<sessions, subs, performed, events>>

Active == {"active", "past_due"}
Terminal == {"cancelled"}
Idle == [op |-> "none"]
Unseen == [status |-> "none", cape |-> FALSE]
Blank == [status |-> "cancelled", sub |-> 0, customer |-> FALSE, cape |-> FALSE, lapsed |-> FALSE,
          co |-> "none", plan |-> 0, key |-> 0, made |-> 0, session |-> 0, expires |-> 0,
          op |-> 0, opType |-> "none", opSub |-> 0,
          rev |-> 0, lastEvent |-> 0, updated |-> 0]
\* Variants of the code that the properties below must reject.
ClearOpIdOnly(r) == [r EXCEPT !.op = 0]
ClearKeyOnly(r) == [r EXCEPT !.key = 0]

ClearOp(r) == [r EXCEPT !.op = 0, !.opType = "none", !.opSub = 0]
ClearCheckout(r) == [r EXCEPT !.co = "none", !.plan = 0, !.key = 0, !.made = 0,
                              !.session = 0, !.expires = 0]
Touch(r) == [r EXCEPT !.updated = now]

Init ==
    /\ row = IF Subscribed
             THEN [Blank EXCEPT !.status = "active", !.sub = 1, !.customer = TRUE, !.co = "completed",
                                !.rev = 1, !.lastEvent = 1]
             ELSE Blank
    /\ subs = IF Subscribed THEN 1 :> [status |-> "active", cape |-> FALSE] ELSE <<>>
    /\ req = [p \in Procs |-> Idle]
    /\ sessions = <<>> /\ performed = {} /\ events = <<>> /\ processed = {}
    /\ now = 0 /\ last = 0 /\ settled = FALSE /\ stops = 0

-----------------------------------------------------------------------------
\* Stripe, as src/ uses it.

Payable(k) == sessions[k].state = "open" /\ now < sessions[k].expires
Sec == IF events = <<>> THEN 1 ELSE events[Cardinality(DOMAIN events)].created

\* Events carry the second they were created in; several may share one.
Emit(new, s) ==
    LET n == Cardinality(DOMAIN events) IN
    /\ n + Len(new) <= MaxEvents
    /\ \E t \in {Sec, Sec + 1} :
          events' = events @@ [i \in (n + 1)..(n + Len(new)) |->
                       [type |-> new[i - n], sub |-> s, created |-> t,
                        status |-> subs'[s].status, cape |-> subs'[s].cape]]

\* The customer pays: a subscription and two events.
pay(k) ==
    /\ "pay" \in Ops /\ Payable(k)
    /\ PromptHooks => DOMAIN events = processed
    /\ sessions' = [sessions EXCEPT ![k].state = "complete"]
    /\ LET s == Cardinality(DOMAIN subs) + 1 IN
       /\ subs' = subs @@ (s :> [status |-> "active", cape |-> FALSE])
       /\ Emit(<<"created", "completed">>, s)
    /\ UNCHANGED <<row, req, performed, processed, now, last, settled, stops>>

\* Stripe or its portal changes the status: dunning, pause, end.
change(s) ==
    /\ "change" \in Ops
    /\ \E st \in {"active", "past_due", "paused", "cancelled"} \ {subs[s].status} :
          /\ subs[s].status # "cancelled"
          /\ subs' = [subs EXCEPT ![s].status = st]
          /\ Emit(<<IF st = "cancelled" THEN "deleted" ELSE "updated">>, s)
    /\ UNCHANGED <<row, req, sessions, performed, processed, now, last, settled, stops>>

\* The first call with an idempotency key opens a session or is rejected for
\* good; while Stripe keeps the key, later calls get the same answer.
Answer(k) ==
    IF k \in DOMAIN sessions THEN {sessions[k]}
    ELSE {[state |-> "open", expires |-> now + SessionLife], [state |-> "rejected", expires |-> now]}

\* Hours pass between requests.
tick ==
    /\ now < MaxNow
    /\ \A p \in Procs : req[p] = Idle
    /\ PromptHooks => DOMAIN events = processed
    /\ now' = now + 1
    /\ UNCHANGED <<row, req, stripe, processed, last, settled, stops>>

\* The paid period ends on the Gateway's clock.
lapse ==
    /\ "lapse" \in Ops /\ row.status = "active" /\ ~row.lapsed
    /\ row' = [row EXCEPT !.lapsed = TRUE]
    /\ UNCHANGED <<req, stripe, processed, now, last, settled, stops>>

-----------------------------------------------------------------------------
\* Checkout.

Step(p, step) == req' = [req EXCEPT ![p].step = step]
End(p) == req' = [req EXCEPT ![p] = Idle]

checkout(p) ==
    /\ "checkout" \in Ops /\ req[p] = Idle
    /\ \E plan \in Plans :
          req' = [req EXCEPT ![p] = [op |-> "checkout", step |-> "decide", plan |-> plan,
                                     verified |-> FALSE, key |-> 0, customer |-> FALSE,
                                     sub |-> 0, rev |-> 0, seen |-> Unseen]]
    /\ UNCHANGED <<row, stripe, processed, now, last, settled, stops>>

checkoutIntentExpired == row.expires <= now

\* Variants of the code that the properties below must reject.
AbandonAtOnce == TRUE

replayableCheckoutSnapshot == now - row.made < Replay

creatingCheckoutCanBeAbandoned ==
    /\ now - row.made >= Reconcile
    /\ now - row.updated >= Reconcile

Live == row.status = "past_due" \/ ~row.lapsed

Billed == row.sub # 0 /\ row.status \in Active

\* What the first transaction decides.
Decision(plan, verified) ==
    CASE Billed ->
           IF Live \/ verified THEN "refuse" ELSE "verify"
      [] row.op # 0 -> "refuse"
      [] row.co = "open" /\ ~checkoutIntentExpired -> "refuse"
      [] row.co = "creating" /\ creatingCheckoutCanBeAbandoned -> "reconcile"
      [] row.co = "creating" /\ row.plan # plan -> "refuse"
      [] row.co = "completed" -> "refuse"
      [] row.co = "creating" -> IF replayableCheckoutSnapshot THEN "replay" ELSE "refuse"
      [] row.sub # 0 /\ row.status = "paused" -> "refuse"
      [] OTHER -> "mint"

\* A fresh intent replaces whatever intent the row held.
Mint(p) ==
    /\ last < MaxKey
    /\ last' = last + 1
    /\ row' = Touch([row EXCEPT !.co = "creating", !.plan = req[p].plan, !.key = last + 1, !.made = now,
                                !.session = 0, !.expires = 0])
    /\ req' = [req EXCEPT ![p].step = "customer", ![p].key = last + 1, ![p].customer = row.customer]

decide(p) ==
    /\ req[p] # Idle /\ req[p].op = "checkout" /\ req[p].step = "decide"
    /\ LET d == Decision(req[p].plan, req[p].verified) IN
       \/ d = "mint" /\ Mint(p)
       \/ d = "replay" /\ req' = [req EXCEPT ![p].step = "customer", ![p].key = row.key,
                                             ![p].customer = row.customer]
                       /\ UNCHANGED <<row, last>>
       \/ d = "refuse" /\ End(p) /\ UNCHANGED <<row, last>>
       \/ d \in {"verify", "reconcile"}
          /\ req' = [req EXCEPT ![p].step = d, ![p].key = row.key, ![p].customer = row.customer,
                                ![p].sub = row.sub, ![p].rev = row.rev]
          /\ UNCHANGED <<row, last>>
    /\ UNCHANGED <<stripe, processed, now, settled, stops>>

At(p, op, step) == req[p] # Idle /\ req[p].op = op /\ req[p].step = step

\* The subscription that looks over locally, as Stripe has it now.
retrieveSubscription(p) ==
    /\ At(p, "checkout", "verify")
    /\ req' = [req EXCEPT ![p].step = "verified", ![p].seen = subs[req[p].sub]]
    /\ UNCHANGED <<row, stripe, processed, now, last, settled, stops>>

StillVerified(p) == row.sub = req[p].sub /\ row.rev = req[p].rev /\ row.key = req[p].key

\* A variant of the code that the properties below must reject.
LocalExpiryEnds(seen) == "cancelled"

localSubscriptionStatus(seen) == seen.status

\* It ended: record that, and decide again.
applyVerified(p) ==
    /\ At(p, "checkout", "verified")
    /\ IF StillVerified(p) /\ localSubscriptionStatus(req[p].seen) \in Terminal
       THEN /\ row' = Touch([ClearOp(IF row.co = "completed" THEN ClearCheckout(row) ELSE row)
                               EXCEPT !.status = localSubscriptionStatus(req[p].seen), !.rev = @ + 1])
            /\ req' = [req EXCEPT ![p].step = "decide", ![p].verified = TRUE]
       ELSE End(p) /\ UNCHANGED row
    /\ UNCHANGED <<stripe, processed, now, last, settled, stops>>

\* An old intent without an answer: ask Stripe for the customer's subscriptions.
\* More than one that has not ended stops the request.
reconcileList(p) ==
    /\ At(p, "checkout", "reconcile")
    /\ LET alive == {s \in DOMAIN subs : subs[s].status \notin Terminal} IN
       CASE ~req[p].customer \/ alive = {} -> Step(p, "rotate")
         [] Cardinality(alive) = 1 ->
              LET s == CHOOSE s \in alive : TRUE IN
              req' = [req EXCEPT ![p].step = "adopt", ![p].sub = s, ![p].seen = subs[s]]
         [] OTHER -> End(p)
    /\ UNCHANGED <<row, stripe, processed, now, last, settled, stops>>

\* One has not: bind it to the workspace.
adopt(p) ==
    /\ At(p, "checkout", "adopt")
    /\ IF /\ row.co = "creating" /\ row.key = req[p].key
          /\ row.rev = req[p].rev /\ row.customer = req[p].customer
          /\ row.sub \in {0, req[p].sub} \/ row.status \in Terminal
       THEN row' = Touch([ClearCheckout(row)
                           EXCEPT !.sub = req[p].sub, !.status = req[p].seen.status, !.lapsed = FALSE,
                                  !.cape = req[p].seen.cape, !.co = "completed", !.plan = row.plan,
                                  !.rev = @ + 1,
                                  !.lastEvent = IF row.sub = req[p].sub THEN @ ELSE 0])
       ELSE UNCHANGED row
    /\ End(p)
    /\ UNCHANGED <<stripe, processed, now, last, settled, stops>>

MayRotate(p) ==
    /\ row.rev = req[p].rev /\ row.customer = req[p].customer
    /\ ~(row.sub # 0 /\ row.status \in Active \cup {"paused"})
    /\ row.op = 0
    /\ row.co = "creating" /\ row.key = req[p].key
    /\ creatingCheckoutCanBeAbandoned

\* None has: the old intent is given up for a new one.
rotate(p) ==
    /\ At(p, "checkout", "rotate")
    /\ \/ MayRotate(p) /\ Mint(p)
       \/ ~MayRotate(p) /\ End(p) /\ UNCHANGED <<row, last>>
    /\ UNCHANGED <<stripe, processed, now, settled, stops>>

\* The Stripe customer is created under a key of the tenant and recorded.
ensureCustomer(p) ==
    /\ At(p, "checkout", "customer")
    /\ Step(p, "fence")
    /\ row' = IF req[p].customer \/ row.customer THEN row ELSE Touch([row EXCEPT !.customer = TRUE])
    /\ UNCHANGED <<stripe, processed, now, last, settled, stops>>

OwnsIntent(p) == row.key = req[p].key /\ row.co = "creating"

attemptFence(p) ==
    /\ At(p, "checkout", "fence")
    /\ IF OwnsIntent(p) THEN Step(p, "session") /\ row' = Touch(row) ELSE End(p) /\ UNCHANGED row
    /\ UNCHANGED <<stripe, processed, now, last, settled, stops>>

createSession(p) ==
    /\ At(p, "checkout", "session")
    /\ \E a \in Answer(req[p].key) :
          /\ sessions' = (req[p].key :> a) @@ sessions
          /\ Step(p, IF a.state = "rejected" THEN "release" ELSE "finalize")
    /\ UNCHANGED <<row, subs, performed, events, processed, now, last, settled, stops>>

finalizeCheckout(p) ==
    /\ At(p, "checkout", "finalize")
    /\ row' = IF ~(Billed /\ Live) /\ OwnsIntent(p)
              THEN Touch([row EXCEPT !.co = "open", !.session = req[p].key,
                                     !.expires = sessions[req[p].key].expires])
              ELSE row
    /\ End(p)
    /\ UNCHANGED <<stripe, processed, now, last, settled, stops>>

releaseIntent(p) ==
    /\ At(p, "checkout", "release")
    /\ row' = IF OwnsIntent(p) THEN Touch(ClearCheckout(row)) ELSE row
    /\ End(p)
    /\ UNCHANGED <<stripe, processed, now, last, settled, stops>>

-----------------------------------------------------------------------------
\* Cancel and resume.

\* A variant of the code that the properties below must reject.
FreshKey(type) == 0

\* The claim of this kind already on the row, if it is for the bound subscription.
PendingKey(type) == IF row.opSub = row.sub /\ row.opType = type THEN row.op ELSE 0

Permitted(type) ==
    /\ row.sub # 0
    /\ row.status \notin Terminal
    /\ type = "cancel" => row.status # "paused"

claim(p) ==
    /\ req[p] = Idle
    /\ \E type \in {"cancel", "resume"} \cap Ops :
          /\ Permitted(type)
          /\ row.opSub # row.sub \/ row.op = 0 \/ row.opType = type
          /\ LET k == PendingKey(type)
                 key == IF k = 0 THEN last + 1 ELSE k
             IN
             /\ k = 0 => last < MaxKey
             /\ last' = IF k = 0 THEN last + 1 ELSE last
             /\ row' = IF k = 0 THEN Touch([row EXCEPT !.op = key, !.opType = type, !.opSub = row.sub]) ELSE row
             /\ req' = [req EXCEPT ![p] = [op |-> type, step |-> "stripe", key |-> key, sub |-> row.sub,
                                           paused |-> row.status = "paused"]]
    /\ UNCHANGED <<stripe, processed, now, settled, stops>>

Operating(p, step) == req[p] # Idle /\ req[p].op \in {"cancel", "resume"} /\ req[p].step = step

\* Stripe performs the call of a key once, and rejects calls for an ended
\* subscription and for a pause that is over.
mutateSubscription(p) ==
    /\ Operating(p, "stripe")
    /\ LET s == req[p].sub IN
       IF req[p].key \in performed THEN Step(p, "finalize") /\ UNCHANGED <<subs, performed, events>>
       ELSE IF subs[s].status \in Terminal \/ (req[p].op = "resume" /\ req[p].paused # (subs[s].status = "paused"))
                 \/ (req[p].op = "cancel" /\ subs[s].status = "paused")
       THEN Step(p, "reject") /\ UNCHANGED <<subs, performed, events>>
       ELSE /\ subs' = [subs EXCEPT ![s] = IF req[p].op = "resume" /\ req[p].paused
                                           THEN [@ EXCEPT !.status = "active"]
                                           ELSE [@ EXCEPT !.cape = (req[p].op = "cancel")]]
            /\ performed' = performed \cup {req[p].key}
            /\ Emit(<<"updated">>, s)
            /\ Step(p, "finalize")
    /\ UNCHANGED <<row, sessions, processed, now, last, settled, stops>>

OwnsOperation(p) == row.op = req[p].key

finalizeOperation(p) ==
    /\ Operating(p, "finalize")
    /\ row' = IF ~OwnsOperation(p) THEN row
              ELSE IF row.sub # req[p].sub THEN Touch(ClearOp(row))
              ELSE Touch([ClearOp(row) EXCEPT !.cape = (req[p].op = "cancel")])
    /\ settled' = IF OwnsOperation(p) /\ row.sub = req[p].sub THEN req[p].op = "cancel" ELSE settled
    /\ End(p)
    /\ UNCHANGED <<stripe, processed, now, last, stops>>

releaseOperation(p) ==
    /\ Operating(p, "reject")
    /\ row' = IF OwnsOperation(p) /\ row.sub = req[p].sub THEN Touch(ClearOp(row)) ELSE row
    /\ End(p)
    /\ UNCHANGED <<stripe, processed, now, last, settled, stops>>

-----------------------------------------------------------------------------
\* The webhook.  Every event is delivered until it is acknowledged.

Snapshot == {"created", "updated"}

\* A variant of the code that the properties below must reject.
UnknownForCheckout(e) == IF row.sub = e.sub /\ e.type # "completed" THEN row.rev ELSE 0

\* The revision known for the event's subscription (0: none), read before Stripe is asked.
KnownRevision(e) == IF e.type = "completed" \/ row.sub = e.sub THEN row.rev ELSE 0
StaleEvent(e) == e.type \in Snapshot /\ row.sub = e.sub /\ e.created < row.lastEvent

deliver(p, i) ==
    /\ "hook" \in Ops /\ req[p] = Idle /\ i \in DOMAIN events \ processed
    /\ LET e == events[i] IN
       req' = [req EXCEPT ![p] = [op |-> "hook", event |-> i, stale |-> StaleEvent(e),
                                  rev |-> KnownRevision(e), seen |-> [status |-> e.status, cape |-> e.cape],
                                  step |-> IF StaleEvent(e) \/ e.type = "deleted" THEN "apply" ELSE "fetch"]]
    /\ UNCHANGED <<row, stripe, processed, now, last, settled, stops>>

fetchSnapshot(p) ==
    /\ At(p, "hook", "fetch")
    /\ req' = [req EXCEPT ![p].step = "apply", ![p].seen = subs[events[req[p].event].sub]]
    /\ UNCHANGED <<row, stripe, processed, now, last, settled, stops>>

Different(e) == row.sub # 0 /\ row.sub # e.sub

\* checkout.session.completed: binds the subscription; its status comes later.
CheckoutCompleted(e, seen) ==
    IF Different(e) /\ (row.status \notin Terminal \/ seen.status \in Terminal)
    THEN row
    ELSE Touch([row EXCEPT !.sub = e.sub, !.customer = TRUE, !.co = "completed", !.rev = @ + 1,
                           !.lapsed = IF Different(e) \/ row.lastEvent = 0 THEN FALSE ELSE @,
                           !.lastEvent = IF Different(e) THEN 0 ELSE @])

Newer(e) == row.lastEvent = 0 \/ e.created > row.lastEvent

NeverAdoptable(e) == FALSE

\* A cancelled row whose subscription a finished checkout has just bound.
AdoptableCheckoutBinding(e) ==
    /\ row.status = "cancelled" /\ row.sub = e.sub /\ row.co = "completed"
    /\ e.type # "deleted" /\ Newer(e)

\* Variants of the code that the properties below must reject.
OnlyNewerUpdates(e, stale) == ~Different(e) /\ (e.type = "deleted" \/ Newer(e))

\* May this lifecycle event write the row?
CanUpdate(e, stale) ==
    \/ /\ ~Different(e)
       /\ \/ e.type \in Snapshot /\ ~stale /\ (row.lastEvent = 0 \/ e.created >= row.lastEvent)
          \/ e.type = "deleted"
          \/ Newer(e)
       /\ ~(row.status = "cancelled" /\ row.sub = e.sub /\ e.type # "deleted" /\ ~AdoptableCheckoutBinding(e))
    \/ Different(e) /\ row.status \in Terminal /\ Newer(e)

LifecycleEvent(e, seen, stale) ==
    IF ~CanUpdate(e, stale) THEN row
    ELSE LET r == IF seen.status \in Terminal THEN ClearOp(ClearCheckout(row)) ELSE row IN
         Touch([r EXCEPT !.customer = TRUE, !.sub = e.sub, !.status = seen.status, !.cape = seen.cape,
                         !.rev = @ + 1, !.lapsed = FALSE,
                         !.lastEvent = IF e.created > @ THEN e.created ELSE @])

\* A variant of the code that the properties below must reject.
NeverChanged(p) == FALSE

\* BILLING_SNAPSHOT_CHANGED: the row moved on since the revision was read.
SnapshotChanged(p) ==
    /\ events[req[p].event].type # "deleted" /\ ~req[p].stale
    /\ row.rev # req[p].rev

applyEvent(p) ==
    /\ At(p, "hook", "apply")
    /\ LET i == req[p].event
           e == events[i]
       IN
       IF i \in processed \/ SnapshotChanged(p) THEN UNCHANGED <<row, processed>>
       ELSE /\ row' = IF e.type = "completed" THEN CheckoutCompleted(e, req[p].seen)
                      ELSE LifecycleEvent(e, req[p].seen, req[p].stale)
            /\ processed' = processed \cup {i}
    /\ End(p)
    /\ UNCHANGED <<stripe, now, last, settled, stops>>

-----------------------------------------------------------------------------
\* A request stops: its process dies, Stripe does not answer, it lost its authority.
stop(p) ==
    /\ req[p] # Idle /\ stops < MaxStops
    /\ stops' = stops + 1
    /\ End(p)
    /\ UNCHANGED <<row, stripe, processed, now, last, settled>>

Progress(p) ==
    \/ decide(p) \/ retrieveSubscription(p) \/ applyVerified(p) \/ reconcileList(p) \/ adopt(p)
    \/ rotate(p) \/ ensureCustomer(p) \/ attemptFence(p) \/ createSession(p)
    \/ finalizeCheckout(p) \/ releaseIntent(p)
    \/ mutateSubscription(p) \/ finalizeOperation(p) \/ releaseOperation(p)
    \/ fetchSnapshot(p) \/ applyEvent(p)

Next ==
    \/ \E p \in Procs : checkout(p) \/ claim(p) \/ Progress(p) \/ stop(p)
    \/ \E p \in Procs, i \in 1..MaxEvents : deliver(p, i)
    \/ \E k \in DOMAIN sessions : pay(k)
    \/ \E s \in DOMAIN subs : change(s)
    \/ tick \/ lapse

Spec == Init /\ [][Next]_vars

Symmetry == Permutations(Procs)

-----------------------------------------------------------------------------
Statuses == {"active", "past_due", "paused", "cancelled"}

\* Types, and no intent or claim without its key (checkout/route.ts:330, billing-operation.ts:137).
TypeOK ==
    /\ row.status \in Statuses /\ row.co \in {"none", "creating", "open", "completed"}
    /\ row.sub \in {0} \cup DOMAIN subs
    /\ row.co \in {"creating", "open"} => row.key \in 1..last /\ row.plan \in Plans
    /\ (row.op = 0) = (row.opType = "none")
    /\ processed \subseteq DOMAIN events
    /\ DOMAIN sessions \subseteq 1..last

\* What the customer could be charged for.
Chargeable == {s \in DOMAIN subs : subs[s].status \notin Terminal}
Open == {k \in DOMAIN sessions : Payable(k)}

(***************************************************************************)
(* Never a second thing to pay: while a subscription has not ended or a    *)
(* Checkout Session can be paid, no other session is open                  *)
(* (checkout/route.ts:28 and :322).                                        *)
(***************************************************************************)
NoSecondPayable == Cardinality(Chargeable) + Cardinality(Open) <= 1

Quiet == \A p \in Procs : req[p] = Idle
Synced == Quiet /\ processed = DOMAIN events

(***************************************************************************)
(* Once every event is processed and no request runs, the row says what    *)
(* Stripe says, whatever the order of delivery (webhook/route.ts:372).     *)
(***************************************************************************)
SyncedAgrees ==
    Synced /\ Chargeable # {} /\ row.op = 0 =>
        \E s \in Chargeable : row.sub = s /\ row.status = subs[s].status /\ row.cape = subs[s].cape

(***************************************************************************)
(* Without a pending claim, Stripe holds what the last finalized operation *)
(* asked for: no late retry of an older request changes it afterwards      *)
(* (billing-operation.ts:24).                                              *)
(***************************************************************************)
SettledHolds ==
    row.op = 0 /\ row.sub # 0 /\ subs[row.sub].status = "active" =>
        subs[row.sub].cape = settled

(***************************************************************************)
(* No event of a running subscription is refused for ever: one that meets  *)
(* a moving row is taken by a later delivery (webhook/route.ts:508).       *)
(***************************************************************************)
EventsDrain ==
    \A i \in 1..MaxEvents :
        i \in DOMAIN events ~> i \in processed \/ (i \in DOMAIN events /\ events[i].sub \notin Chargeable)

=============================================================================
