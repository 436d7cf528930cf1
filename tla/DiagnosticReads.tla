--------------------------- MODULE DiagnosticReads ---------------------------
(***************************************************************************)
(* The guarded reads of health and diagnostics pages: a circuit breaker    *)
(* (src/lib/circuit-breaker.ts) around a bounded query runner              *)
(* (src/lib/bounded-query.ts), as src/db/client.ts combines them.  A read  *)
(* whose caller gave up stays in the database until it settles and keeps   *)
(* its slot.  A call remembers the breaker's generation; it is kept here   *)
(* as the flag "stale", raised when the generation moves on.               *)
(***************************************************************************)
EXTENDS Integers, FiniteSets, FiniteSetsExt

CONSTANTS
  Reads,            \* reads issued at once
  failureThreshold,
  maximum           \* the runner's slots

LimitsArePositive == failureThreshold \in Nat \ {0} /\ maximum \in Nat \ {0}

VARIABLES
  state,        \* "closed" | "open" | "half-open"
  failureCount, \* consecutive failures, counted up to the threshold
  cooled,       \* the reset timeout has passed since the breaker opened
  probing,      \* halfOpenProbeInFlight
  read,         \* each read: [at, probe, stale]
  outstanding,  \* the runner's slot counter
  healthy       \* the database answers

vars == <<state, failureCount, cooled, probing, read, outstanding, healthy>>

Idle == [at |-> "idle", probe |-> FALSE, stale |-> FALSE]

Init ==
  /\ state = "closed" /\ failureCount = 0 /\ cooled = FALSE /\ probing = FALSE
  /\ read = [r \in Reads |-> Idle]
  /\ outstanding = 0 /\ healthy \in BOOLEAN

-----------------------------------------------------------------------------
\* getState: an open breaker turns half-open once the timeout has passed.
getState == IF state = "open" /\ cooled THEN "half-open" ELSE state

\* A variant of the code that the properties below must reject.
StaleResultCounts(c) == FALSE

\* A result of an older generation is ignored.
ignored(c) == c.stale

\* onSuccess.
onSuccess ==
  /\ state' = "closed" /\ failureCount' = 0 /\ probing' = FALSE /\ UNCHANGED cooled

\* A variant of the code that the properties below must reject.
OpensKeepingProbe == probing

\* onFailure clears the probe when it opens; otherwise finally does, if this call was it.
probeAfterOpening == FALSE

\* onFailure: reaching the threshold opens the breaker and starts a new generation, in
\* which every call still running is stale.
onFailure(c, others) ==
  LET n == Min({failureCount + 1, failureThreshold})
      opens == n >= failureThreshold
  IN /\ failureCount' = n
     /\ state' = IF opens THEN "open" ELSE getState
     /\ cooled' = IF opens THEN FALSE ELSE cooled
     /\ probing' = IF opens THEN probeAfterOpening ELSE (probing /\ ~c.probe)
     /\ read' = [r \in Reads |-> IF opens /\ others[r].at = "running" THEN [others[r] EXCEPT !.stale = TRUE] ELSE others[r]]

unchangedBreaker == UNCHANGED <<state, failureCount, cooled, probing>>

\* A variant of the code that the properties below must reject.
AdmitAllProbes == getState # "open"

\* execute: an open breaker refuses, and a half-open one admits a single probe.
admitted == getState # "open" /\ ~(getState = "half-open" /\ probing)

\* execute: refused; getState has still moved an open breaker to half-open.
refused(r) ==
  /\ read[r].at = "idle" /\ ~admitted
  /\ state' = getState
  /\ UNCHANGED <<failureCount, cooled, probing, read, outstanding, healthy>>

\* A variant of the code that the properties below must reject.
OneSlotTooMany == outstanding <= maximum

slotFree == outstanding < maximum

\* execute: the runner has a slot.
started(r) ==
  /\ read[r].at = "idle" /\ admitted /\ slotFree
  /\ state' = getState
  /\ probing' = (probing \/ getState = "half-open")
  /\ read' = [read EXCEPT ![r] = [at |-> "running", probe |-> getState = "half-open", stale |-> FALSE]]
  /\ outstanding' = outstanding + 1
  /\ UNCHANGED <<failureCount, cooled, healthy>>

\* execute: the runner is full; its rejection is a failure of this call like any other.
overloaded(r) ==
  /\ read[r].at = "idle" /\ admitted /\ ~slotFree
  /\ onFailure([Idle EXCEPT !.probe = (getState = "half-open")], read)
  /\ UNCHANGED <<outstanding, healthy>>

\* The query answers while its caller waits.
answered(r) ==
  /\ read[r].at = "running" /\ healthy
  /\ read' = [read EXCEPT ![r] = Idle]
  /\ outstanding' = outstanding - 1
  /\ \/ ~ignored(read[r]) /\ onSuccess
     \/ ignored(read[r]) /\ unchangedBreaker
  /\ UNCHANGED healthy

\* The query fails while its caller waits.
failed(r) ==
  /\ read[r].at = "running" /\ ~healthy
  /\ \/ ~ignored(read[r]) /\ onFailure(read[r], [read EXCEPT ![r] = Idle])
     \/ ignored(read[r]) /\ unchangedBreaker /\ read' = [read EXCEPT ![r] = Idle]
  /\ outstanding' = outstanding - 1
  /\ UNCHANGED healthy

\* A variant of the code that the properties below must reject.
FreeSlotOnTimeout == outstanding - 1

\* The slot of a read whose caller gave up stays taken.
slotsAfterTimeout == outstanding

\* The caller's timeout: a failure of the call, while the query goes on.
timedOut(r) ==
  /\ read[r].at = "running" /\ ~healthy
  /\ LET after == [read EXCEPT ![r] = [Idle EXCEPT !.at = "abandoned"]]
     IN \/ ~ignored(read[r]) /\ onFailure(read[r], after)
        \/ ignored(read[r]) /\ unchangedBreaker /\ read' = after
  /\ outstanding' = slotsAfterTimeout
  /\ UNCHANGED healthy

\* An abandoned query settles in the end (the server's own statement timeout).
settled(r) ==
  /\ read[r].at = "abandoned"
  /\ read' = [read EXCEPT ![r] = Idle]
  /\ outstanding' = outstanding - 1
  /\ unchangedBreaker /\ UNCHANGED healthy

coolDown ==
  /\ state = "open" /\ ~cooled /\ cooled' = TRUE
  /\ UNCHANGED <<state, failureCount, probing, read, outstanding, healthy>>

databaseChanges ==
  /\ healthy' = ~healthy
  /\ UNCHANGED <<state, failureCount, cooled, probing, read, outstanding>>

Asked(r) == refused(r) \/ started(r) \/ overloaded(r)
Ended(r) == answered(r) \/ failed(r) \/ timedOut(r) \/ settled(r)

Next == (\E r \in Reads : Asked(r) \/ Ended(r)) \/ coolDown \/ databaseChanges

Spec == Init /\ [][Next]_vars

-----------------------------------------------------------------------------
InDatabase == {r \in Reads : read[r].at # "idle"}

\* The type invariant of the guarded reads.
TypeOK ==
  /\ state \in {"closed", "open", "half-open"}
  /\ failureCount \in 0..failureThreshold /\ outstanding \in 0..maximum
  /\ cooled \in BOOLEAN /\ probing \in BOOLEAN /\ healthy \in BOOLEAN
  /\ \A r \in Reads : read[r].at \in {"idle", "running", "abandoned"}

\* The runner's counter is the number of queries really in the database, those whose
\* callers gave up included, so a hung database never holds more than the limit.
SlotsAreReal == outstanding = Cardinality(InDatabase) /\ Cardinality(InDatabase) <= maximum

\* A recovering database meets one trial read at a time.
OneProbe == Cardinality({r \in Reads : read[r].at = "running" /\ read[r].probe /\ ~read[r].stale}) <= 1

\* The half-open breaker is never stranded: while it refuses reads because a probe is
\* running, that probe really runs and its result will be heard.
ProbeNotStranded ==
  state = "half-open" /\ probing =>
    \E r \in Reads : read[r].at = "running" /\ read[r].probe /\ ~read[r].stale

\* The bounded runner counts what is in the database, and the breaker lets one probe
\* through at a time and hears its result.
BreakerSafe == TypeOK /\ SlotsAreReal /\ OneProbe /\ ProbeNotStranded

\* Only evidence gathered after the breaker opened closes it: a read that began before
\* the outage was noticed never does, however late its answer comes.
ClosedByProbe ==
  state # "closed" /\ state' = "closed" =>
    \E r \in Reads : read[r].at = "running" /\ read'[r].at = "idle" /\ read[r].probe

\* Once the database stays healthy, the breaker closes again and again reads get through.
BreakerRecovers == <>[]healthy => []<>(state = "closed")
=============================================================================
