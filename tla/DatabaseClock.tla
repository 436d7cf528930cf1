--------------------------- MODULE DatabaseClock ---------------------------
(***************************************************************************)
(* The server's view of the database clock (src/lib/database-clock.ts):    *)
(* an offset measured at most once per TTL by one probe at a time, and     *)
(* used by every decision the process takes about timestamps the database  *)
(* wrote.  The database clock is the time of the model; the host's clock   *)
(* is behind it by lag, which an administrator or NTP may step.            *)
(***************************************************************************)
EXTENDS Integers

CONSTANTS
  MaxTime,   \* the behaviours end here
  Ttl,       \* CLOCK_TTL_MS
  Timeout,   \* CLOCK_TIMEOUT_MS
  Callers,   \* requests that ask for a calibrated clock
  Lags,      \* the lags the host's clock can have
  MaxSteps   \* steps of the host's clock

ClockConstants == MaxTime \in Nat /\ Ttl \in Nat \ {0} /\ Timeout \in Nat \ {0} /\ MaxSteps \in Nat

VARIABLES
  now, lag, steps,
  offset,       \* cachedOffsetMs, twice its value so that midpoints are whole; None until measured
  lastAttempt,  \* lastAttemptAtHostMs
  probe,        \* inFlightCalibration: None, or [started, real, read, lag] (host and true time)
  caller,       \* "idle" | "waiting" | "done"
  measured      \* true times of the measurement in use and of the last attempt, and the lag it saw

vars == <<now, lag, steps, offset, lastAttempt, probe, caller, measured>>

None == -99
NoProbe == [started |-> None, real |-> None, read |-> None, lag |-> None]
NotMeasured == [at |-> None, tried |-> None, lag |-> None]
host == now - lag

Init ==
  /\ now = 0 /\ lag \in Lags /\ steps = 0
  /\ offset = None /\ lastAttempt = None   \* the epoch: longer ago than any TTL
  /\ probe = NoProbe /\ caller = [c \in Callers |-> "idle"]
  /\ measured = NotMeasured

\* A variant of the code that the properties below must reject.
FailuresNotThrottled == offset # None /\ host - lastAttempt < Ttl

\* A failed attempt is throttled like a successful one.
fresh == lastAttempt # None /\ host - lastAttempt < Ttl

\* A variant of the code that the properties below must reject.
OwnProbePerCaller(c) ==
  /\ caller[c] = "idle"
  /\ IF fresh
     THEN caller' = [caller EXCEPT ![c] = "done"] /\ UNCHANGED probe
     ELSE /\ caller' = [caller EXCEPT ![c] = "waiting"]
          /\ probe' = [started |-> host, real |-> now, read |-> None, lag |-> lag]
  /\ UNCHANGED <<now, lag, steps, offset, lastAttempt, measured>>

\* refreshClockSkew: answered from the cache, or joined to the probe in flight, or a new probe.
refreshClockSkew(c) ==
  /\ caller[c] = "idle"
  /\ IF fresh
     THEN caller' = [caller EXCEPT ![c] = "done"] /\ UNCHANGED probe
     ELSE /\ caller' = [caller EXCEPT ![c] = "waiting"]
          /\ probe' = IF probe # NoProbe THEN probe
                      ELSE [started |-> host, real |-> now, read |-> None, lag |-> lag]
  /\ UNCHANGED <<now, lag, steps, offset, lastAttempt, measured>>

\* The database evaluates clock_timestamp().
databaseNowMs ==
  /\ probe # NoProbe /\ probe.read = None
  /\ probe' = [probe EXCEPT !.read = now]
  /\ UNCHANGED <<now, lag, steps, offset, lastAttempt, caller, measured>>

Answered == [c \in Callers |-> IF caller[c] = "waiting" THEN "done" ELSE caller[c]]

\* A variant of the code that the properties below must reject.
FromStart(p, finished) == 2 * (p.read - p.started)

\* Twice databaseMs - hostMidpointMs.
measuredOffset(p, finished) == 2 * p.read - (p.started + finished)

\* The answer is back in time.
calibrated ==
  /\ probe.read # None
  /\ offset' = measuredOffset(probe, host)
  /\ measured' = [at |-> now, tried |-> now, lag |-> IF probe.lag = lag THEN lag ELSE None]
  /\ lastAttempt' = host /\ probe' = NoProbe /\ caller' = Answered
  /\ UNCHANGED <<now, lag, steps>>

\* A variant of the code that the properties below must reject.
ForgetOffset == None

\* A failed calibration keeps the last offset.
offsetAfterFailure == offset

\* A variant of the code that the properties below must reject.
FailsForOne ==
  /\ probe # NoProbe
  /\ lastAttempt' = host /\ probe' = NoProbe
  /\ \E c \in Callers : caller[c] = "waiting" /\ caller' = [caller EXCEPT ![c] = "done"]
  /\ offset' = offsetAfterFailure
  /\ measured' = [measured EXCEPT !.tried = now]
  /\ UNCHANGED <<now, lag, steps>>

\* withTimeout, or the query fails: the wait is abandoned.
calibrationFails ==
  /\ probe # NoProbe
  /\ lastAttempt' = host /\ probe' = NoProbe /\ caller' = Answered
  /\ offset' = offsetAfterFailure
  /\ measured' = [measured EXCEPT !.tried = now]
  /\ UNCHANGED <<now, lag, steps>>

\* A variant of the code that the properties below must reject.
RequestLost(c) ==
  /\ caller[c] = "done" /\ caller' = [caller EXCEPT ![c] = "lost"]
  /\ UNCHANGED <<now, lag, steps, offset, lastAttempt, probe, measured>>

\* The request is over.
requestOver(c) ==
  /\ caller[c] = "done" /\ caller' = [caller EXCEPT ![c] = "idle"]
  /\ UNCHANGED <<now, lag, steps, offset, lastAttempt, probe, measured>>

\* The timer of withTimeout does not let a probe outlive the timeout.
tick ==
  /\ now < MaxTime
  /\ probe # NoProbe => now - probe.real < Timeout
  /\ now' = now + 1
  /\ UNCHANGED <<lag, steps, offset, lastAttempt, probe, caller, measured>>

\* The host's clock is stepped.
stepClock ==
  /\ steps < MaxSteps
  /\ \E l \in Lags \ {lag} : lag' = l
  /\ steps' = steps + 1
  /\ UNCHANGED <<now, offset, lastAttempt, probe, caller, measured>>

Next ==
  \/ \E c \in Callers : refreshClockSkew(c) \/ requestOver(c)
  \/ databaseNowMs \/ calibrated \/ calibrationFails \/ tick \/ stepClock

Spec == Init /\ [][Next]_vars

\* gatewayNowMs, twice its value.
gatewayNow2 == 2 * host + (IF offset = None THEN 0 ELSE offset)

-----------------------------------------------------------------------------
TypeOK ==
  /\ now \in 0 .. MaxTime /\ lag \in Lags /\ steps \in 0 .. MaxSteps
  /\ caller \in [Callers -> {"idle", "waiting", "done"}]
  /\ probe.read = None \/ probe.started # None

Abs(x) == IF x < 0 THEN -x ELSE x

\* Once calibrated, and until the host's clock is stepped, the process's clock is within half the
\* probe's round trip, so half the timeout, of the database's clock.
CalibratedClockIsClose ==
  (offset # None /\ measured.lag = lag) => Abs(gatewayNow2 - 2 * now) <= Timeout

\* A request that waits is waiting for a probe that is in flight: clearing the shared promise never
\* strands a caller that joined it.
WaitersHaveProbe == (\E c \in Callers : caller[c] = "waiting") => probe # NoProbe

\* The calibrated clock is close to the database's, and who waits for a calibration waits
\* for one that is in flight (database-clock.ts).
ClockIsClose == TypeOK /\ CalibratedClockIsClose /\ WaitersHaveProbe

=============================================================================
