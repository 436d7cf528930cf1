------------------------------ MODULE RateLimit ------------------------------
(***************************************************************************)
(* The database-backed limiter of sign-in, pairing and WebSocket-upgrade   *)
(* attempts (src/lib/auth-rate-limit.ts, src/lib/ws-rate-limit.ts).  Each  *)
(* attempt is one transaction of any gateway process: it reads the         *)
(* database clock, makes sure its bucket rows exist, locks them in key     *)
(* order, decides, and writes.  A successful sign-in deletes the rows.     *)
(*                                                                         *)
(* Keys are numbers in their sort order; thresholds, durations and the     *)
(* window are scaled down.                                                 *)
(***************************************************************************)
EXTENDS Integers, FiniteSets, SequencesExt

CONSTANTS
  Procs,       \* attempts running at once
  Keys,        \* bucket keys, numbered in their sort order
  Wanted,      \* Wanted[p]: the keys of the attempt process p makes
  Thresholds,  \* Thresholds[k]: the lock thresholds of the key's curve
  Durations,   \* LOCK_DURATIONS_MS, one longer than the thresholds
  Window,      \* AUTH_RATE_WINDOW_MS
  Retention,   \* AUTH_RATE_RETENTION_MS
  MaxTime,     \* bound on the database clock
  Free         \* the row is not locked

CurvesFit == \A k \in Keys : Len(Thresholds[k]) + 1 = Len(Durations)

VARIABLES
  now,    \* the database clock
  row,    \* each key's row: [there, failures, start, until, updated]
  lock,   \* the transaction that holds each row
  tx,     \* each attempt: [step, clock, mine, seen, got]: the rows it created,
          \* the keys it found and what it read
  spent   \* history: the attempts let through on each key, as [clock, until]

vars == <<now, row, lock, tx, spent>>

NoRow == [there |-> FALSE, failures |-> 0, start |-> 0, until |-> 0, updated |-> 0]
Idle == [step |-> "idle", clock |-> 0, mine |-> {}, seen |-> {}, got |-> [k \in Keys |-> NoRow]]

Init ==
  /\ now = 0
  /\ row = [k \in Keys |-> NoRow]
  /\ lock = [k \in Keys |-> Free]
  /\ tx = [p \in Procs |-> Idle]
  /\ spent = [k \in Keys |-> <<>>]

-----------------------------------------------------------------------------
\* A variant of the code that the properties below must reject.
LockOneLater(k, failures) ==
  Durations[1 + Cardinality({i \in DOMAIN Thresholds[k] : failures > Thresholds[k][i]})]

\* lockDurationFor: the first threshold that is still above the count selects.
lockDurationFor(k, failures) ==
  Durations[1 + Cardinality({i \in DOMAIN Thresholds[k] : failures >= Thresholds[k][i]})]

\* The transaction begins with the database clock.
readClock(p) ==
  /\ tx[p].step = "idle"
  /\ tx' = [tx EXCEPT ![p] = [Idle EXCEPT !.step = "insert", !.clock = now]]
  /\ UNCHANGED <<now, row, lock, spent>>

\* INSERT ... ON CONFLICT DO NOTHING: a row this creates is the transaction's own, and
\* waits for another transaction that is creating the same one.
insertRows(p) ==
  LET missing == {k \in Wanted[p] : ~row[k].there}
  IN /\ tx[p].step = "insert"
     /\ \A k \in missing : lock[k] = Free
     /\ row' = [k \in Keys |-> IF k \in missing
                               THEN [NoRow EXCEPT !.there = TRUE, !.start = tx[p].clock, !.updated = tx[p].clock]
                               ELSE row[k]]
     /\ lock' = [k \in Keys |-> IF k \in missing THEN p ELSE lock[k]]
     /\ tx' = [tx EXCEPT ![p].step = "lock", ![p].mine = missing]
     /\ UNCHANGED <<now, spent>>

\* A variant of the code that the properties below must reject.
AnyOrder(p, k) == TRUE

\* ORDER BY key FOR UPDATE: rows are locked in key order.
inOrder(p, k) == \A j \in Wanted[p] : j < k => j \in tx[p].seen \/ ~row[j].there

\* A variant of the code that the properties below must reject.
PlainSelect(p, k) == lock

\* FOR UPDATE.
forUpdate(p, k) == [lock EXCEPT ![k] = p]

lockRow(p, k) ==
  /\ tx[p].step = "lock" /\ k \in Wanted[p] \ tx[p].seen
  /\ row[k].there /\ lock[k] \in {Free, p} /\ inOrder(p, k)
  /\ lock' = forUpdate(p, k)
  /\ tx' = [tx EXCEPT ![p].seen = @ \cup {k}, ![p].got[k] = row[k]]
  /\ UNCHANGED <<now, row, spent>>

Unlocked(p) == [k \in Keys |-> IF lock[k] = p THEN Free ELSE lock[k]]

\* A variant of the code that the properties below must reject.
LockedWithSlack(p) == {k \in tx[p].seen : tx[p].got[k].until > tx[p].clock + 1}

Locked(p) == {k \in tx[p].seen : tx[p].got[k].until > tx[p].clock}
\* A row deleted after the insert is not found and not counted.
Ready(p) == tx[p].step = "lock" /\ \A k \in Wanted[p] : k \in tx[p].seen \/ ~row[k].there

\* A successful sign-in removed every row in between: the sign-in reservation fails on the
\* empty result, the upgrade reservation lets the attempt through; neither writes.
bucketsGone(p) ==
  /\ Ready(p) /\ tx[p].seen = {}
  /\ tx' = [tx EXCEPT ![p] = Idle]
  /\ lock' = Unlocked(p)
  /\ UNCHANGED <<now, row, spent>>

\* blockedDecision: some bucket is locked; nothing is written.
blocked(p) ==
  /\ Ready(p) /\ Locked(p) # {}
  /\ tx' = [tx EXCEPT ![p] = Idle]
  /\ lock' = Unlocked(p)
  /\ UNCHANGED <<now, row, spent>>

decide(p) ==
  /\ Ready(p) /\ tx[p].seen # {} /\ Locked(p) = {}
  /\ tx' = [tx EXCEPT ![p].step = "write"]
  /\ UNCHANGED <<now, row, lock, spent>>

windowExpired(got, clock) == got.start < clock - Window

\* A variant of the code that the properties below must reject.
CutoffAsStart(k, got, clock) ==
  [there |-> TRUE, failures |-> got.failures + 1, start |-> clock - Window, until |-> 0, updated |-> clock]

\* The row the attempt leaves behind, from the row it read.
Counted(k, got, clock) ==
  LET fresh == windowExpired(got, clock)
      attempts == IF fresh THEN 1 ELSE got.failures + 1
      lockMs == lockDurationFor(k, attempts)
  IN [there |-> TRUE, failures |-> attempts,
      start |-> IF fresh THEN clock ELSE got.start,
      until |-> IF lockMs > 0 THEN clock + lockMs ELSE 0,
      updated |-> clock]

\* allowedDecision: every bucket found counts the attempt.
allowed(p) ==
  LET clock == tx[p].clock
      left == [k \in tx[p].seen |-> Counted(k, tx[p].got[k], clock)]
      before(k) == IF windowExpired(tx[p].got[k], clock) THEN <<>> ELSE spent[k]
  IN /\ tx[p].step = "write"
     /\ row' = left @@ row
     /\ spent' = [k \in tx[p].seen |-> Append(before(k), [clock |-> clock, until |-> left[k].until])] @@ spent
     /\ tx' = [tx EXCEPT ![p] = Idle]
     /\ lock' = Unlocked(p)
     /\ UNCHANGED now

\* recordAuthSuccess, recordPairingSuccess, recordWsUpgradeSuccess: the buckets start over.
recordSuccess(p) ==
  /\ tx[p].step = "idle" /\ \A k \in Wanted[p] : lock[k] = Free
  /\ \E k \in Wanted[p] : row[k].there
  /\ row' = [k \in Keys |-> IF k \in Wanted[p] THEN NoRow ELSE row[k]]
  /\ spent' = [k \in Keys |-> IF k \in Wanted[p] THEN <<>> ELSE spent[k]]
  /\ UNCHANGED <<now, lock, tx>>

\* A variant of the code that the properties below must reject.
IdleRow(k) == row[k].there /\ row[k].start < now

expiredRow(k) == row[k].there /\ row[k].updated < now - Retention

cleanupAuthRateLimits ==
  LET gone == {k \in Keys : expiredRow(k) /\ lock[k] = Free}
  IN /\ gone # {}
     /\ row' = [k \in Keys |-> IF k \in gone THEN NoRow ELSE row[k]]
     /\ spent' = [k \in Keys |-> IF k \in gone THEN <<>> ELSE spent[k]]
     /\ UNCHANGED <<now, lock, tx>>

\* The process or its connection dies: the transaction is rolled back.  Rows it created
\* disappear with it.
rollback(p) ==
  /\ tx[p].step \in {"lock", "write"}
  /\ row' = [k \in Keys |-> IF k \in tx[p].mine THEN NoRow ELSE row[k]]
  /\ tx' = [tx EXCEPT ![p] = Idle]
  /\ lock' = Unlocked(p)
  /\ UNCHANGED <<now, spent>>

tick == now < MaxTime /\ now' = now + 1 /\ UNCHANGED <<row, lock, tx, spent>>

Attempt(p) ==
  \/ readClock(p) \/ insertRows(p) \/ (\E k \in Keys : lockRow(p, k))
  \/ decide(p) \/ blocked(p) \/ bucketsGone(p) \/ allowed(p)

Next ==
  \/ \E p \in Procs : Attempt(p) \/ recordSuccess(p) \/ rollback(p)
  \/ cleanupAuthRateLimits
  \/ tick

Spec == Init /\ [][Next]_vars

-----------------------------------------------------------------------------
\* The type invariant of the limiter.
TypeOK ==
  /\ now \in 0..MaxTime
  /\ \A k \in Keys : row[k].failures \in Nat /\ row[k].start \in 0..MaxTime /\ lock[k] \in Procs \cup {Free}
  /\ \A p \in Procs : tx[p].step \in {"idle", "insert", "lock", "write"} /\ tx[p].seen \subseteq Wanted[p]

\* No attempt is lost: the count the thresholds are compared with is exactly the number
\* of attempts let through since the bucket started over, however many gateway
\* processes reserve at once.
NoLostAttempt == \A k \in Keys : row[k].there => row[k].failures = Len(spent[k])

\* A lock holds for its whole duration: of two attempts let through on one bucket, the
\* later one read a clock at or past the lock the earlier one set.
LockHolds ==
  \A k \in Keys : \A i, j \in DOMAIN spent[k] : i < j => spent[k][i].until <= spent[k][j].clock

\* The curve bites: every attempt at or past the first threshold left a lock behind it.
CurveBites ==
  \A k \in Keys : \A i \in DOMAIN spent[k] :
    i >= Thresholds[k][1] => spent[k][i].until > spent[k][i].clock

\* Attempts never wait for each other in a cycle, whichever buckets they share.
WaitsFor(p, q) == \E k \in Wanted[p] : tx[p].step \in {"insert", "lock"} /\ k \notin tx[p].seen /\ lock[k] = q /\ p # q
NoLockCycle == \A p, q \in Procs : ~(WaitsFor(p, q) /\ WaitsFor(q, p))

=============================================================================
