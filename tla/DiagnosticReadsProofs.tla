----------------------- MODULE DiagnosticReadsProofs ------------------------
(***************************************************************************)
(* The guarded reads, for any number of reads, slots and failures before   *)
(* the breaker opens (circuit-breaker.ts, bounded-query.ts).               *)
(*                                                                         *)
(* The argument: whatever still runs when the breaker opens is of an older *)
(* generation, and from then on only probes start, one at a time. So while *)
(* the breaker is not closed a running read whose result counts is the     *)
(* probe, and the flag that keeps others out stands for it. That a failure *)
(* then opens the breaker at once rests on the failure count, which stays  *)
(* at the threshold until a success resets it.                             *)
(***************************************************************************)
EXTENDS DiagnosticReads, FiniteSetTheorems, TLAPS

LimitsFit == LimitsArePositive /\ IsFiniteSet(Reads)

Read == [at: {"idle", "running", "abandoned"}, probe: BOOLEAN, stale: BOOLEAN]

\* Its caller waits, and the breaker will hear its result.
Counts(c) == c.at = "running" /\ ~c.stale

\* What the breaker's state says of the reads R.
Generation(s, p, R) ==
  /\ s = "open" => ~p /\ \A r \in Reads : ~Counts(R[r])
  /\ s = "half-open" => \A r \in Reads : Counts(R[r]) => R[r].probe
  /\ s = "half-open" => (p <=> \E r \in Reads : Counts(R[r]))
  /\ s = "closed" => ~p /\ \A r \in Reads : Counts(R[r]) => ~R[r].probe
  /\ \A q, r \in Reads : Counts(R[q]) /\ Counts(R[r]) /\ R[q].probe /\ R[r].probe => q = r

Busy(R) == {r \in Reads : R[r].at # "idle"}

\* The inductive invariant.
IInv ==
  /\ state \in {"closed", "open", "half-open"}
  /\ failureCount \in 0..failureThreshold
  /\ cooled \in BOOLEAN /\ probing \in BOOLEAN /\ healthy \in BOOLEAN
  /\ read \in [Reads -> Read]
  /\ state # "closed" => failureCount = failureThreshold
  /\ Generation(state, probing, read)
  /\ outstanding = Cardinality(Busy(read)) /\ outstanding <= maximum

-----------------------------------------------------------------------------
(* The slots                                                               *)

\* The reads in the database are finitely many.
LEMMA BusyIsFinite ==
    ASSUME LimitsFit, NEW R
    PROVE  IsFiniteSet(Busy(R)) /\ Cardinality(Busy(R)) \in Nat
<1>1. Busy(R) \subseteq Reads
  BY DEF Busy
<1> QED
  BY <1>1, FS_Subset, FS_CardinalityType DEF LimitsFit

\* A read takes a slot.
LEMMA BusyMore ==
    ASSUME LimitsFit, NEW R, NEW Q, NEW r \in Reads, R[r].at = "idle", Q[r].at # "idle",
           \A q \in Reads \ {r} : Q[q].at = R[q].at
    PROVE  Cardinality(Busy(Q)) = Cardinality(Busy(R)) + 1
<1>1. Busy(Q) = Busy(R) \cup {r} /\ r \notin Busy(R)
  BY DEF Busy
<1> QED
  BY <1>1, BusyIsFinite, FS_AddElement

\* A read gives its slot back.
LEMMA BusyLess ==
    ASSUME LimitsFit, NEW R, NEW Q, NEW r \in Reads, R[r].at # "idle", Q[r].at = "idle",
           \A q \in Reads \ {r} : Q[q].at = R[q].at
    PROVE  Cardinality(Busy(Q)) = Cardinality(Busy(R)) - 1
<1>1. Busy(Q) = Busy(R) \ {r} /\ r \in Busy(R)
  BY DEF Busy
<1> QED
  BY <1>1, BusyIsFinite, FS_RemoveElement

\* A read that was given up keeps its slot.
LEMMA BusySame ==
    ASSUME NEW R, NEW Q, \A q \in Reads : (Q[q].at = "idle") <=> (R[q].at = "idle")
    PROVE  Busy(Q) = Busy(R)
BY DEF Busy

-----------------------------------------------------------------------------
(* A failure                                                               *)

\* The failure count stops at the threshold.
LEMMA CountedUpTo ==
    ASSUME LimitsFit, failureCount \in 0..failureThreshold
    PROVE  LET n == Min({failureCount + 1, failureThreshold})
           IN  n \in 0..failureThreshold /\ (failureCount = failureThreshold => n = failureThreshold)
<1> DEFINE S == {failureCount + 1, failureThreshold}
           n == Min(S)
<1>1. \E x \in S : \A y \in S : x <= y
  BY DEF LimitsFit, LimitsArePositive
<1>2. n \in S /\ \A y \in S : n <= y
  BY <1>1 DEF Min
<1> HIDE DEF n
<1>3. n \in 0..failureThreshold /\ (failureCount = failureThreshold => n = failureThreshold)
  BY <1>2 DEF LimitsFit, LimitsArePositive
<1> QED
  BY <1>3 DEF n

\* After a failure of call c the breaker and the reads are as they should be, whatever
\* happened to c itself: others are the reads with c taken out.
LEMMA FailureHolds ==
    ASSUME LimitsFit, IInv, NEW c \in Read, NEW others \in [Reads -> Read],
           onFailure(c, others),
           \A r \in Reads : Counts(others[r]) => others[r] = read[r]
    PROVE  /\ state' \in {"closed", "open", "half-open"} /\ failureCount' \in 0..failureThreshold
           /\ cooled' \in BOOLEAN /\ probing' \in BOOLEAN /\ read' \in [Reads -> Read]
           /\ state' # "closed" => failureCount' = failureThreshold
           /\ Generation(state', probing', read')
           /\ \A r \in Reads : read'[r].at = others[r].at
<1> DEFINE n == Min({failureCount + 1, failureThreshold})
           opens == n >= failureThreshold
<1>1. /\ n \in 0..failureThreshold /\ (failureCount = failureThreshold => n = failureThreshold)
      /\ failureThreshold \in Nat
  BY CountedUpTo DEF IInv, LimitsFit, LimitsArePositive
<1>2. /\ failureCount' = n
      /\ state' = IF opens THEN "open" ELSE getState
      /\ cooled' = IF opens THEN FALSE ELSE cooled
      /\ probing' = IF opens THEN FALSE ELSE (probing /\ ~c.probe)
      /\ read' = [r \in Reads |-> IF opens /\ others[r].at = "running"
                                  THEN [others[r] EXCEPT !.stale = TRUE] ELSE others[r]]
  BY DEF onFailure, probeAfterOpening
<1> HIDE DEF n
<1>3. CASE opens
  <2>1. n = failureThreshold
    BY <1>1, <1>3
  <2>2. \A r \in Reads : /\ read'[r] \in Read /\ read'[r].at = others[r].at
                         /\ ~Counts(read'[r])
    BY <1>2, <1>3 DEF Read, Counts
  <2>3. read' \in [Reads -> Read]
    BY <1>2, <1>3 DEF Read
  <2>4. Generation("open", FALSE, read')
    BY <2>2 DEF Generation
  <2>5. state' = "open" /\ probing' = FALSE /\ cooled' = FALSE
    BY <1>2, <1>3
  <2> QED
    BY <1>1, <1>2, <2>1, <2>2, <2>3, <2>4, <2>5
<1>4. CASE ~opens
  <2>1. n # failureThreshold /\ failureCount # failureThreshold
    BY <1>1, <1>4
  <2>2. state = "closed" /\ getState = "closed"
    BY <2>1 DEF IInv, getState
  <2>3. state' = "closed" /\ ~probing' /\ probing' \in BOOLEAN /\ cooled' \in BOOLEAN /\ read' = others
    BY <1>2, <1>4, <2>2 DEF IInv, Generation
  <2>4. Generation("closed", FALSE, others)
    BY <2>2 DEF IInv, Generation
  <2>5. Generation(state', probing', read')
    BY <2>3, <2>4 DEF Generation
  <2> QED
    BY <1>1, <1>2, <2>3, <2>5
<1> QED
  BY <1>3, <1>4

-----------------------------------------------------------------------------
(* The steps                                                               *)

\* getState only names the generation anew.
LEMMA GetStateHolds ==
    ASSUME IInv
    PROVE  /\ getState \in {"closed", "open", "half-open"}
           /\ getState # "closed" => failureCount = failureThreshold
           /\ Generation(getState, probing, read)
BY DEF IInv, getState, Generation

\* A read whose result does not count ends: nothing changes for the breaker.
LEMMA IgnoredHolds ==
    ASSUME IInv, NEW r \in Reads, ~Counts(read[r]), NEW c \in Read, ~Counts(c),
           read' = [read EXCEPT ![r] = c]
    PROVE  Generation(state, probing, read')
<1>1. \A q \in Reads : /\ Counts(read'[q]) <=> Counts(read[q])
                       /\ Counts(read[q]) => read'[q] = read[q]
  BY DEF IInv
<1> QED
  BY <1>1 DEF IInv, Generation

\* A read that is over, and one that was given up.
LEMMA IdleRead ==
    /\ Idle \in Read /\ Idle.at = "idle" /\ ~Counts(Idle)
    /\ [Idle EXCEPT !.at = "abandoned"] \in Read
    /\ [Idle EXCEPT !.at = "abandoned"].at = "abandoned"
    /\ \A b \in BOOLEAN : [Idle EXCEPT !.probe = b] \in Read
BY DEF Idle, Read, Counts

\* execute, up to the query: refused, started, or refused by a full runner.
LEMMA AskedHolds ==
    ASSUME LimitsFit, IInv, NEW r \in Reads, Asked(r)
    PROVE  IInv'
<1>1. CASE refused(r)
  BY <1>1, GetStateHolds DEF refused, IInv
<1>2. CASE started(r)
  <2> DEFINE c == [at |-> "running", probe |-> getState = "half-open", stale |-> FALSE]
  <2>1. /\ read[r].at = "idle" /\ getState # "open" /\ ~(getState = "half-open" /\ probing)
        /\ outstanding < maximum /\ state' = getState
        /\ probing' = (probing \/ getState = "half-open")
        /\ read' = [read EXCEPT ![r] = c] /\ outstanding' = outstanding + 1
        /\ UNCHANGED <<failureCount, cooled, healthy>>
    BY <1>2 DEF started, admitted, slotFree
  <2>2. c \in Read /\ c.at = "running" /\ Counts(c) /\ (c.probe <=> getState = "half-open")
    BY DEF Read, Counts
  <2> HIDE DEF c
  <2>3. /\ read' \in [Reads -> Read]
        /\ \A q \in Reads : read'[q] = IF q = r THEN c ELSE read[q]
    BY <2>1, <2>2 DEF IInv
  <2>4. Generation(getState, probing', read')
    <3>1. CASE getState = "closed"
      BY <2>1, <2>2, <2>3, <3>1, GetStateHolds DEF Generation
    <3>2. CASE getState = "half-open"
      <4>1. (\A q \in Reads : ~Counts(read[q])) /\ probing'
        BY <2>1, <3>2, GetStateHolds DEF Generation
      <4> QED
        BY <2>2, <2>3, <3>2, <4>1 DEF Generation
    <3> QED
      BY <2>1, <3>1, <3>2, GetStateHolds
  <2>5. Cardinality(Busy(read')) = Cardinality(Busy(read)) + 1
    BY <2>1, <2>2, <2>3, BusyMore
  <2>6. outstanding' = Cardinality(Busy(read')) /\ outstanding' <= maximum
    BY <2>1, <2>5, BusyIsFinite DEF IInv, LimitsFit, LimitsArePositive
  <2>7. probing' \in BOOLEAN
    BY <2>1
  <2> QED
    BY <2>1, <2>3, <2>4, <2>6, <2>7, GetStateHolds DEF IInv
<1>3. CASE overloaded(r)
  <2> DEFINE c == [Idle EXCEPT !.probe = (getState = "half-open")]
  <2>1. c \in Read /\ onFailure(c, read) /\ UNCHANGED <<outstanding, healthy>>
    BY <1>3, IdleRead DEF overloaded
  <2> HIDE DEF c
  <2>2. read \in [Reads -> Read]
    BY DEF IInv
  <2>3. /\ state' \in {"closed", "open", "half-open"} /\ failureCount' \in 0..failureThreshold
        /\ cooled' \in BOOLEAN /\ probing' \in BOOLEAN /\ read' \in [Reads -> Read]
        /\ state' # "closed" => failureCount' = failureThreshold
        /\ Generation(state', probing', read')
        /\ \A q \in Reads : read'[q].at = read[q].at
    BY <2>1, <2>2, FailureHolds
  <2>4. Busy(read') = Busy(read)
    BY <2>3, BusySame
  <2> QED
    BY <2>1, <2>3, <2>4 DEF IInv
<1> QED
  BY <1>1, <1>2, <1>3 DEF Asked

\* A read that leaves the database gives its slot back.
LEMMA SlotBack ==
    ASSUME LimitsFit, IInv, NEW r \in Reads, read[r].at # "idle", read'[r].at = "idle",
           \A q \in Reads \ {r} : read'[q].at = read[q].at, outstanding' = outstanding - 1
    PROVE  outstanding' = Cardinality(Busy(read')) /\ outstanding' <= maximum
<1>1. Cardinality(Busy(read')) = Cardinality(Busy(read)) - 1
  BY BusyLess
<1> QED
  BY <1>1, BusyIsFinite DEF IInv, LimitsFit, LimitsArePositive

\* A query answers, or settles after it was given up.
LEMMA AnsweredHolds ==
    ASSUME LimitsFit, IInv, NEW r \in Reads, answered(r) \/ settled(r)
    PROVE  IInv'
<1>1. /\ read[r].at # "idle" /\ read' = [read EXCEPT ![r] = Idle]
      /\ outstanding' = outstanding - 1 /\ UNCHANGED healthy
  BY DEF answered, settled
<1>2. /\ read' \in [Reads -> Read]
      /\ \A q \in Reads : read'[q] = IF q = r THEN Idle ELSE read[q]
  BY <1>1, IdleRead DEF IInv
<1>3. outstanding' = Cardinality(Busy(read')) /\ outstanding' <= maximum
  BY <1>1, <1>2, IdleRead, SlotBack
<1>4. CASE answered(r) /\ ~ignored(read[r]) /\ onSuccess
  <2>1. Counts(read[r])
    BY <1>4 DEF answered, ignored, Counts
  <2>2. \A q \in Reads : Counts(read'[q]) => ~read'[q].probe
    BY <1>2, <2>1, IdleRead DEF IInv, Generation
  <2>3. Generation("closed", FALSE, read')
    BY <1>2, <2>2, IdleRead DEF Generation
  <2>4. /\ state' = "closed" /\ failureCount' = 0 /\ probing' = FALSE /\ UNCHANGED cooled
    BY <1>4 DEF onSuccess
  <2>5. failureCount' \in 0..failureThreshold
    BY <2>4 DEF LimitsFit, LimitsArePositive
  <2>6. Generation(state', probing', read')
    BY <2>3, <2>4
  <2>7. probing' \in BOOLEAN /\ cooled' \in BOOLEAN /\ healthy' \in BOOLEAN
    BY <1>1, <2>4, Zenon DEF IInv
  <2> QED
    BY <1>2, <1>3, <2>4, <2>5, <2>6, <2>7, Zenon DEF IInv
<1>5. CASE (ignored(read[r]) \/ settled(r)) /\ unchangedBreaker
  <2>1. ~Counts(read[r])
    BY <1>5 DEF settled, ignored, Counts
  <2>2. Generation(state, probing, read')
    BY <1>1, <2>1, IdleRead, IgnoredHolds
  <2> QED
    BY <1>1, <1>2, <1>3, <1>5, <2>2 DEF IInv, unchangedBreaker
<1> QED
  BY <1>4, <1>5 DEF answered, settled

\* A call that fails or is given up: what becomes of the breaker, and of the other reads.
LEMMA CallFails ==
    ASSUME LimitsFit, IInv, NEW r \in Reads, read[r].at = "running", NEW c \in Read, ~Counts(c),
           \/ ~ignored(read[r]) /\ onFailure(read[r], [read EXCEPT ![r] = c])
           \/ ignored(read[r]) /\ unchangedBreaker /\ read' = [read EXCEPT ![r] = c]
    PROVE  /\ state' \in {"closed", "open", "half-open"} /\ failureCount' \in 0..failureThreshold
           /\ cooled' \in BOOLEAN /\ probing' \in BOOLEAN /\ read' \in [Reads -> Read]
           /\ state' # "closed" => failureCount' = failureThreshold
           /\ Generation(state', probing', read')
           /\ read'[r].at = c.at /\ \A q \in Reads \ {r} : read'[q].at = read[q].at
<1> DEFINE others == [read EXCEPT ![r] = c]
<1>1. /\ others \in [Reads -> Read] /\ read[r] \in Read
      /\ \A q \in Reads : others[q] = IF q = r THEN c ELSE read[q]
  BY DEF IInv
<1>2. CASE onFailure(read[r], others)
  <2> HIDE DEF others
  <2>1. \A q \in Reads : Counts(others[q]) => others[q] = read[q]
    BY <1>1
  <2> QED
    BY <1>1, <1>2, <2>1, FailureHolds
<1>3. CASE ignored(read[r]) /\ unchangedBreaker /\ read' = others
  <2>1. Generation(state, probing, read')
    BY <1>3, IgnoredHolds DEF ignored, Counts
  <2> QED
    BY <1>1, <1>3, <2>1 DEF IInv, unchangedBreaker
<1> QED
  BY <1>2, <1>3

\* A query fails, or its caller gives up.
LEMMA FailedHolds ==
    ASSUME LimitsFit, IInv, NEW r \in Reads, failed(r) \/ timedOut(r)
    PROVE  IInv'
<1>1. CASE failed(r)
  <2>1. /\ read[r].at = "running" /\ outstanding' = outstanding - 1 /\ UNCHANGED healthy
        /\ \/ ~ignored(read[r]) /\ onFailure(read[r], [read EXCEPT ![r] = Idle])
           \/ ignored(read[r]) /\ unchangedBreaker /\ read' = [read EXCEPT ![r] = Idle]
    BY <1>1 DEF failed
  <2>2. /\ state' \in {"closed", "open", "half-open"} /\ failureCount' \in 0..failureThreshold
        /\ cooled' \in BOOLEAN /\ probing' \in BOOLEAN /\ read' \in [Reads -> Read]
        /\ state' # "closed" => failureCount' = failureThreshold
        /\ Generation(state', probing', read')
        /\ read'[r].at = "idle" /\ \A q \in Reads \ {r} : read'[q].at = read[q].at
    BY <2>1, IdleRead, CallFails
  <2>3. outstanding' = Cardinality(Busy(read')) /\ outstanding' <= maximum
    BY <2>1, <2>2, SlotBack
  <2> QED
    BY <2>1, <2>2, <2>3 DEF IInv
<1>2. CASE timedOut(r)
  <2> DEFINE c == [Idle EXCEPT !.at = "abandoned"]
  <2>1. /\ read[r].at = "running" /\ outstanding' = outstanding /\ UNCHANGED healthy
        /\ \/ ~ignored(read[r]) /\ onFailure(read[r], [read EXCEPT ![r] = c])
           \/ ignored(read[r]) /\ unchangedBreaker /\ read' = [read EXCEPT ![r] = c]
    BY <1>2 DEF timedOut, slotsAfterTimeout
  <2>2. c \in Read /\ c.at = "abandoned" /\ ~Counts(c)
    BY IdleRead DEF Counts
  <2> HIDE DEF c
  <2>3. /\ state' \in {"closed", "open", "half-open"} /\ failureCount' \in 0..failureThreshold
        /\ cooled' \in BOOLEAN /\ probing' \in BOOLEAN /\ read' \in [Reads -> Read]
        /\ state' # "closed" => failureCount' = failureThreshold
        /\ Generation(state', probing', read')
        /\ read'[r].at = c.at /\ \A q \in Reads \ {r} : read'[q].at = read[q].at
    BY <2>1, <2>2, CallFails
  <2>4. Busy(read') = Busy(read)
    BY <2>1, <2>2, <2>3, BusySame
  <2> QED
    BY <2>1, <2>3, <2>4 DEF IInv
<1> QED
  BY <1>1, <1>2

-----------------------------------------------------------------------------
(* The theorems                                                            *)

\* The breaker is closed and nothing runs at first.
LEMMA InitHolds == ASSUME LimitsFit, Init PROVE IInv
<1>1. read \in [Reads -> Read] /\ \A r \in Reads : read[r].at = "idle" /\ ~Counts(read[r])
  BY IdleRead DEF Init
<1>2. Generation(state, probing, read)
  BY <1>1 DEF Init, Generation
<1>3. Busy(read) = {}
  BY <1>1 DEF Busy
<1>4. outstanding = Cardinality(Busy(read)) /\ outstanding <= maximum
  BY <1>3, FS_EmptySet DEF Init, LimitsFit, LimitsArePositive
<1>5. failureCount \in 0..failureThreshold
  BY DEF Init, LimitsFit, LimitsArePositive
<1>6. cooled \in BOOLEAN /\ probing \in BOOLEAN /\ healthy \in BOOLEAN
  BY Zenon DEF Init
<1> QED
  BY <1>1, <1>2, <1>4, <1>5, <1>6, Zenon DEF Init, IInv

\* Every step keeps the invariant.
LEMMA NextHolds == ASSUME LimitsFit, IInv, [Next]_vars PROVE IInv'
<1>1. CASE coolDown
  BY <1>1 DEF coolDown, IInv
<1>2. CASE databaseChanges
  BY <1>2 DEF databaseChanges, IInv
<1>3. CASE UNCHANGED vars
  BY <1>3 DEF vars, IInv
<1> QED
  BY <1>1, <1>2, <1>3, AskedHolds, AnsweredHolds, FailedHolds DEF Next, Ended

\* A set of which any two members are the same has at most one.
LEMMA AtMostOne ==
    ASSUME NEW S, \A q, r \in S : q = r
    PROVE  Cardinality(S) <= 1
<1>1. CASE S = {}
  BY <1>1, FS_EmptySet
<1>2. CASE S # {}
  <2>1. PICK r \in S : S = {r}
    BY <1>2
  <2>2. Cardinality({r}) = 1
    BY FS_Singleton
  <2> QED
    BY <2>1, <2>2
<1> QED
  BY <1>1, <1>2

\* The invariant of the breaker and its reads is inductive.
LEMMA ReadsInvariance == ASSUME LimitsFit PROVE Spec => []IInv
<1>1. Init => IInv
  BY InitHolds
<1>2. IInv /\ [Next]_vars => IInv'
  BY NextHolds
<1> QED
  BY <1>1, <1>2, PTL DEF Spec

\* The runner's counter is the number of queries in the database and within the limit, those
\* given up included; at most one probe runs at a time, and a half-open breaker that refuses
\* reads for the sake of a probe has one whose result it will hear.
THEOREM BreakerIsSafe == ASSUME LimitsFit PROVE Spec => []BreakerSafe
<1>1. ASSUME IInv PROVE BreakerSafe
  <2>1. SlotsAreReal
    BY <1>1 DEF IInv, SlotsAreReal, InDatabase, Busy
  <2>2. TypeOK
    BY <1>1, BusyIsFinite DEF IInv, TypeOK, Read, LimitsFit, LimitsArePositive
  <2>3. OneProbe
    BY <1>1, AtMostOne DEF IInv, Generation, Counts, OneProbe
  <2>4. ProbeNotStranded
    BY <1>1 DEF IInv, Generation, Counts, ProbeNotStranded
  <2> QED
    BY <2>1, <2>2, <2>3, <2>4 DEF BreakerSafe
<1> QED
  BY <1>1, ReadsInvariance, PTL

\* Only a read that began as a probe closes the breaker: the late success of one that began
\* before the outage was noticed never does.
THEOREM ProbesClose == ASSUME LimitsFit PROVE Spec => [][ClosedByProbe]_vars
<1>1. IInv /\ [Next]_vars => [ClosedByProbe]_vars
  <2> SUFFICES ASSUME IInv, Next, state # "closed", state' = "closed"
               PROVE  \E r \in Reads : read[r].at = "running" /\ read'[r].at = "idle" /\ read[r].probe
    BY DEF ClosedByProbe
  <2>1. getState # "closed"
    BY DEF getState
  <2>2. ASSUME NEW c, NEW others, onFailure(c, others) PROVE FALSE
    BY <2>1, <2>2 DEF onFailure
  <2>3. ~coolDown /\ ~databaseChanges /\ \A r \in Reads : ~Asked(r) /\ ~settled(r)
    BY <2>1, <2>2 DEF coolDown, databaseChanges, Asked, refused, started, overloaded, settled, unchangedBreaker
  <2>4. \A r \in Reads : ~failed(r) /\ ~timedOut(r)
    BY <2>2 DEF failed, timedOut, unchangedBreaker
  <2>5. PICK r \in Reads : answered(r)
    BY <2>3, <2>4 DEF Next, Ended
  <2>6. /\ Counts(read[r]) /\ read[r].at = "running" /\ read' = [read EXCEPT ![r] = Idle]
    BY <2>5 DEF answered, unchangedBreaker, ignored, Counts
  <2>7. read[r].probe
    BY <2>6 DEF IInv, Generation
  <2>8. read'[r].at = "idle"
    BY <2>6, IdleRead DEF IInv
  <2> QED
    BY <2>6, <2>7, <2>8
<1> QED
  BY <1>1, ReadsInvariance, PTL DEF Spec
=============================================================================
