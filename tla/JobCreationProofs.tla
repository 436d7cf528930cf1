------------------------- MODULE JobCreationProofs -------------------------
(***************************************************************************)
(* Theorems about JobCreation, for every number of concurrent requests,    *)
(* keys, contents, periods and limits, as long as no retention sweep       *)
(* commits between the two lookups of one enqueue (SweepOverlaps = FALSE): *)
(* the automatic retention does not take the tenant's lock.                *)
(***************************************************************************)
EXTENDS JobCreation, FiniteSetTheorems, TLAPS

Keys == {<<>>} \cup ({"odoo"} \X (IdemKeys \cup {"first"})) \cup ({"gw-reprint"} \X (Nat \ {0}))

Pcs == {"idle", "begin", "recover", "fenced", "noReceipt", "reused", "readReceipt",
        "done", "missing", "refused", "conflict"}

Request == [pc: Pcs,
            kind: {"odoo", "reprint", "get"}, key: Keys, fp: Contents \cup {"original"},
            agent: Agents, id: Nat, was: BOOLEAN]

\* The records S of both tables, when n is the next identifier: identifiers and keys name
\* one record, and the internal records are the reprints of the original.
RecordsInv(S, n) ==
    /\ S \subseteq Record /\ IsFiniteSet(S) /\ n \in Nat \ {0}
    /\ \A i, j \in S : i.id = j.id \/ HasKey(i, j.key) => i = j
    /\ \A j \in S : j.id < n /\ (j.internal <=> ReprintOf(j)) /\ (j.internal => j.fp = "original")

\* The jobs J and the receipts C: a job becomes a receipt by leaving the first table.
TablesInv(J, C, n) == RecordsInv(J \cup C, n) /\ J \cap C = {}

\* The record a caller is entitled to see.
Sees(q, j) == ~j.internal /\ IF q.kind = "get" THEN HasKey(j, q.key) ELSE j.id = q.id

Asking(q)  == q.pc \in {"idle", "begin", "recover", "fenced", "noReceipt"}
Holding(q) == q.pc \in {"fenced", "noReceipt"}

\* What a request is made of at each of its steps.
Wellformed(q, n) ==
    /\ q \in Request /\ q.id < n
    /\ q.pc = "idle" => q = Idle
    /\ Asking(q) \/ q.kind = "get" => q.id = NoId
    /\ Asking(q) => q.kind # "get"
    /\ Asking(q) /\ q.pc # "idle" /\ q.kind = "odoo" => q.key \in {"odoo"} \X IdemKeys
    /\ q.kind = "reprint" => q.fp = "original"
    /\ Asking(q) /\ q.kind = "reprint" => q.key \in {<<>>} \cup ({"gw-reprint"} \X (Nat \ {0}))
    /\ q.pc = "begin" /\ q.kind = "reprint" => q.key = <<>>

\* What it knows of the jobs J and the receipts C.
Knows(q, J, C) ==
    /\ q.pc = "noReceipt" => /\ q.kind = "reprint" => q.key # <<>>
                             /\ \A c \in C : ~HasKey(c, q.key)
    /\ Holding(q) /\ q.kind = "reprint" /\ q.key # <<>> =>
         \A j \in J : ReprintOf(j) => j.status \notin Live
    /\ q.id # NoId => \A j \in J \cup C : j.id = q.id =>
                        j.fp = q.fp /\ j.internal = (q.kind # "odoo")
    /\ q.pc \in {"reused", "readReceipt"} => q.kind # "reprint"
    /\ q.pc = "reused" /\ (q.kind = "odoo" \/ q.was) => \E j \in J \cup C : Sees(q, j)
    /\ q.pc = "readReceipt" /\ (q.kind = "odoo" \/ q.was) => \E j \in C : Sees(q, j)
    /\ q.pc = "missing" => q.kind = "get" /\ ~q.was

\* The authority under which it holds the locks.
Authorized(q) ==
    Holding(q) => tenant = "active" /\ IF q.kind = "odoo" THEN apiKey = "live" ELSE manager

\* The records of period p, the queue of agent a, the live records.
InPeriod(S, p) == {j \in S : j.period = p}
QueueOf(J, a)  == {j \in J : j.agent = a /\ j.status = "queued"}
LiveOf(J)      == {j \in J : j.status \in Live}

\* The counters agree with the records, and the limits hold.
CountInv(J, C, u) ==
    /\ u \in [0..MaxPeriod -> 0..max_prints_per_period]
    /\ \A p \in 0..MaxPeriod : u[p] = Cardinality(InPeriod(J \cup C, p))
    /\ \A a \in Agents : Cardinality(QueueOf(J, a)) <= MAX_AGENT_QUEUED_JOBS
    /\ Cardinality(LiveOf(J)) <= max_concurrent_jobs
    /\ \A i, j \in J : ReprintOf(i) /\ ReprintOf(j) /\ i.status \in Live /\ j.status \in Live
                       => i = j

\* The inductive invariant.
IInv ==
    /\ TablesInv(jobs, receipts, nextId)
    /\ CountInv(jobs, receipts, used) /\ period \in 0..MaxPeriod
    /\ printer \in [agent: Agents \cup {"gone"}, usable: BOOLEAN]
    /\ req = [r \in Requests |-> req[r]]
    /\ \A r \in Requests : /\ Wellformed(req[r], nextId) /\ Knows(req[r], jobs, receipts)
                           /\ Authorized(req[r])
    /\ \A r, s \in Requests : InTx(r) /\ InTx(s) => r = s

-----------------------------------------------------------------------------
(* Keys and counting                                                       *)

\* The two families of keys, and the absent one, are told apart.
LEMMA KeyShapes ==
    /\ \A X : \A k \in {"odoo"} \X X : k # <<>> /\ k[1] # "gw-reprint"
    /\ \A X : \A k \in {"gw-reprint"} \X X : k # <<>> /\ k[1] = "gw-reprint"
    /\ {"odoo"} \X IdemKeys \subseteq Keys /\ {"gw-reprint"} \X (Nat \ {0}) \subseteq Keys
    /\ <<>> \in Keys
<1>1. ASSUME NEW X, NEW x, NEW k \in {x} \X X
      PROVE  k # <<>> /\ k[1] = x
  OBVIOUS
<1>2. {"odoo"} \X IdemKeys \subseteq {"odoo"} \X (IdemKeys \cup {"first"})
  OBVIOUS
<1> QED
  BY <1>1, <1>2, Zenon DEF Keys

\* Replacing one member of a finite set by a new one keeps the count.
LEMMA SwapCount ==
    ASSUME NEW A, IsFiniteSet(A), NEW j \in A, NEW k, k \notin A
    PROVE  Cardinality((A \ {j}) \cup {k}) = Cardinality(A)
<1>1. /\ IsFiniteSet(A \ {j}) /\ Cardinality(A \ {j}) = Cardinality(A) - 1
      /\ Cardinality(A) \in Nat
  BY FS_RemoveElement, FS_CardinalityType
<1>2. Cardinality((A \ {j}) \cup {k}) = Cardinality(A \ {j}) + 1
  BY <1>1, FS_AddElement
<1> QED
  BY <1>1, <1>2

\* A part of what stayed under a limit stays under it.
LEMMA PartCount ==
    ASSUME NEW A, IsFiniteSet(A), NEW B \in SUBSET A, NEW n \in Nat, Cardinality(A) <= n
    PROVE  IsFiniteSet(B) /\ Cardinality(B) <= n
<1>1. /\ IsFiniteSet(B) /\ Cardinality(B) <= Cardinality(A) /\ Cardinality(A) \in Nat
      /\ Cardinality(B) \in Nat
  BY FS_Subset, FS_CardinalityType
<1> QED
  BY <1>1

\* The queues and the live records of a finite table are finite.
LEMMA FiniteParts ==
    ASSUME NEW S, IsFiniteSet(S), NEW J \in SUBSET S
    PROVE  /\ IsFiniteSet(J) /\ IsFiniteSet(LiveOf(J))
           /\ \A p : IsFiniteSet(InPeriod(S, p))
           /\ \A a : IsFiniteSet(QueueOf(J, a))
<1>1. ASSUME NEW T \in SUBSET S
      PROVE  IsFiniteSet(T)
  BY <1>1, FS_Subset
<1> QED
  BY <1>1, Zenon DEF LiveOf, InPeriod, QueueOf

-----------------------------------------------------------------------------
(* A job changes its status (claim, finish)                                *)

Statuses == Live \cup {"failed"}

\* The record of j with another status.
With(j, s) == [j EXCEPT !.status = s]

\* The record keeps its identity, and a record of another status is a new one.
LEMMA WithFields ==
    ASSUME NEW j \in Record, NEW s \in Statuses
    PROVE  /\ With(j, s) \in Record /\ With(j, s).status = s
           /\ With(j, s).id = j.id /\ With(j, s).key = j.key /\ With(j, s).fp = j.fp
           /\ With(j, s).internal = j.internal /\ With(j, s).agent = j.agent
           /\ With(j, s).period = j.period
BY DEF With, Record, Statuses

\* Both tables keep their invariant.
LEMMA RestatusRecords ==
    ASSUME NEW J, NEW C, NEW n, TablesInv(J, C, n),
           NEW j \in J, NEW s \in Statuses, j.status # s
    PROVE  /\ With(j, s) \notin J \cup C
           /\ ((J \ {j}) \cup {With(j, s)}) \cup C = ((J \cup C) \ {j}) \cup {With(j, s)}
           /\ TablesInv((J \ {j}) \cup {With(j, s)}, C, n)
<1> DEFINE S == J \cup C
           k == With(j, s)
           T == (S \ {j}) \cup {k}
<1>0. RecordsInv(S, n) /\ J \cap C = {}
  BY DEF TablesInv
<1>1. j \in Record /\ j \in S
  BY <1>0 DEF RecordsInv
<1>2. /\ k \in Record /\ k.status = s /\ k.id = j.id /\ k.key = j.key /\ k.fp = j.fp
      /\ k.internal = j.internal
  BY <1>1, WithFields
<1>3. k # j
  BY <1>2
<1> HIDE DEF k
<1>4. k \notin S
  BY <1>0, <1>1, <1>2, <1>3, Zenon DEF RecordsInv
<1>5. ((J \ {j}) \cup {k}) \cup C = T
  BY <1>0, Zenon
<1>6. ((J \ {j}) \cup {k}) \cap C = {}
  BY <1>0, <1>4, Zenon
<1>7. IsFiniteSet(T) /\ T \subseteq Record
  BY <1>0, <1>2, FS_AddElement, FS_RemoveElement DEF RecordsInv
<1>8. ASSUME NEW a \in T, NEW b \in T, a.id = b.id \/ HasKey(a, b.key)
      PROVE  a = b
  BY <1>0, <1>1, <1>2, <1>8, Zenon DEF RecordsInv, HasKey
<1>9. ASSUME NEW a \in T
      PROVE  /\ a.id < n /\ (a.internal <=> ReprintOf(a)) /\ (a.internal => a.fp = "original")
  BY <1>0, <1>1, <1>2, Zenon DEF RecordsInv, ReprintOf
<1>10. RecordsInv(T, n)
  BY <1>0, <1>7, <1>8, <1>9, Zenon DEF RecordsInv
<1> QED
  BY <1>4, <1>5, <1>6, <1>10, Zenon DEF k, TablesInv

\* The counters and limits hold: a claim keeps the record live, an end frees its place.
LEMMA RestatusCounts ==
    ASSUME CreationAssumption,
           NEW J, NEW C, NEW n, NEW u, TablesInv(J, C, n), CountInv(J, C, u),
           NEW j \in J, NEW k, k \notin J \cup C,
           k.key = j.key, k.agent = j.agent, k.period = j.period,
           j.status \in Live, k.status # "queued"
    PROVE  CountInv((J \ {j}) \cup {k}, C, u)
<1> DEFINE S == J \cup C
           H == (J \ {j}) \cup {k}
<1>1. j \in S /\ IsFiniteSet(S) /\ J \in SUBSET S
  BY DEF RecordsInv, TablesInv
<1>3. H \cup C = (S \ {j}) \cup {k}
  BY Zenon DEF TablesInv
<1>4. IsFiniteSet(LiveOf(J)) /\ \A p : IsFiniteSet(InPeriod(S, p)) /\ \A a : IsFiniteSet(QueueOf(J, a))
  BY <1>1, FiniteParts
<1>5. ASSUME NEW p \in 0..MaxPeriod
      PROVE  u[p] = Cardinality(InPeriod(H \cup C, p))
  <2>1. u[p] = Cardinality(InPeriod(S, p))
    BY DEF CountInv
  <2>2. CASE j.period = p
    <3>1. InPeriod(H \cup C, p) = (InPeriod(S, p) \ {j}) \cup {k}
      BY <1>3, <2>2, Zenon DEF InPeriod
    <3>2. j \in InPeriod(S, p) /\ k \notin InPeriod(S, p)
      BY <1>1, <2>2, Zenon DEF InPeriod
    <3>3. IsFiniteSet(InPeriod(S, p))
      BY <1>4, Zenon
    <3>4. Cardinality((InPeriod(S, p) \ {j}) \cup {k}) = Cardinality(InPeriod(S, p))
      BY <3>2, <3>3, SwapCount, Zenon
    <3> QED
      BY <2>1, <3>1, <3>4, Zenon
  <2>3. CASE j.period # p
    <3>1. InPeriod(H \cup C, p) = InPeriod(S, p)
      BY <1>3, <2>3, Zenon DEF InPeriod
    <3> QED
      BY <2>1, <3>1
  <2> QED
    BY <2>2, <2>3
<1>6. ASSUME NEW a \in Agents
      PROVE  Cardinality(QueueOf(H, a)) <= MAX_AGENT_QUEUED_JOBS
  <2>1. QueueOf(H, a) \in SUBSET QueueOf(J, a)
    BY Zenon DEF QueueOf
  <2>2. Cardinality(QueueOf(J, a)) <= MAX_AGENT_QUEUED_JOBS
    BY DEF CountInv
  <2> QED
    BY <1>4, <2>1, <2>2, PartCount DEF CreationAssumption
<1>7. Cardinality(LiveOf(H)) <= max_concurrent_jobs
  <2>1. Cardinality(LiveOf(J)) <= max_concurrent_jobs
    BY DEF CountInv
  <2>2. CASE k.status \in Live
    <3>1. LiveOf(H) = (LiveOf(J) \ {j}) \cup {k}
      BY <2>2, Zenon DEF LiveOf
    <3>2. j \in LiveOf(J) /\ k \notin LiveOf(J)
      BY Zenon DEF LiveOf
    <3>3. Cardinality((LiveOf(J) \ {j}) \cup {k}) = Cardinality(LiveOf(J))
      BY <1>4, <3>2, SwapCount, Zenon
    <3> QED
      BY <2>1, <3>1, <3>3, Zenon
  <2>3. CASE k.status \notin Live
    <3>1. LiveOf(H) \in SUBSET LiveOf(J)
      BY <2>3, Zenon DEF LiveOf
    <3> QED
      <4>1. max_concurrent_jobs \in Nat
        BY DEF CreationAssumption
      <4> QED
        BY <1>4, <2>1, <3>1, <4>1, PartCount, Zenon
  <2> QED
    BY <2>2, <2>3
<1>8. ASSUME NEW a \in H, NEW b \in H, ReprintOf(a), ReprintOf(b), a.status \in Live, b.status \in Live
      PROVE  a = b
  <2>1. ReprintOf(k) => ReprintOf(j)
    BY Zenon DEF ReprintOf
  <2> QED
    BY <1>8, <2>1, Zenon DEF CountInv
<1> QED
  BY <1>5, <1>6, <1>7, <1>8, Zenon DEF CountInv

\* No caller loses sight of its job, and no live reprint appears.
LEMMA RestatusKnows ==
    ASSUME NEW J, NEW C, NEW q, Knows(q, J, C), NEW j \in J, NEW k,
           k.id = j.id, k.key = j.key, k.fp = j.fp, k.internal = j.internal, j.status \in Live
    PROVE  Knows(q, (J \ {j}) \cup {k}, C)
<1> DEFINE H == (J \ {j}) \cup {k}
<1>1. (ReprintOf(k) => ReprintOf(j)) /\ (Sees(q, j) => Sees(q, k))
  BY Zenon DEF ReprintOf, Sees, HasKey
<1>2. ASSUME Holding(q), q.kind = "reprint", q.key # <<>>
      PROVE  \A i \in H : ReprintOf(i) => i.status \notin Live
  BY <1>1, <1>2, Zenon DEF Knows
<1>3. ASSUME q.id # NoId
      PROVE  \A i \in H \cup C : i.id = q.id => i.fp = q.fp /\ i.internal = (q.kind # "odoo")
  <2> DEFINE P == q.kind # "odoo"
  <2>1. \A i \in J \cup C : i.id = q.id => i.fp = q.fp /\ i.internal = P
    BY <1>3, Zenon DEF Knows
  <2> HIDE DEF P
  <2>2. \A i \in H \cup C : i.id = q.id => i.fp = q.fp /\ i.internal = P
    BY <2>1, Zenon
  <2> QED
    BY <2>2, Zenon DEF P
<1>4. (\E i \in J \cup C : Sees(q, i)) => \E i \in H \cup C : Sees(q, i)
  BY <1>1, Zenon
<1> HIDE DEF H
<1>5. Knows(q, H, C)
  BY <1>2, <1>3, <1>4, Zenon DEF Knows
<1> QED
  BY <1>5, Zenon DEF H

-----------------------------------------------------------------------------
(* A finished job becomes a receipt (retention, DELETE)                    *)

\* The move keeps every record, so keys, identifiers and credits stay as they were.
LEMMA ArchiveTables ==
    ASSUME CreationAssumption,
           NEW J, NEW C, NEW n, NEW u, TablesInv(J, C, n), CountInv(J, C, u), NEW j \in J
    PROVE  /\ \A c \in C : ~HasKey(c, j.key)
           /\ TablesInv(J \ {j}, C \cup {j}, n) /\ CountInv(J \ {j}, C \cup {j}, u)
<1> DEFINE S == J \cup C
           H == J \ {j}
           D == C \cup {j}
<1>1. H \cup D = S /\ H \cap D = {}
  BY Zenon DEF TablesInv
<1>2. TablesInv(H, D, n)
  BY <1>1, Zenon DEF TablesInv
<1>3. \A c \in C : ~HasKey(c, j.key)
  BY Zenon DEF TablesInv, RecordsInv
<1>4. IsFiniteSet(S) /\ J \in SUBSET S
  BY DEF TablesInv, RecordsInv
<1>5. IsFiniteSet(LiveOf(J)) /\ \A a : IsFiniteSet(QueueOf(J, a))
  BY <1>4, FiniteParts, Zenon
<1>6. Cardinality(LiveOf(H)) <= max_concurrent_jobs
  <2>1. LiveOf(H) \in SUBSET LiveOf(J)
    BY Zenon DEF LiveOf
  <2>2. Cardinality(LiveOf(J)) <= max_concurrent_jobs
    BY Zenon DEF CountInv
  <2> QED
    BY <1>5, <2>1, <2>2, PartCount DEF CreationAssumption
<1>7. ASSUME NEW a \in Agents
      PROVE  Cardinality(QueueOf(H, a)) <= MAX_AGENT_QUEUED_JOBS
  <2>1. QueueOf(H, a) \in SUBSET QueueOf(J, a)
    BY Zenon DEF QueueOf
  <2>2. Cardinality(QueueOf(J, a)) <= MAX_AGENT_QUEUED_JOBS
    BY Zenon DEF CountInv
  <2> QED
    BY <1>5, <2>1, <2>2, PartCount DEF CreationAssumption
<1>8. \A a, b \in H : ReprintOf(a) /\ ReprintOf(b) /\ a.status \in Live /\ b.status \in Live => a = b
  BY Zenon DEF CountInv
<1>9. \A p \in 0..MaxPeriod : u[p] = Cardinality(InPeriod(H \cup D, p))
  BY <1>1, Zenon DEF CountInv
<1> HIDE DEF H, D
<1>10. CountInv(H, D, u)
  BY <1>6, <1>7, <1>8, <1>9, Zenon DEF CountInv
<1> QED
  BY <1>2, <1>3, <1>10, Zenon DEF H, D

\* A reader between its two reads finds the record in the second table. Only an enqueue that
\* has already looked there would miss it.
LEMMA ArchiveKnows ==
    ASSUME NEW J, NEW C, NEW q, Knows(q, J, C), NEW j \in J, q.pc # "noReceipt"
    PROVE  Knows(q, J \ {j}, C \cup {j})
<1> DEFINE H == J \ {j}
           D == C \cup {j}
<1>1. H \cup D = J \cup C /\ C \subseteq D /\ H \subseteq J
  BY Zenon
<1> HIDE DEF H, D
<1>2. Knows(q, H, D)
  BY <1>1, Zenon DEF Knows
<1> QED
  BY <1>2, Zenon DEF H, D

-----------------------------------------------------------------------------
(* A job is created                                                        *)

\* The internal records are the reprints of the original.
Genuine(k) == (k.internal <=> ReprintOf(k)) /\ (k.internal => k.fp = "original")

\* No record of S has the key.
Unused(S, key) == \A i \in S : ~HasKey(i, key)


\* The new record k is like no other.
LEMMA CreateTables ==
    ASSUME NEW J, NEW C, NEW n, TablesInv(J, C, n), NEW k \in Record, k.id = n, Genuine(k),
           Unused(J \cup C, k.key)
    PROVE  k \notin J \cup C /\ TablesInv(J \cup {k}, C, n + 1)
<1> USE DEF Unused
<1> DEFINE S == J \cup C
           T == S \cup {k}
<1>1. RecordsInv(S, n) /\ J \cap C = {} /\ (J \cup {k}) \cup C = T
  BY Zenon DEF TablesInv
<1>2. ASSUME NEW i \in S
      PROVE  i.id # n /\ i.id < n + 1 /\ i.id < n
  BY <1>1 DEF RecordsInv, Record
<1>3. k \notin S
  BY <1>2
<1>4. IsFiniteSet(T) /\ T \subseteq Record /\ n + 1 \in Nat \ {0} /\ n < n + 1
  BY <1>1, FS_AddElement DEF RecordsInv
<1>5. ASSUME NEW i \in T, NEW j \in T, i.id = j.id \/ HasKey(i, j.key)
      PROVE  i = j
  BY <1>1, <1>2, <1>5, Zenon DEF RecordsInv, HasKey
<1>6. ASSUME NEW j \in T
      PROVE  j.id < n + 1 /\ (j.internal <=> ReprintOf(j)) /\ (j.internal => j.fp = "original")
  BY <1>1, <1>2, <1>4, Zenon DEF RecordsInv, Genuine
<1>7. RecordsInv(T, n + 1)
  BY <1>4, <1>5, <1>6, Zenon DEF RecordsInv
<1> QED
  BY <1>1, <1>3, <1>7, Zenon DEF TablesInv

\* It takes one credit, one place in its agent's queue and one live place.
LEMMA CreateCounts ==
    ASSUME CreationAssumption,
           NEW J, NEW C, NEW n, NEW u, TablesInv(J, C, n), CountInv(J, C, u),
           NEW p \in 0..MaxPeriod, u[p] < max_prints_per_period,
           NEW k, k \notin J \cup C, k.period = p, k.status = "queued",
           Cardinality(LiveOf(J)) < max_concurrent_jobs,
           Cardinality(QueueOf(J, k.agent)) < MAX_AGENT_QUEUED_JOBS,
           ReprintOf(k) => \A j \in J : ReprintOf(j) => j.status \notin Live
    PROVE  CountInv(J \cup {k}, C, [u EXCEPT ![p] = @ + 1])
<1> DEFINE S == J \cup C
           H == J \cup {k}
           v == [u EXCEPT ![p] = @ + 1]
<1>1. IsFiniteSet(S) /\ J \in SUBSET S
  BY DEF TablesInv, RecordsInv
<1>2. /\ IsFiniteSet(LiveOf(J)) /\ \A a : IsFiniteSet(QueueOf(J, a))
      /\ \A x : IsFiniteSet(InPeriod(S, x))
  BY <1>1, FiniteParts, Zenon
<1>3. u \in [0..MaxPeriod -> 0..max_prints_per_period]
  BY Zenon DEF CountInv
<1>4. v \in [0..MaxPeriod -> 0..max_prints_per_period]
  BY <1>3 DEF CreationAssumption
<1>5. ASSUME NEW A, IsFiniteSet(A), k \notin A
      PROVE  Cardinality(A \cup {k}) = Cardinality(A) + 1 /\ Cardinality(A) \in Nat
  BY <1>5, FS_AddElement, FS_CardinalityType
<1>6. ASSUME NEW x \in 0..MaxPeriod
      PROVE  v[x] = Cardinality(InPeriod(H \cup C, x))
  <2>1. u[x] = Cardinality(InPeriod(S, x)) /\ u[p] = Cardinality(InPeriod(S, p))
    BY Zenon DEF CountInv
  <2>2. CASE x = p
    <3>1. InPeriod(H \cup C, p) = InPeriod(S, p) \cup {k} /\ k \notin InPeriod(S, p)
      BY Zenon DEF InPeriod
    <3>2. Cardinality(InPeriod(S, p) \cup {k}) = Cardinality(InPeriod(S, p)) + 1
      BY <1>2, <1>5, <3>1, Zenon
    <3>3. v[p] = u[p] + 1
      BY <1>3
    <3> QED
      BY <2>1, <2>2, <3>1, <3>2, <3>3, Zenon
  <2>3. CASE x # p
    <3>1. InPeriod(H \cup C, x) = InPeriod(S, x)
      BY <2>3, Zenon DEF InPeriod
    <3>2. v[x] = u[x]
      BY <1>3, <2>3
    <3> QED
      BY <2>1, <3>1, <3>2, Zenon
  <2> QED
    BY <2>2, <2>3
<1>7. ASSUME NEW a \in Agents
      PROVE  Cardinality(QueueOf(H, a)) <= MAX_AGENT_QUEUED_JOBS
  <2>1. CASE a = k.agent
    <3>1. QueueOf(H, a) = QueueOf(J, a) \cup {k} /\ k \notin QueueOf(J, a)
      BY <2>1, Zenon DEF QueueOf
    <3>2. /\ Cardinality(QueueOf(J, a) \cup {k}) = Cardinality(QueueOf(J, a)) + 1
          /\ Cardinality(QueueOf(J, a)) \in Nat
      BY <1>2, <1>5, <3>1, Zenon
    <3>3. Cardinality(QueueOf(J, a)) < MAX_AGENT_QUEUED_JOBS
      BY <2>1, Zenon
    <3> QED
      BY <3>1, <3>2, <3>3 DEF CreationAssumption
  <2>2. CASE a # k.agent
    <3>1. QueueOf(H, a) = QueueOf(J, a)
      BY <2>2, Zenon DEF QueueOf
    <3> QED
      BY <3>1, Zenon DEF CountInv
  <2> QED
    BY <2>1, <2>2
<1>8. Cardinality(LiveOf(H)) <= max_concurrent_jobs
  <2>1. LiveOf(H) = LiveOf(J) \cup {k} /\ k \notin LiveOf(J)
    BY Zenon DEF LiveOf, Live
  <2>2. /\ Cardinality(LiveOf(J) \cup {k}) = Cardinality(LiveOf(J)) + 1
        /\ Cardinality(LiveOf(J)) \in Nat
    BY <1>2, <1>5, <2>1, Zenon
  <2>3. Cardinality(LiveOf(J)) < max_concurrent_jobs
    OBVIOUS
  <2> HIDE DEF H
  <2> QED
    BY <2>1, <2>2, <2>3 DEF CreationAssumption
<1>9. \A a, b \in H : ReprintOf(a) /\ ReprintOf(b) /\ a.status \in Live /\ b.status \in Live => a = b
  BY Zenon DEF CountInv
<1> HIDE DEF H, v
<1>10. CountInv(H, C, v)
  BY <1>4, <1>6, <1>7, <1>8, <1>9, Zenon DEF CountInv
<1> QED
  BY <1>10, Zenon DEF H, v

\* Nobody else holds the locks or has an answer that names the new record.
LEMMA CreateKnows ==
    ASSUME NEW J, NEW C, NEW n, NEW q, Knows(q, J, C), Wellformed(q, n), n \in Nat,
           ~Holding(q), NEW k, k.id = n
    PROVE  Knows(q, J \cup {k}, C)
<1> DEFINE H == J \cup {k}
<1>1. q.id # k.id
  BY DEF Wellformed, Request
<1>2. q.pc # "noReceipt"
  BY Zenon DEF Holding
<1>3. J \subseteq H /\ \A i \in H \cup C : i = k \/ i \in J \cup C
  BY Zenon
<1> HIDE DEF H
<1>4. Knows(q, H, C)
  BY <1>1, <1>2, <1>3, Zenon DEF Knows
<1> QED
  BY <1>4, Zenon DEF H

-----------------------------------------------------------------------------
(* A request moves on                                                      *)

\* The request q fits the tables.
Fits(q, J, C, n) == Wellformed(q, n) /\ Knows(q, J, C)

\* Changing the program counter changes nothing else.
LEMMA PcFields ==
    ASSUME NEW q \in Request, NEW x \in Pcs
    PROVE  LET p == [q EXCEPT !.pc = x]
           IN  /\ p \in Request /\ p.pc = x /\ p.kind = q.kind /\ p.key = q.key /\ p.fp = q.fp
               /\ p.agent = q.agent /\ p.id = q.id /\ p.was = q.was
BY DEF Request

\* The two places of a request inside its transaction.
LEMMA PcNames == "fenced" \in Pcs /\ "noReceipt" \in Pcs
BY DEF Pcs

\* A refusal, a conflict and the end of a reading claim nothing.
LEMMA EndFits ==
    ASSUME NEW q, NEW J, NEW C, NEW n, Fits(q, J, C, n),
           NEW x \in {"done", "refused", "conflict"}
    PROVE  Fits([q EXCEPT !.pc = x], J, C, n) /\ ~Holding([q EXCEPT !.pc = x])
<1> DEFINE p == [q EXCEPT !.pc = x]
<1>1. q \in Request /\ q.id < n
  BY DEF Fits, Wellformed
<1>2. /\ p \in Request /\ p.pc = x /\ p.kind = q.kind /\ p.key = q.key /\ p.fp = q.fp
      /\ p.id = q.id /\ p.was = q.was
  <2>1. x \in Pcs
    BY DEF Pcs
  <2> QED
    BY <1>1, <2>1, PcFields, Zenon
<1> HIDE DEF p
<1>3. ~Asking(p) /\ ~Holding(p) /\ p.pc \notin {"reused", "readReceipt", "missing"}
  BY <1>2 DEF Asking, Holding
<1>4. Wellformed(p, n)
  BY <1>1, <1>2, <1>3 DEF Fits, Wellformed, Asking
<1>5. Knows(p, J, C)
  BY <1>2, <1>3, Zenon DEF Fits, Knows, Holding
<1> QED
  BY <1>3, <1>4, <1>5, Zenon DEF Fits, p

\* A caller is given the record j, which is the operation it asked for.
LEMMA ReuseFits ==
    ASSUME NEW q, NEW J, NEW C, NEW n, TablesInv(J, C, n), Fits(q, J, C, n), Asking(q),
           NEW j \in J \cup C, j.fp = q.fp, j.internal = (q.kind # "odoo")
    PROVE  LET p == [q EXCEPT !.id = j.id, !.pc = IF q.kind = "odoo" THEN "reused" ELSE "done"]
           IN  Fits(p, J, C, n) /\ ~Holding(p)
<1> DEFINE x == IF q.kind = "odoo" THEN "reused" ELSE "done"
           p == [q EXCEPT !.id = j.id, !.pc = x]
<1>1. q \in Request /\ q.kind # "get" /\ (q.kind = "reprint" => q.fp = "original")
  BY Zenon DEF Fits, Wellformed
<1>2. j.id \in Nat /\ j.id < n /\ \A i \in J \cup C : i.id = j.id => i = j
  BY DEF TablesInv, RecordsInv, Record
<1>3. x \in {"reused", "done"} /\ (x = "reused" => q.kind = "odoo")
  OBVIOUS
<1> HIDE DEF x
<1>4. /\ p \in Request /\ p.pc = x /\ p.kind = q.kind /\ p.key = q.key /\ p.fp = q.fp /\ p.id = j.id
  BY <1>1, <1>2, <1>3 DEF Request, Pcs
<1> HIDE DEF p
<1>5. ~Asking(p) /\ ~Holding(p) /\ p.pc \notin {"idle", "begin", "readReceipt", "missing"}
  BY <1>3, <1>4 DEF Asking, Holding
<1>6. Wellformed(p, n)
  BY <1>1, <1>2, <1>4, <1>5, Zenon DEF Wellformed
<1>7. \A i \in J \cup C : i.id = p.id => i.fp = p.fp /\ i.internal = (p.kind # "odoo")
  BY <1>2, <1>4, Zenon
<1>8. p.pc = "reused" => p.kind # "reprint" /\ \E i \in J \cup C : Sees(p, i)
  <2>1. ASSUME p.pc = "reused"
        PROVE  p.kind = "odoo" /\ Sees(p, j)
    BY <1>3, <1>4, <2>1 DEF Sees
  <2> QED
    BY <2>1
<1>9. Knows(p, J, C)
  BY <1>5, <1>7, <1>8, Zenon DEF Knows, Holding
<1> QED
  BY <1>5, <1>6, <1>9, Zenon DEF Fits, p, x

\* An enqueue takes its locks.
LEMMA FenceFits ==
    ASSUME NEW q, NEW J, NEW C, NEW n, Fits(q, J, C, n), q.pc = "begin"
    PROVE  LET p == [q EXCEPT !.pc = "fenced"]
           IN  Fits(p, J, C, n) /\ p.kind = q.kind /\ p.kind # "get"
<1> DEFINE p == [q EXCEPT !.pc = "fenced"]
<1>1. q \in Request /\ q.id < n /\ Asking(q) /\ q.kind # "get" /\ q.id = NoId
  BY Zenon DEF Fits, Wellformed, Asking
<1>2. /\ p \in Request /\ p.pc = "fenced" /\ p.kind = q.kind /\ p.key = q.key /\ p.fp = q.fp
      /\ p.id = q.id
  BY <1>1, PcNames, PcFields, Zenon
<1> HIDE DEF p
<1>3. q.kind = "reprint" => q.key = <<>>
  BY Zenon DEF Fits, Wellformed
<1>4. Wellformed(p, n)
  BY <1>1, <1>2 DEF Fits, Wellformed, Asking
<1>5. Knows(p, J, C)
  BY <1>1, <1>2, <1>3, Zenon DEF Knows
<1> QED
  BY <1>1, <1>2, <1>4, <1>5, Zenon DEF Fits, p

\* A reprint is given its number while no reprint is live.
LEMMA NumberFits ==
    ASSUME NEW q, NEW J, NEW C, NEW n, Fits(q, J, C, n), q.pc = "fenced", q.kind = "reprint",
           NEW k \in {"gw-reprint"} \X (Nat \ {0}),
           \A j \in J : ReprintOf(j) => j.status \notin Live
    PROVE  LET p == [q EXCEPT !.key = k]
           IN  Fits(p, J, C, n) /\ p.kind = q.kind
<1> DEFINE p == [q EXCEPT !.key = k]
<1>1. q \in Request /\ q.id < n /\ Asking(q) /\ q.id = NoId /\ q.fp = "original"
  BY Zenon DEF Fits, Wellformed, Asking
<1>2. k \in Keys
  BY KeyShapes
<1>3. /\ p \in Request /\ p.pc = "fenced" /\ p.kind = q.kind /\ p.key = k /\ p.fp = q.fp
      /\ p.id = q.id
  BY <1>1, <1>2 DEF Request
<1> HIDE DEF p
<1>4. Wellformed(p, n)
  BY <1>1, <1>3 DEF Wellformed, Asking
<1>5. Knows(p, J, C)
  BY <1>1, <1>3, Zenon DEF Knows
<1> QED
  BY <1>3, <1>4, <1>5, Zenon DEF Fits, p

\* No receipt has the key.
LEMMA NoReceiptFits ==
    ASSUME NEW q, NEW J, NEW C, NEW n, Fits(q, J, C, n), q.pc = "fenced",
           q.kind = "reprint" => q.key # <<>>, \A c \in C : ~HasKey(c, q.key)
    PROVE  LET p == [q EXCEPT !.pc = "noReceipt"]
           IN  Fits(p, J, C, n) /\ p.kind = q.kind
<1> DEFINE p == [q EXCEPT !.pc = "noReceipt"]
<1>1. q \in Request /\ q.id < n /\ Asking(q) /\ q.id = NoId
  BY Zenon DEF Fits, Wellformed, Asking
<1>2. /\ p \in Request /\ p.pc = "noReceipt" /\ p.kind = q.kind /\ p.key = q.key /\ p.fp = q.fp
      /\ p.id = q.id
  BY <1>1, PcNames, PcFields, Zenon
<1> HIDE DEF p
<1>3. Wellformed(p, n)
  BY <1>1, <1>2 DEF Fits, Wellformed, Asking
<1>4. Holding(q) /\ p.pc \notin {"reused", "readReceipt", "missing"}
  BY <1>2 DEF Holding
<1>5. Knows(p, J, C)
  BY <1>1, <1>2, <1>4, Zenon DEF Fits, Knows
<1> QED
  BY <1>2, <1>3, <1>5, Zenon DEF Fits, p

\* The two reads of a reply.
LEMMA ReadFits ==
    ASSUME NEW q, NEW J, NEW C, NEW n, Fits(q, J, C, n)
    PROVE  /\ q.pc = "reused" /\ {j \in J : Sees(q, j)} = {} =>
                Fits([q EXCEPT !.pc = "readReceipt"], J, C, n)
           /\ q.pc = "readReceipt" /\ {j \in C : Sees(q, j)} = {} =>
                Fits([q EXCEPT !.pc = "missing"], J, C, n)
           /\ \A x \in {"readReceipt", "missing"} : ~Holding([q EXCEPT !.pc = x])
<1>1. q \in Request /\ q.id < n
  BY DEF Fits, Wellformed
<1>2. ASSUME NEW x \in {"readReceipt", "missing"}, NEW p, p = [q EXCEPT !.pc = x]
      PROVE  /\ p.pc = x /\ p.kind = q.kind /\ p.key = q.key /\ p.fp = q.fp /\ p.id = q.id
             /\ p.was = q.was /\ ~Asking(p) /\ ~Holding(p) /\ Wellformed(p, n)
             /\ \A j : Sees(p, j) <=> Sees(q, j)
  <2>1. /\ p \in Request /\ p.pc = x /\ p.kind = q.kind /\ p.key = q.key /\ p.fp = q.fp
        /\ p.id = q.id /\ p.was = q.was
    <3>1. x \in Pcs
      BY DEF Pcs
    <3> QED
      BY <1>1, <1>2, <3>1, PcFields, Zenon
  <2>2. ~Asking(p) /\ ~Holding(p) /\ p.pc \notin {"idle", "begin"}
    BY <2>1 DEF Asking, Holding
  <2>3. Wellformed(p, n)
    BY <1>1, <2>1, <2>2, Zenon DEF Fits, Wellformed
  <2>4. \A j : Sees(p, j) <=> Sees(q, j)
    BY <2>1, Zenon DEF Sees
  <2> QED
    BY <2>1, <2>2, <2>3, <2>4, Zenon
<1>3. ASSUME q.pc = "reused", {j \in J : Sees(q, j)} = {}
      PROVE  Fits([q EXCEPT !.pc = "readReceipt"], J, C, n)
  <2> DEFINE p == [q EXCEPT !.pc = "readReceipt"]
  <2>1. /\ p.pc = "readReceipt" /\ p.kind = q.kind /\ p.key = q.key /\ p.fp = q.fp /\ p.id = q.id
        /\ p.was = q.was /\ ~Holding(p) /\ Wellformed(p, n) /\ \A j : Sees(p, j) <=> Sees(q, j)
    BY <1>2, Zenon
  <2> HIDE DEF p
  <2>2. Knows(p, J, C)
    BY <1>3, <2>1, Zenon DEF Fits, Knows
  <2> QED
    BY <2>1, <2>2, Zenon DEF Fits, p
<1>4. ASSUME q.pc = "readReceipt", {j \in C : Sees(q, j)} = {}
      PROVE  Fits([q EXCEPT !.pc = "missing"], J, C, n)
  <2> DEFINE p == [q EXCEPT !.pc = "missing"]
  <2>1. /\ p.pc = "missing" /\ p.kind = q.kind /\ p.key = q.key /\ p.fp = q.fp /\ p.id = q.id
        /\ p.was = q.was /\ ~Holding(p) /\ Wellformed(p, n)
    BY <1>2, Zenon
  <2> HIDE DEF p
  <2>2. q.kind \in {"odoo", "reprint", "get"}
    BY <1>1 DEF Request
  <2>3. q.kind = "get" /\ ~q.was
    BY <1>4, <2>2, Zenon DEF Fits, Knows
  <2>4. Knows(p, J, C)
    BY <2>1, <2>3, Zenon DEF Fits, Knows
  <2> QED
    BY <2>1, <2>4, Zenon DEF Fits, p
<1> QED
  BY <1>2, <1>3, <1>4, Zenon

-----------------------------------------------------------------------------
(* The steps                                                               *)

\* What the invariant says of one request.
LEMMA RequestFits ==
    ASSUME IInv, NEW r \in Requests
    PROVE  /\ Fits(req[r], jobs, receipts, nextId) /\ Authorized(req[r])
           /\ (InTx(r) <=> Holding(req[r])) /\ req[r] \in Request
BY Zenon DEF IInv, Fits, InTx, Holding, Wellformed

\* A step of one request that touches no table.
LEMMA RequestStep ==
    ASSUME IInv, NEW r \in Requests, NEW q, Put(r, q), UNCHANGED <<Tables, Rest>>,
           Fits(q, jobs, receipts, nextId), Authorized(q),
           Holding(q) => InTx(r) \/ ~Locked
    PROVE  IInv'
<1>1. /\ jobs' = jobs /\ receipts' = receipts /\ nextId' = nextId /\ used' = used /\ period' = period
      /\ tenant' = tenant /\ apiKey' = apiKey /\ manager' = manager /\ printer' = printer
  BY DEF Tables, Rest
<1>2. req' = [s \in Requests |-> IF s = r THEN q ELSE req[s]]
  BY DEF Put, IInv
<1>3. /\ req' = [s \in Requests |-> req'[s]]
      /\ \A s \in Requests : req'[s] = IF s = r THEN q ELSE req[s]
  BY <1>2
<1>4. \A p : Authorized(p) => Authorized(p)'
  BY <1>1, Zenon DEF Authorized
<1>5. ASSUME NEW s \in Requests
      PROVE  /\ Wellformed(req'[s], nextId) /\ Knows(req'[s], jobs, receipts)
             /\ Authorized(req[s])'
  <2>1. Wellformed(req'[s], nextId) /\ Knows(req'[s], jobs, receipts)
    BY <1>3, Zenon DEF IInv, Fits
  <2>2. Authorized(req[s])'
    BY <1>1, <1>3, Zenon DEF IInv, Authorized
  <2> QED
    BY <2>1, <2>2
<1>6. ASSUME NEW s \in Requests, NEW t \in Requests, InTx(s)', InTx(t)'
      PROVE  s = t
  BY <1>3, <1>6, Zenon DEF IInv, InTx, Holding, Locked
<1> QED
  BY <1>1, <1>3, <1>5, <1>6, Zenon DEF IInv

\* A request arrives: POST, the operator's reprint, GET by key.
LEMMA Arrivals ==
    ASSUME IInv, NEW r \in Requests,
           \/ \E k \in IdemKeys : \/ GET(r, <<"odoo", k>>)
                                  \/ \E fp \in Contents : POST(r, <<"odoo", k>>, fp)
           \/ reprint(r)
    PROVE  IInv'
<1>1. /\ req[r] \in Request /\ Fits(req[r], jobs, receipts, nextId)
  BY RequestFits, Zenon
<1>2. Put(r, [req[r] EXCEPT !.pc = "refused"]) /\ UNCHANGED <<Tables, Rest>> => IInv'
  <2> DEFINE q == [req[r] EXCEPT !.pc = "refused"]
  <2>1. Fits(q, jobs, receipts, nextId) /\ ~Holding(q)
    BY <1>1, EndFits
  <2> HIDE DEF q
  <2>2. Authorized(q)
    BY <2>1, Zenon DEF Authorized
  <2> QED
    BY <2>1, <2>2, RequestStep, Zenon DEF q
<1>3. nextId \in Nat \ {0} /\ RecordsInv(jobs \cup receipts, nextId)
  BY Zenon DEF IInv, TablesInv, RecordsInv
<1>4. ASSUME NEW q, q \in Request, q.id = NoId, q.pc \in {"begin", "recover", "reused"},
             q.kind = "odoo" => q.pc # "reused" /\ q.key \in {"odoo"} \X IdemKeys,
             q.kind = "reprint" => q.pc = "begin" /\ q.key = <<>> /\ q.fp = "original",
             q.kind = "get" => q.pc = "reused",
             q.kind = "get" /\ q.was => \E j \in jobs \cup receipts : Sees(q, j),
             Put(r, q), UNCHANGED <<Tables, Rest>>
      PROVE  IInv'
  <2>1. ~Holding(q) /\ q.kind \in {"odoo", "reprint", "get"}
    BY <1>4 DEF Holding, Request
  <2>2. Authorized(q)
    BY <2>1, Zenon DEF Authorized
  <2>3. Wellformed(q, nextId)
    BY <1>3, <1>4, <2>1 DEF Wellformed, Asking, NoId
  <2>4. Knows(q, jobs, receipts)
    BY <1>4, <2>1 DEF Knows
  <2> QED
    BY <1>4, <2>1, <2>2, <2>3, <2>4, RequestStep, Zenon DEF Fits
<1>5. req[r].pc = "idle" => req[r] = Idle
  BY <1>1, Zenon DEF Fits, Wellformed
<1>6. ASSUME NEW k \in IdemKeys, GET(r, <<"odoo", k>>)
      PROVE  IInv'
  <2> DEFINE key == <<"odoo", k>>
             seen == \E j \in jobs \cup receipts : HasKey(j, key) /\ ~j.internal
             q == [Idle EXCEPT !.kind = "get", !.key = key, !.pc = "reused", !.was = seen]
  <2>1. Put(r, q) /\ UNCHANGED <<Tables, Rest>>
    BY <1>5, <1>6, Zenon DEF GET
  <2>2. key \in {"odoo"} \X IdemKeys /\ key \in Keys /\ seen \in BOOLEAN
    BY KeyShapes
  <2> HIDE DEF key, seen
  <2>3. /\ q \in Request /\ q.id = NoId /\ q.pc = "reused" /\ q.kind = "get" /\ q.key = key
        /\ q.was = seen
    BY <2>2 DEF Idle, Request, NoId, Agents, Pcs
  <2> HIDE DEF q
  <2>4. q.was => \E j \in jobs \cup receipts : Sees(q, j)
    BY <2>3, Zenon DEF seen, Sees
  <2> QED
    BY <1>4, <2>1, <2>3, <2>4
<1>7. ASSUME NEW k \in IdemKeys, NEW fp \in Contents, POST(r, <<"odoo", k>>, fp)
      PROVE  IInv'
  <2> DEFINE key == <<"odoo", k>>
             at == printer.agent \in Agents
             q == [Idle EXCEPT !.kind = "odoo", !.key = key, !.fp = fp,
                               !.pc = IF at THEN "begin" ELSE "recover",
                               !.agent = IF at THEN printer.agent ELSE @]
  <2>1. CASE Refuse(r)
    BY <1>2, <1>7, <2>1, Zenon DEF POST, Refuse, To
  <2>2. CASE ~Refuse(r)
    <3>1. Put(r, q) /\ UNCHANGED <<Tables, Rest>>
      BY <1>5, <1>7, <2>2, Zenon DEF POST
    <3>2. key \in {"odoo"} \X IdemKeys /\ key \in Keys
      BY KeyShapes
    <3> HIDE DEF key
    <3>3. /\ q \in Request /\ q.id = NoId /\ q.pc \in {"begin", "recover"} /\ q.kind = "odoo"
          /\ q.key = key
      BY <3>2 DEF Idle, Request, NoId, Agents, Pcs
    <3> HIDE DEF q
    <3> QED
      BY <1>4, <3>1, <3>2, <3>3
  <2> QED
    BY <2>1, <2>2
<1>8. ASSUME reprint(r)
      PROVE  IInv'
  <2> DEFINE q == [Idle EXCEPT !.kind = "reprint", !.pc = "begin", !.agent = printer.agent]
  <2>1. CASE Refuse(r)
    BY <1>2, <1>8, <2>1, Zenon DEF reprint, Refuse, To
  <2>2. CASE ~Refuse(r)
    <3>1. Put(r, q) /\ UNCHANGED <<Tables, Rest>> /\ printer.agent \in Agents
      BY <1>5, <1>8, <2>2, Zenon DEF reprint
    <3>2. /\ q \in Request /\ q.id = NoId /\ q.pc = "begin" /\ q.kind = "reprint"
          /\ q.key = <<>> /\ q.fp = "original"
      BY <3>1, KeyShapes DEF Idle, Request, NoId, Pcs
    <3> HIDE DEF q
    <3> QED
      BY <1>4, <3>1, <3>2
  <2> QED
    BY <2>1, <2>2
<1> QED
  BY <1>6, <1>7, <1>8

\* A request that ends or is refused leaves the tables as they are.
LEMMA EndStep ==
    ASSUME IInv, NEW r \in Requests, NEW x \in {"done", "refused", "conflict"}, To(r, x),
           UNCHANGED <<Tables, Rest>>
    PROVE  IInv'
<1> DEFINE q == [req[r] EXCEPT !.pc = x]
<1>1. Fits(q, jobs, receipts, nextId) /\ ~Holding(q)
  BY RequestFits, EndFits
<1> HIDE DEF q
<1>2. Authorized(q)
  BY <1>1, Zenon DEF Authorized
<1> QED
  BY <1>1, <1>2, RequestStep, Zenon DEF q, To

\* So does a request that is answered with the record of the operation it asked for.
LEMMA ReuseStep ==
    ASSUME IInv, NEW r \in Requests, Asking(req[r]), NEW j \in jobs \cup receipts,
           j.fp = req[r].fp, j.internal = (req[r].kind # "odoo"), Reuse(r, j),
           UNCHANGED <<Tables, Rest>>
    PROVE  IInv'
<1> DEFINE q == [req[r] EXCEPT !.id = j.id, !.pc = IF req[r].kind = "odoo" THEN "reused" ELSE "done"]
<1>1. TablesInv(jobs, receipts, nextId) /\ Fits(req[r], jobs, receipts, nextId)
  BY RequestFits, Zenon DEF IInv
<1>2. Fits(q, jobs, receipts, nextId) /\ ~Holding(q)
  BY <1>1, ReuseFits, Zenon
<1>3. Put(r, q)
  BY Zenon DEF Reuse
<1> HIDE DEF q
<1>4. Authorized(q)
  BY <1>2, Zenon DEF Authorized
<1> QED
  BY <1>2, <1>3, <1>4, RequestStep, Zenon

\* A key found in a table answers with its record or is a conflict. A reprint's own key names
\* reprints only; for Odoo the handler itself tests that the record is not internal.
LEMMA ReplayStep ==
    ASSUME IInv, NEW r \in Requests, Asking(req[r]), req[r].pc # "idle",
           NEW S \in SUBSET (jobs \cup receipts), \A j \in S : HasKey(j, req[r].key), Replay(r, S),
           UNCHANGED <<Tables, Rest>>
    PROVE  IInv'
<1>1. PICK j \in S : IF Matches(r, j) THEN Reuse(r, j) ELSE To(r, "conflict")
  BY Zenon DEF Replay
<1>2. CASE To(r, "conflict")
  BY <1>2, EndStep
<1>3. CASE Matches(r, j) /\ Reuse(r, j)
  <2>1. j \in jobs \cup receipts /\ HasKey(j, req[r].key)
    OBVIOUS
  <2>2. (j.internal <=> ReprintOf(j)) /\ j.internal \in BOOLEAN
    BY <2>1 DEF IInv, TablesInv, RecordsInv, Record
  <2>3. req[r] \in Request /\ req[r].kind # "get" /\ req[r].kind \in {"odoo", "reprint", "get"}
    BY RequestFits DEF Fits, Wellformed, Request
  <2>4. req[r].kind = "reprint" => j.internal
    <3>1. req[r].kind = "reprint" => req[r].key \in {<<>>} \cup ({"gw-reprint"} \X (Nat \ {0}))
      BY RequestFits, Zenon DEF Fits, Wellformed
    <3> QED
      BY <2>1, <2>2, <3>1, KeyShapes, Zenon DEF HasKey, ReprintOf
  <2>5. j.internal = (req[r].kind # "odoo")
    BY <1>3, <2>2, <2>3, <2>4 DEF Matches
  <2> QED
    BY <1>3, <2>1, <2>5, ReuseStep, Zenon DEF Matches
<1> QED
  BY <1>1, <1>2, <1>3, Zenon

\* The enqueue takes the tenant's lock and rereads the caller's authority.
LEMMA FenceStep ==
    ASSUME IInv, NEW r \in Requests, fence(r)
    PROVE  IInv'
<1>1. CASE Refuse(r)
  BY <1>1, EndStep DEF fence, Refuse
<1>2. CASE ~Refuse(r)
  <2> DEFINE q == [req[r] EXCEPT !.pc = "fenced"]
  <2>1. /\ req[r].pc = "begin" /\ ~Locked /\ tenant = "active" /\ Put(r, q)
        /\ req[r].kind = "odoo" => apiKey = "live"
        /\ req[r].kind = "reprint" => manager
        /\ UNCHANGED <<Tables, Rest>>
    BY <1>2, Zenon DEF fence, To
  <2>2. Fits(q, jobs, receipts, nextId) /\ q.kind = req[r].kind /\ q.kind # "get"
    BY <2>1, RequestFits, FenceFits, Zenon
  <2> HIDE DEF q
  <2>3. q.kind \in {"odoo", "reprint", "get"}
    BY <2>2 DEF Fits, Wellformed, Request
  <2>4. Authorized(q)
    BY <2>1, <2>2, <2>3 DEF Authorized
  <2> QED
    BY <2>1, <2>2, <2>4, RequestStep, Zenon
<1> QED
  BY <1>1, <1>2

\* A reprint joins the live one or is given the next number.
LEMMA CoordinateStep ==
    ASSUME IInv, NEW r \in Requests, coordinateReprint(r)
    PROVE  IInv'
<1>1. /\ req[r].pc = "fenced" /\ req[r].kind = "reprint" /\ UNCHANGED <<Tables, Rest>>
  BY Zenon DEF coordinateReprint
<1>2. /\ Fits(req[r], jobs, receipts, nextId) /\ Authorized(req[r]) /\ req[r].fp = "original"
      /\ Asking(req[r]) /\ InTx(r)
  BY <1>1, RequestFits, Zenon DEF Fits, Wellformed, Asking, InTx
<1>3. ASSUME NEW j \in ActiveReprints, Reuse(r, j)
      PROVE  IInv'
  <2>1. j \in jobs \cup receipts /\ ReprintOf(j)
    BY Zenon DEF ActiveReprints
  <2>2. j.internal \in BOOLEAN /\ j.internal /\ j.fp = "original"
    BY <2>1 DEF IInv, TablesInv, RecordsInv, Record
  <2>3. j.internal = (req[r].kind # "odoo")
    BY <1>1, <2>2
  <2> QED
    BY <1>1, <1>2, <1>3, <2>1, <2>2, <2>3, ReuseStep, Zenon
<1>4. CASE ActiveReprints = {}
  <2> DEFINE N == Cardinality({j \in jobs \cup receipts : ReprintOf(j)})
             k == <<"gw-reprint", N + 1>>
             q == [req[r] EXCEPT !.key = k]
  <2>1. Put(r, q)
    BY <1>4, Zenon DEF coordinateReprint
  <2>2. N \in Nat
    <3>1. IsFiniteSet(jobs \cup receipts)
      BY Zenon DEF IInv, TablesInv, RecordsInv
    <3> QED
      BY <3>1, FS_Subset, FS_CardinalityType
  <2> HIDE DEF N
  <2>3. k \in {"gw-reprint"} \X (Nat \ {0})
    BY <2>2
  <2> HIDE DEF k
  <2>4. \A j \in jobs : ReprintOf(j) => j.status \notin Live
    BY <1>4, Zenon DEF ActiveReprints
  <2>5. Fits(q, jobs, receipts, nextId) /\ q.kind = req[r].kind
    BY <1>1, <1>2, <2>3, <2>4, NumberFits, Zenon
  <2> HIDE DEF q
  <2>6. Authorized(q)
    <3>1. Holding(req[r])
      BY <1>1 DEF Holding
    <3> QED
      BY <1>2, <2>5, <3>1, Zenon DEF Authorized
  <2> QED
    BY <1>1, <1>2, <2>1, <2>5, <2>6, RequestStep, Zenon
<1> QED
  BY <1>3, <1>4, Zenon DEF coordinateReprint

\* The receipts are looked up first.
LEMMA FindReceiptStep ==
    ASSUME IInv, NEW r \in Requests, findReceipt(r)
    PROVE  IInv'
<1> DEFINE S == {j \in receipts : HasKey(j, req[r].key)}
<1>1. /\ req[r].pc = "fenced" /\ Coordinated(r) /\ UNCHANGED <<Tables, Rest>>
  BY Zenon DEF findReceipt
<1>2. /\ Fits(req[r], jobs, receipts, nextId) /\ Authorized(req[r])
      /\ Asking(req[r]) /\ Holding(req[r]) /\ InTx(r)
  BY <1>1, RequestFits, Zenon DEF Asking, InTx, Holding
<1>3. CASE Replay(r, S)
  <2>1. S \in SUBSET (jobs \cup receipts) /\ \A j \in S : HasKey(j, req[r].key)
    BY Zenon
  <2>2. req[r].pc # "idle"
    BY <1>1
  <2> HIDE DEF S
  <2> QED
    BY <1>1, <1>2, <1>3, <2>1, <2>2, ReplayStep, Zenon
<1>4. CASE S = {}
  <2> DEFINE q == [req[r] EXCEPT !.pc = "noReceipt"]
  <2>1. Put(r, q)
    BY <1>4, Zenon DEF findReceipt, To
  <2>2. (req[r].kind = "reprint" => req[r].key # <<>>) /\ \A c \in receipts : ~HasKey(c, req[r].key)
    BY <1>1, <1>4, Zenon DEF Coordinated
  <2>3. Fits(q, jobs, receipts, nextId) /\ q.kind = req[r].kind
    BY <1>1, <1>2, <2>2, NoReceiptFits, Zenon
  <2> HIDE DEF q, S
  <2>4. Authorized(q)
    BY <1>2, <2>3, Zenon DEF Authorized
  <2> QED
    BY <1>1, <1>2, <2>1, <2>3, <2>4, RequestStep, Zenon
<1> QED
  BY <1>3, <1>4, Zenon DEF findReceipt

\* A request whose printer is gone is answered by a receipt only.
LEMMA RecoverStep ==
    ASSUME IInv, NEW r \in Requests, recoverReceiptForMissingOwner(r)
    PROVE  IInv'
<1> DEFINE S == {j \in receipts : HasKey(j, req[r].key)}
<1>1. /\ req[r].pc = "recover" /\ UNCHANGED <<Tables, Rest>>
  BY Zenon DEF recoverReceiptForMissingOwner
<1>2. CASE Refuse(r)
  BY <1>1, <1>2, EndStep DEF Refuse
<1>3. CASE Replay(r, S)
  <2>1. S \in SUBSET (jobs \cup receipts) /\ \A j \in S : HasKey(j, req[r].key)
    BY Zenon
  <2>2. Asking(req[r]) /\ req[r].pc # "idle"
    BY <1>1 DEF Asking
  <2> HIDE DEF S
  <2> QED
    BY <1>1, <1>3, <2>1, <2>2, ReplayStep, Zenon
<1> QED
  BY <1>2, <1>3, Zenon DEF recoverReceiptForMissingOwner

\* The two reads of a reply.
LEMMA ReadStep ==
    ASSUME IInv, NEW r \in Requests, readJob(r) \/ readReceipt(r)
    PROVE  IInv'
<1>1. UNCHANGED <<Tables, Rest>>
  BY Zenon DEF readJob, readReceipt
<1>2. Fits(req[r], jobs, receipts, nextId)
  BY RequestFits, Zenon
<1>3. CASE To(r, "done")
  BY <1>1, <1>3, EndStep
<1>4. ASSUME NEW x, To(r, x), Fits([req[r] EXCEPT !.pc = x], jobs, receipts, nextId),
             ~Holding([req[r] EXCEPT !.pc = x])
      PROVE  IInv'
  <2> DEFINE q == [req[r] EXCEPT !.pc = x]
  <2>1. Authorized(q)
    BY <1>4, Zenon DEF Authorized
  <2> QED
    BY <1>1, <1>4, <2>1, RequestStep, Zenon DEF To
<1>5. \A T : Visible(T, r) = {j \in T : Sees(req[r], j)}
  BY Zenon DEF Visible, Sees
<1>6. ReadOrder[1] = jobs /\ ReadOrder[2] = receipts
  BY DEF ReadOrder
<1>7. CASE readJob(r) /\ ~To(r, "done")
  <2>1. req[r].pc = "reused" /\ {j \in jobs : Sees(req[r], j)} = {} /\ To(r, "readReceipt")
    BY <1>5, <1>6, <1>7, Zenon DEF readJob
  <2> QED
    BY <1>2, <1>4, <2>1, ReadFits
<1>8. CASE readReceipt(r) /\ ~To(r, "done")
  <2>1. req[r].pc = "readReceipt" /\ {j \in receipts : Sees(req[r], j)} = {} /\ To(r, "missing")
    BY <1>5, <1>6, <1>8, Zenon DEF readReceipt
  <2> QED
    BY <1>2, <1>4, <2>1, ReadFits
<1> QED
  BY <1>3, <1>7, <1>8, Zenon

\* The request that creates the job k ends as its owner.
LEMMA CreatorFits ==
    ASSUME NEW q, NEW J, NEW C, NEW n, TablesInv(J, C, n), Fits(q, J, C, n), q.kind # "get",
           NEW k, k.id = n, k.fp = q.fp, k.internal = (q.kind # "odoo")
    PROVE  LET p == [q EXCEPT !.pc = "done", !.id = n]
           IN  Fits(p, J \cup {k}, C, n + 1) /\ ~Holding(p)
<1> DEFINE p == [q EXCEPT !.pc = "done", !.id = n]
           H == J \cup {k}
<1>1. /\ q \in Request /\ n \in Nat /\ (q.kind = "reprint" => q.fp = "original")
      /\ \A i \in J \cup C : i.id # n
  BY DEF Fits, Wellformed, TablesInv, RecordsInv, Record
<1>2. /\ p \in Request /\ p.pc = "done" /\ p.kind = q.kind /\ p.fp = q.fp /\ p.id = n
      /\ n < n + 1
  <2>1. "done" \in Pcs
    BY DEF Pcs
  <2>2. p \in Request
    BY <1>1, <2>1 DEF Request
  <2>3. p.pc = "done" /\ p.kind = q.kind /\ p.fp = q.fp /\ p.id = n
    BY <1>1 DEF Request
  <2> QED
    BY <1>1, <2>2, <2>3
<1> HIDE DEF p
<1>3. ~Asking(p) /\ ~Holding(p) /\ p.pc \notin {"idle", "begin", "noReceipt", "reused", "readReceipt", "missing"}
  BY <1>2 DEF Asking, Holding
<1>4. Wellformed(p, n + 1)
  BY <1>1, <1>2, <1>3, Zenon DEF Wellformed
<1>5. \A i \in H \cup C : i.id = p.id => i.fp = p.fp /\ i.internal = (p.kind # "odoo")
  BY <1>1, <1>2, Zenon
<1> HIDE DEF H
<1>6. Knows(p, H, C)
  BY <1>3, <1>5, Zenon DEF Knows
<1> QED
  BY <1>3, <1>4, <1>6, Zenon DEF Fits, p, H

\* A larger next identifier changes nothing for the others.
LEMMA LaterFits ==
    ASSUME NEW q, NEW n \in Nat, Wellformed(q, n)
    PROVE  Wellformed(q, n + 1)
<1>1. q.id < n + 1
  BY DEF Wellformed, Request
<1> QED
  BY <1>1, Zenon DEF Wellformed

\* The record an enqueue inserts.
LEMMA NewJobFields ==
    ASSUME IInv, NEW r \in Requests, req[r].pc = "noReceipt"
    PROVE  /\ NewJob(r) \in Record /\ NewJob(r).id = nextId /\ NewJob(r).fp = req[r].fp
           /\ NewJob(r).key = req[r].key /\ NewJob(r).agent = req[r].agent
           /\ NewJob(r).period = period /\ NewJob(r).status = "queued"
           /\ NewJob(r).internal = (req[r].kind # "odoo")
           /\ Genuine(NewJob(r))
<1>1. /\ req[r] \in Request /\ Asking(req[r]) /\ req[r].kind # "get"
      /\ req[r].kind = "reprint" => req[r].fp = "original"
      /\ req[r].kind = "odoo" => req[r].key \in {"odoo"} \X IdemKeys
      /\ req[r].kind = "reprint" =>
           req[r].key \in {<<>>} \cup ({"gw-reprint"} \X (Nat \ {0})) /\ req[r].key # <<>>
  BY RequestFits DEF Fits, Wellformed, Knows, Asking
<1>2. /\ nextId \in Nat \ {0} /\ period \in 0..MaxPeriod
  BY Zenon DEF IInv, TablesInv, RecordsInv
<1>3. /\ NewJob(r).id = nextId /\ NewJob(r).fp = req[r].fp
      /\ NewJob(r).key = req[r].key /\ NewJob(r).agent = req[r].agent
      /\ NewJob(r).period = period /\ NewJob(r).status = "queued"
      /\ NewJob(r).internal = (req[r].kind # "odoo")
  BY DEF NewJob
<1>4. NewJob(r) \in Record
  <2>1. req[r].key \in Keys /\ req[r].fp \in Contents \cup {"original"} /\ req[r].agent \in Agents
    BY <1>1 DEF Request
  <2>2. Keys = {<<>>} \cup ({"odoo"} \X (IdemKeys \cup {"first"})) \cup ({"gw-reprint"} \X (Nat \ {0}))
    BY Zenon DEF Keys
  <2>3. "queued" \in Live \cup {"failed"} /\ (req[r].kind # "odoo") \in BOOLEAN
    BY DEF Live
  <2> QED
    BY <1>2, <2>1, <2>2, <2>3, Zenon DEF NewJob, Record
<1>5. req[r].kind \in {"odoo", "reprint", "get"}
  BY <1>1 DEF Request
<1>6. (req[r].kind # "odoo") <=> ReprintOf(NewJob(r))
  BY <1>1, <1>3, <1>5, KeyShapes, Zenon DEF ReprintOf
<1>7. (req[r].kind # "odoo") => NewJob(r).fp = "original"
  BY <1>1, <1>3, <1>5, Zenon
<1> QED
  BY <1>3, <1>4, <1>6, <1>7, Zenon DEF Genuine

\* A job is created under the tenant's lock, with a key neither table knows.
LEMMA CreateStep ==
    ASSUME CreationAssumption, IInv, NEW r \in Requests, req[r].pc = "noReceipt",
           {j \in jobs : HasKey(j, req[r].key)} = {}, Admissible(r), Created(r),
           reserveTenantPrintCredit, UNCHANGED <<period, tenant, apiKey, manager, printer>>
    PROVE  IInv'
<1> DEFINE k == NewJob(r)
           q == [req[r] EXCEPT !.pc = "done", !.id = nextId]
<1>1. /\ Fits(req[r], jobs, receipts, nextId) /\ Authorized(req[r]) /\ req[r] \in Request
      /\ Holding(req[r]) /\ InTx(r) /\ req[r].kind # "get"
      /\ \A c \in receipts : ~HasKey(c, req[r].key)
      /\ TablesInv(jobs, receipts, nextId) /\ CountInv(jobs, receipts, used)
      /\ period \in 0..MaxPeriod /\ nextId \in Nat
  BY RequestFits DEF Fits, Wellformed, Knows, Asking, Holding, InTx, IInv, TablesInv, RecordsInv
<1>2. /\ k \in Record /\ k.id = nextId /\ k.fp = req[r].fp /\ k.key = req[r].key
      /\ k.agent = req[r].agent /\ k.period = period /\ k.status = "queued"
      /\ k.internal = (req[r].kind # "odoo")
      /\ Genuine(k)
  BY NewJobFields, Zenon
<1>3. /\ jobs' = jobs \cup {k} /\ receipts' = receipts /\ nextId' = nextId + 1 /\ Put(r, q)
      /\ used' = [used EXCEPT ![period] = @ + 1]
      /\ period' = period /\ tenant' = tenant /\ apiKey' = apiKey /\ manager' = manager
      /\ printer' = printer
  BY Zenon DEF Created, reserveTenantPrintCredit
<1>4. /\ used[period] < max_prints_per_period
      /\ Cardinality(LiveOf(jobs)) < max_concurrent_jobs
      /\ Cardinality(QueueOf(jobs, k.agent)) < MAX_AGENT_QUEUED_JOBS
  <2>1. LiveOf(jobs) = LiveJobs /\ QueueOf(jobs, req[r].agent) = QueuedAt(req[r].agent)
    BY Zenon DEF LiveOf, LiveJobs, QueueOf, QueuedAt
  <2> QED
    BY <1>2, <2>1, Zenon DEF Admissible, WithinLimits
<1>5. \A i \in jobs \cup receipts : ~HasKey(i, k.key)
  BY <1>1, <1>2, Zenon
<1>6. ReprintOf(k) => \A j \in jobs : ReprintOf(j) => j.status \notin Live
  <2>1. ReprintOf(k) => req[r].kind = "reprint" /\ req[r].key # <<>>
    BY <1>1, <1>2 DEF Genuine, ReprintOf, Request
  <2> QED
    BY <1>1, <2>1, Zenon DEF Fits, Knows
<1> HIDE DEF k
<1>7. k \notin jobs \cup receipts /\ TablesInv(jobs \cup {k}, receipts, nextId + 1)
  <2>1. Unused(jobs \cup receipts, k.key)
    BY <1>5, Zenon DEF Unused
  <2> QED
    BY <1>1, <1>2, <2>1, CreateTables, Zenon
<1>8. CountInv(jobs \cup {k}, receipts, [used EXCEPT ![period] = @ + 1])
  BY <1>1, <1>2, <1>4, <1>6, <1>7, CreateCounts, Zenon
<1>9. Fits(q, jobs \cup {k}, receipts, nextId + 1) /\ ~Holding(q)
  BY <1>1, <1>2, CreatorFits, Zenon
<1> HIDE DEF q
<1>10. req' = [s \in Requests |-> IF s = r THEN q ELSE req[s]]
  BY <1>3 DEF Put, IInv
<1>11. /\ req' = [s \in Requests |-> req'[s]]
       /\ \A s \in Requests : req'[s] = IF s = r THEN q ELSE req[s]
  BY <1>10
<1>12. ASSUME NEW s \in Requests
       PROVE  Fits(req'[s], jobs', receipts', nextId') /\ Authorized(req[s])' /\ ~Holding(req'[s])
  <2>1. CASE s = r
    BY <1>3, <1>9, <1>11, <2>1, Zenon DEF Authorized
  <2>2. CASE s # r
    <3>1. /\ req'[s] = req[s] /\ ~Holding(req[s]) /\ Wellformed(req[s], nextId)
          /\ Knows(req[s], jobs, receipts)
      BY <1>1, <1>11, <2>2, RequestFits, Zenon DEF IInv
    <3>2. Wellformed(req[s], nextId + 1)
      BY <1>1, <3>1, LaterFits, Zenon
    <3>3. Knows(req[s], jobs \cup {k}, receipts)
      BY <1>1, <1>2, <3>1, CreateKnows, Zenon
    <3> QED
      BY <1>3, <3>1, <3>2, <3>3, Zenon DEF Fits, Authorized
  <2> QED
    BY <2>1, <2>2
<1>13. \A s \in Requests : ~InTx(s)'
  BY <1>12, Zenon DEF InTx, Holding
<1>14. TablesInv(jobs', receipts', nextId') /\ CountInv(jobs', receipts', used')
  BY <1>3, <1>7, <1>8, Zenon
<1> QED
  BY <1>1, <1>3, <1>11, <1>12, <1>13, <1>14, Zenon DEF IInv, Fits

\* The second lookup, the checks and the insert.
LEMMA AdmitStep ==
    ASSUME CreationAssumption, IInv, NEW r \in Requests, admit(r)
    PROVE  IInv'
<1> DEFINE S == {j \in jobs : HasKey(j, req[r].key)}
<1>1. /\ req[r].pc = "noReceipt" /\ UNCHANGED <<period, tenant, apiKey, manager, printer>>
  BY Zenon DEF admit
<1>2. CASE Replay(r, S) /\ UNCHANGED <<Tables, used>>
  <2>1. S \in SUBSET (jobs \cup receipts) /\ \A j \in S : HasKey(j, req[r].key)
    BY Zenon
  <2>2. Asking(req[r]) /\ req[r].pc # "idle"
    BY <1>1 DEF Asking
  <2>3. UNCHANGED <<Tables, Rest>>
    BY <1>1, <1>2, Zenon DEF Rest
  <2> HIDE DEF S
  <2> QED
    BY <1>2, <2>1, <2>2, <2>3, ReplayStep, Zenon
<1>3. CASE S = {} /\ Admissible(r) /\ Created(r) /\ reserveTenantPrintCredit
  BY <1>1, <1>3, CreateStep, Zenon
<1>4. CASE Refuse(r) /\ UNCHANGED <<Tables, used>>
  <2>1. UNCHANGED <<Tables, Rest>>
    BY <1>1, <1>4, Zenon DEF Rest
  <2> QED
    BY <1>4, <2>1, EndStep DEF Refuse
<1> QED
  BY <1>2, <1>3, <1>4, Zenon DEF admit

-----------------------------------------------------------------------------
(* The rest of the Gateway                                                 *)

\* A step of the tables that leaves every request where it is.
LEMMA TableStep ==
    ASSUME IInv, UNCHANGED <<nextId, Rest, req>>, TablesInv(jobs', receipts', nextId),
           CountInv(jobs', receipts', used),
           \A r \in Requests : Knows(req[r], jobs', receipts')
    PROVE  IInv'
<1>1. /\ nextId' = nextId /\ used' = used /\ period' = period /\ req' = req
      /\ tenant' = tenant /\ apiKey' = apiKey /\ manager' = manager /\ printer' = printer
  BY DEF Rest
<1>2. \A r \in Requests : Wellformed(req'[r], nextId') /\ Knows(req'[r], jobs', receipts')
                          /\ Authorized(req[r])'
  BY <1>1, Zenon DEF IInv, Authorized
<1>3. \A r, s \in Requests : InTx(r)' /\ InTx(s)' => r = s
  BY <1>1, Zenon DEF IInv, InTx
<1> QED
  BY <1>1, <1>2, <1>3, Zenon DEF IInv

\* The agent claims a job, or it ends.
LEMMA StatusStep ==
    ASSUME CreationAssumption, IInv, NEW j \in jobs, claim(j) \/ finish(j)
    PROVE  IInv'
<1>1. ASSUME NEW s \in Statuses, s # "queued", j.status # s, j.status \in Live, Restatus(j, s),
             UNCHANGED <<receipts, nextId, Rest, req>>
      PROVE  IInv'
  <2> DEFINE k == With(j, s)
             H == (jobs \ {j}) \cup {k}
  <2>0. j \in Record /\ TablesInv(jobs, receipts, nextId) /\ CountInv(jobs, receipts, used)
    BY DEF IInv, TablesInv, RecordsInv
  <2>1. jobs' = H /\ receipts' = receipts
    BY <1>1, Zenon DEF Restatus, With
  <2>2. /\ k.status = s /\ k.id = j.id /\ k.key = j.key /\ k.fp = j.fp
        /\ k.internal = j.internal /\ k.agent = j.agent /\ k.period = j.period
    BY <2>0, WithFields, Zenon
  <2>3. k \notin jobs \cup receipts /\ TablesInv(H, receipts, nextId)
    BY <1>1, <2>0, RestatusRecords, Zenon
  <2> HIDE DEF k
  <2>4. CountInv(H, receipts, used)
    BY <1>1, <2>0, <2>2, <2>3, RestatusCounts
  <2>5. \A r \in Requests : Knows(req[r], H, receipts)
    BY <1>1, <2>2, RestatusKnows, Zenon DEF IInv
  <2> HIDE DEF H
  <2>6. UNCHANGED <<nextId, Rest, req>>
    BY <1>1, Zenon
  <2> QED
    BY <2>1, <2>3, <2>4, <2>5, <2>6, TableStep, Zenon
<1>2. "claimed" \in Statuses /\ "failed" \in Statuses /\ "queued" \in Live /\ "failed" \notin Live
  BY DEF Statuses, Live
<1>3. CASE claim(j)
  BY <1>1, <1>2, <1>3 DEF claim
<1>4. CASE finish(j)
  BY <1>1, <1>2, <1>4 DEF finish
<1> QED
  BY <1>3, <1>4

\* Retention and the operator's clean-up: the unique index never drops a receipt, because no
\* receipt has the key of a job.
LEMMA ArchiveStep ==
    ASSUME CreationAssumption, SweepOverlaps = FALSE, IInv, NEW j \in jobs,
           cleanupTerminalPrintJob(j) \/ DELETE(j)
    PROVE  IInv'
<1> DEFINE H == jobs \ {j}
           D == receipts \cup {j}
<1>1. /\ jobs' = H /\ receipts' = Materialized(j) /\ UNCHANGED <<nextId, Rest, req>>
  BY Zenon DEF cleanupTerminalPrintJob, DELETE
<1>2. \A r \in Requests : req[r].pc # "noReceipt"
  <2>1. CASE cleanupTerminalPrintJob(j)
    BY <2>1 DEF cleanupTerminalPrintJob
  <2>2. CASE DELETE(j)
    BY <2>2 DEF DELETE, Locked, InTx
  <2> QED
    BY <2>1, <2>2
<1>3. TablesInv(jobs, receipts, nextId) /\ CountInv(jobs, receipts, used)
  BY Zenon DEF IInv
<1>4. /\ \A c \in receipts : ~HasKey(c, j.key)
      /\ TablesInv(H, D, nextId) /\ CountInv(H, D, used)
  BY <1>3, ArchiveTables, Zenon
<1>5. receipts' = D
  BY <1>1, <1>4, Zenon DEF Materialized
<1>6. \A r \in Requests : Knows(req[r], H, D)
  BY <1>2, ArchiveKnows, Zenon DEF IInv
<1> HIDE DEF H, D
<1> QED
  BY <1>1, <1>4, <1>5, <1>6, TableStep, Zenon

\* Credentials, sessions and workspaces change only while no enqueue holds their rows; the
\* printer and the period may change at any time.
LEMMA WorldStep ==
    ASSUME CreationAssumption, IInv,
           \/ revokeKey \/ toggleKey \/ suspendTenant \/ endSession \/ renew
           \/ \E a \in Agents \cup {"gone"}, u \in BOOLEAN : changePrinter(a, u)
    PROVE  IInv'
<1>1. /\ jobs' = jobs /\ receipts' = receipts /\ nextId' = nextId /\ used' = used /\ req' = req
  BY Zenon DEF revokeKey, toggleKey, suspendTenant, endSession, renew, changePrinter, Tables
<1>2. period' \in 0..MaxPeriod
  <2>1. CASE renew
    BY <2>1 DEF renew, IInv, CreationAssumption
  <2>2. CASE ~renew
    BY <2>2, Zenon DEF revokeKey, toggleKey, suspendTenant, endSession, changePrinter, IInv
  <2> QED
    BY <2>1, <2>2
<1>3. printer' \in [agent: Agents \cup {"gone"}, usable: BOOLEAN]
  <2>1. ASSUME NEW a \in Agents \cup {"gone"}, NEW u \in BOOLEAN, changePrinter(a, u)
        PROVE  printer' \in [agent: Agents \cup {"gone"}, usable: BOOLEAN]
    BY <2>1, Zenon DEF changePrinter
  <2>2. CASE printer' = printer
    BY <2>2, Zenon DEF IInv
  <2> QED
    BY <2>1, <2>2, Zenon DEF revokeKey, toggleKey, suspendTenant, endSession, renew
<1>4. ASSUME NEW r \in Requests
      PROVE  Authorized(req[r])'
  <2> SUFFICES ASSUME Holding(req[r])
               PROVE  tenant' = "active" /\ IF req[r].kind = "odoo" THEN apiKey' = "live" ELSE manager'
    BY <1>1, Zenon DEF Authorized
  <2>1. /\ InTx(r) /\ tenant = "active" /\ IF req[r].kind = "odoo" THEN apiKey = "live" ELSE manager
    BY RequestFits, Zenon DEF Authorized
  <2>2. Locked /\ (req[r].kind = "odoo" => KeyHeld) /\ (req[r].kind = "reprint" => UserHeld)
    BY <2>1, Zenon DEF Locked, KeyHeld, UserHeld
  <2>3. req[r].kind = "odoo" \/ req[r].kind = "reprint"
    BY RequestFits DEF Fits, Wellformed, Asking, Holding, Request
  <2>4. tenant' = "active"
    BY <2>1, <2>2, Zenon DEF revokeKey, toggleKey, suspendTenant, endSession, renew, changePrinter
  <2>5. req[r].kind = "odoo" => apiKey' = "live"
    BY <2>1, <2>2, Zenon DEF revokeKey, toggleKey, suspendTenant, endSession, renew, changePrinter
  <2>6. req[r].kind # "odoo" => manager'
    <3> SUFFICES ASSUME req[r].kind # "odoo"
                 PROVE  manager'
      OBVIOUS
    <3>1. manager /\ UserHeld
      BY <2>1, <2>2, <2>3
    <3>2. manager' = manager
      BY <3>1, Zenon DEF revokeKey, toggleKey, suspendTenant, endSession, renew, changePrinter
    <3> QED
      BY <3>1, <3>2
  <2> QED
    BY <2>4, <2>5, <2>6, Zenon
<1>5. \A r, s \in Requests : InTx(r)' /\ InTx(s)' => r = s
  BY <1>1, Zenon DEF IInv, InTx
<1> QED
  BY <1>1, <1>2, <1>3, <1>4, <1>5, Zenon DEF IInv

-----------------------------------------------------------------------------
(* The invariant                                                           *)

\* One finished original, no requests.
LEMMA InitIInv ==
    ASSUME CreationAssumption, CreationInit
    PROVE  IInv
<1>1. Original \in Record /\ Original.id = 1 /\ Original.key = <<"odoo", "first">>
      /\ Original.internal = FALSE /\ Original.period = 0 /\ Original.status = "failed"
  <2>1. <<"odoo", "first">> \in {"odoo"} \X (IdemKeys \cup {"first"})
    OBVIOUS
  <2>2. 0 \in 0..MaxPeriod
    BY DEF CreationAssumption
  <2> QED
    BY <2>1, <2>2 DEF Original, Record, Live, Agents
<1>2. ~ReprintOf(Original)
  BY <1>1 DEF ReprintOf
<1> HIDE DEF Original
<1>3. jobs = {Original} /\ receipts = {} /\ jobs \cup receipts = {Original} /\ nextId = 2
  BY DEF CreationInit
<1>4. TablesInv(jobs, receipts, nextId)
  <2>1. IsFiniteSet({Original})
    BY FS_Singleton
  <2> QED
    BY <1>1, <1>2, <1>3, <2>1 DEF TablesInv, RecordsInv
<1>5. CountInv(jobs, receipts, used)
  <2>1. LiveOf(jobs) = {} /\ \A a : QueueOf(jobs, a) = {}
    BY <1>1, <1>3 DEF LiveOf, QueueOf, Live
  <2>2. Cardinality({}) = 0 /\ Cardinality({Original}) = 1
    BY FS_EmptySet, FS_Singleton
  <2>3. \A p \in 0..MaxPeriod : InPeriod(jobs \cup receipts, p) = IF p = 0 THEN {Original} ELSE {}
    BY <1>1, <1>3, Zenon DEF InPeriod
  <2>4. used \in [0..MaxPeriod -> 0..max_prints_per_period]
    BY DEF CreationInit, CreationAssumption
  <2>5. ASSUME NEW p \in 0..MaxPeriod
        PROVE  used[p] = Cardinality(InPeriod(jobs \cup receipts, p))
    BY <2>2, <2>3 DEF CreationInit
  <2>6. Cardinality(LiveOf(jobs)) <= max_concurrent_jobs
    BY <2>1, <2>2 DEF CreationAssumption
  <2>7. \A a \in Agents : Cardinality(QueueOf(jobs, a)) <= MAX_AGENT_QUEUED_JOBS
    BY <2>1, <2>2 DEF CreationAssumption
  <2> QED
    BY <1>3, <2>4, <2>5, <2>6, <2>7, Zenon DEF CountInv
<1>6. period \in 0..MaxPeriod /\ printer \in [agent: Agents \cup {"gone"}, usable: BOOLEAN]
  BY DEF CreationInit, CreationAssumption, Agents
<1>7. /\ Idle \in Request /\ Idle.pc = "idle" /\ Idle.id = NoId /\ Idle.kind = "odoo"
  BY KeyShapes DEF Idle, Request, Pcs, NoId, Agents
<1>8. ~Holding(Idle)
  BY <1>7 DEF Holding
<1>9. Wellformed(Idle, nextId) /\ Knows(Idle, jobs, receipts) /\ Authorized(Idle)
  <2>1. Wellformed(Idle, nextId)
    BY <1>3, <1>7 DEF Wellformed, NoId
  <2>2. Knows(Idle, jobs, receipts)
    BY <1>7, <1>8 DEF Knows
  <2>3. Authorized(Idle)
    BY <1>8, Zenon DEF Authorized
  <2> QED
    BY <2>1, <2>2, <2>3
<1>10. req = [r \in Requests |-> req[r]] /\ \A r \in Requests : req[r] = Idle
  BY DEF CreationInit
<1>11. \A r \in Requests : ~InTx(r)
  BY <1>8, <1>10, Zenon DEF InTx, Holding
<1>12. \A r \in Requests : Authorized(req[r])
  BY <1>9, <1>10, Zenon
<1> QED
  BY <1>4, <1>5, <1>6, <1>9, <1>10, <1>11, <1>12, Zenon DEF IInv

\* The invariant is inductive.
LEMMA NextIInv ==
    ASSUME CreationAssumption, SweepOverlaps = FALSE, IInv, [CreationNext]_creationVars
    PROVE  IInv'
<1>1. ASSUME NEW r \in Requests, Step(r)
      PROVE  IInv'
  BY <1>1, Arrivals, FenceStep, CoordinateStep, FindReceiptStep, AdmitStep, RecoverStep, ReadStep,
     Zenon DEF Step
<1>2. ASSUME NEW j \in jobs, claim(j) \/ finish(j) \/ cleanupTerminalPrintJob(j) \/ DELETE(j)
      PROVE  IInv'
  BY <1>2, StatusStep, ArchiveStep, Zenon
<1>3. CASE UNCHANGED creationVars
  <2>1. UNCHANGED <<nextId, Rest, req>> /\ jobs' = jobs /\ receipts' = receipts
    BY <1>3, Zenon DEF creationVars, Rest
  <2>2. /\ TablesInv(jobs', receipts', nextId) /\ CountInv(jobs', receipts', used)
        /\ \A r \in Requests : Knows(req[r], jobs', receipts')
    BY <2>1, Zenon DEF IInv
  <2> QED
    BY <2>1, <2>2, TableStep, Zenon
<1> QED
  BY <1>1, <1>2, <1>3, WorldStep, Zenon DEF CreationNext

\* The tables, the counters and every request stay consistent with each other.
THEOREM CreationInvariance ==
    ASSUME CreationAssumption, SweepOverlaps = FALSE
    PROVE  CreationSpec => []IInv
<1>1. CreationInit => IInv
  BY InitIInv
<1>2. IInv /\ [CreationNext]_creationVars => IInv'
  BY NextIInv
<1> QED
  BY <1>1, <1>2, PTL DEF CreationSpec

\* An idempotency key names one job, for ever and to everyone who asks: a retry, a replay, a
\* reprint and a look-up by key never find a second job or someone else's, however requests,
\* retention and the loss of the printer interleave.
THEOREM KeysNameJobs ==
    ASSUME CreationAssumption, SweepOverlaps = FALSE
    PROVE  CreationSpec => []KeyNamesOneJob
<1>1. ASSUME IInv
      PROVE  KeyNamesOneJob
  <2>1. /\ RecordsInv(jobs \cup receipts, nextId) /\ jobs \cup receipts \subseteq Record
        /\ used \in [0..MaxPeriod -> 0..max_prints_per_period]
    BY <1>1 DEF IInv, TablesInv, RecordsInv, CountInv
  <2>2. Cardinality({r \in Requests : InTx(r)}) <= 1
    <3> DEFINE T == {r \in Requests : InTx(r)}
    <3>1. CASE T = {}
      BY <3>1, FS_EmptySet
    <3>2. CASE T # {}
      <4>1. PICK r \in Requests : InTx(r)
        BY <3>2
      <4>2. T = {r}
        BY <1>1, <4>1, Zenon DEF IInv
      <4> QED
        BY <4>2, FS_Singleton
    <3> QED
      BY <3>1, <3>2
  <2>3. CreationTypeOK
    BY <1>1, <2>1, <2>2, Zenon DEF CreationTypeOK, RecordsInv, IInv
  <2>4. OneJobPerKey
    BY <2>1, Zenon DEF OneJobPerKey, RecordsInv
  <2>5. ReplayIsSameOperation
    BY <1>1, Zenon DEF ReplayIsSameOperation, IInv, Knows
  <2>6. AcceptedIsFound
    BY <1>1, Zenon DEF AcceptedIsFound, IInv, Knows
  <2> QED
    BY <2>3, <2>4, <2>5, <2>6, Zenon DEF KeyNamesOneJob
<1> QED
  BY <1>1, CreationInvariance, PTL

\* Credits, reprints and queue places are never over-committed, however the requests race for
\* the last one: one credit for every job ever admitted, at most one live reprint, and no
\* queue or plan beyond its limit.
THEOREM LimitsAreKept ==
    ASSUME CreationAssumption, SweepOverlaps = FALSE
    PROVE  CreationSpec => []LimitsHold
<1>1. ASSUME IInv
      PROVE  LimitsHold
  <2>1. CountInv(jobs, receipts, used)
    BY <1>1, Zenon DEF IInv
  <2>2. CreditsMatchJobs
    BY <2>1, Zenon DEF CountInv, CreditsMatchJobs, InPeriod
  <2>3. Ceilings
    <3>1. LiveOf(jobs) = LiveJobs /\ \A a : QueueOf(jobs, a) = QueuedAt(a)
      BY Zenon DEF LiveOf, LiveJobs, QueueOf, QueuedAt
    <3> QED
      BY <2>1, <3>1, Zenon DEF CountInv, Ceilings
  <2>4. OneActiveReprint
    <3>1. CASE ActiveReprints = {}
      BY <3>1, FS_EmptySet DEF OneActiveReprint
    <3>2. CASE ActiveReprints # {}
      <4>1. PICK j \in ActiveReprints : TRUE
        BY <3>2
      <4>2. ActiveReprints = {j}
        BY <2>1, <4>1, Zenon DEF ActiveReprints, CountInv
      <4>3. Cardinality({j}) = 1
        BY FS_Singleton
      <4> QED
        BY <4>2, <4>3 DEF OneActiveReprint
    <3> QED
      BY <3>1, <3>2
  <2> QED
    BY <2>2, <2>3, <2>4, Zenon DEF LimitsHold
<1> QED
  BY <1>1, CreationInvariance, PTL

\* No job is inserted for a caller, a workspace or an owner that lost its standing after the
\* request was authenticated: the fence rereads them under locks that keep them as they are.
THEOREM AuthorityIsCurrent ==
    ASSUME CreationAssumption, SweepOverlaps = FALSE
    PROVE  CreationSpec => AdmittedUnderAuthority
<1>1. IInv /\ [CreationNext]_creationVars => [InsertedWithStanding]_creationVars
  <2> SUFFICES ASSUME IInv, CreationNext, NEW r \in Requests, req[r].pc = "noReceipt",
                      nextId' = nextId + 1, req[r].pc # req'[r].pc
               PROVE  /\ tenant = "active" /\ printer.agent = req[r].agent /\ printer.usable
                      /\ IF req[r].kind = "odoo" THEN apiKey = "live" ELSE manager
    BY Zenon DEF InsertedWithStanding
  <2>1. nextId' # nextId
    BY DEF IInv, TablesInv, RecordsInv
  <2>2. \A s \in Requests : Step(s) => admit(s)
    BY <2>1, Zenon DEF Step, GET, POST, reprint, fence, coordinateReprint, findReceipt,
       recoverReceiptForMissingOwner, readJob, readReceipt, Tables
  <2>3. PICK s \in Requests : admit(s)
    BY <2>1, <2>2, Zenon
    DEF CreationNext, claim, finish, cleanupTerminalPrintJob, DELETE, revokeKey, toggleKey, suspendTenant,
        endSession, renew, changePrinter, Tables
  <2>4. Admissible(s) /\ Created(s)
    BY <2>1, <2>3, Zenon DEF admit, Tables
  <2>5. s = r
    BY <2>4 DEF Created, Put, IInv
  <2>6. Authorized(req[r]) /\ Holding(req[r])
    BY RequestFits DEF Holding
  <2> QED
    BY <2>4, <2>5, <2>6, Zenon DEF Authorized, Admissible, OwnerAccepts
<1> QED
  BY <1>1, CreationInvariance, PTL DEF CreationSpec, AdmittedUnderAuthority

=============================================================================
