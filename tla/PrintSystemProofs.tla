------------------------- MODULE PrintSystemProofs -------------------------
(***************************************************************************)
(* Theorems about PrintSystem, for every number of jobs, claims and        *)
(* crashes and every loss, repetition and reordering of deliveries and     *)
(* reports. The Gateway's half of the system is GatewayJobs: what the Go   *)
(* agent sends is what the environment of that module may send. The other  *)
(* theorems are the promises about paper.                                  *)
(***************************************************************************)
EXTENDS PrintSystemSteps, GatewayJobsProofs

\* The composed system keeps the Gateway's invariant and its own: what GatewayJobs lets an
\* arbitrary agent do includes everything the real agent does.
THEOREM SysInvariance == SysSpec => [](IInv /\ SysInv)
<1>1. SysInit => IInv /\ SysInv
  BY InitIInv, SysInitInv, Zenon DEF SysInit
<1>2. IInv /\ SysInv /\ [SysNext]_sysVars => (IInv /\ SysInv)'
  <2> SUFFICES ASSUME IInv, SysInv, [SysNext]_sysVars
               PROVE  IInv' /\ SysInv'
    OBVIOUS
  <2>1. SysInv' /\ [Next]_vars
    BY NextSysInv, Zenon
  <2>2. TypeOK'
    BY <2>1, NextType, Zenon DEF IInv
  <2> QED
    BY <2>1, <2>2, NextIInv, Zenon
<1> QED
  BY <1>1, <1>2, PTL DEF SysSpec

\* The Gateway beside the real agent is the Gateway beside any agent: every theorem about
\* GatewayJobs holds of the composed system.
THEOREM SystemImplementsGateway == SysSpec => Spec
<1>1. SysInit => Init
  BY DEF SysInit
<1>2. IInv /\ SysInv /\ [SysNext]_sysVars => [Next]_vars
  BY NextSysInv, Zenon
<1> QED
  BY <1>1, <1>2, SysInvariance, PTL DEF SysSpec, Spec

\* The agent's ledger, workers, fences and reports stay in their types: no statement of
\* the ledger and no handler stores a status or marker the other side does not know.
THEOREM SystemTypeCorrect == SysSpec => []SysTypeOK
<1>1. SysInv => SysTypeOK
  BY Zenon DEF SysInv, SysShape
<1> QED
  BY <1>1, SysInvariance, PTL

\* What counting by an injection says of cardinality.
LEMMA AtMostCounts ==
    ASSUME NEW A, NEW n \in Nat, AtMost(A, n)
    PROVE  IsFiniteSet(A) /\ Cardinality(A) <= n
<1>1. PICK f \in [A -> 1..n] : \A x, y \in A : f[x] = f[y] => x = y
  BY DEF AtMost
<1>2. f \in Injection(A, 1..n)
  BY <1>1, Zenon DEF Injection, IsInjective
<1>3. IsFiniteSet(1..n) /\ Cardinality(1..n) = n
  BY FS_Interval
<1> QED
  BY <1>2, <1>3, FS_Injection

\* What has come out, job by job: every attempt that printed either was given back by a
\* recovery, or is the one attempt handed out and never returned.
LEMMA PaperIsCounted ==
    ASSUME IInv, SysInv, NEW j \in Jobs
    PROVE  /\ paper[j] \cap returned[j] \subseteq CrashTokens(sent[j])
           /\ paper[j] \subseteq CrashTokens(sent[j]) \cup (handed[j] \ returned[j])
           /\ ~reprint => CrashTokens(sent[j]) = {}
<1>1. /\ Local(j) /\ received[j] \subseteq handed[j] /\ \A t \in returned[j] : ~NotReturned(sent[j], t)
      /\ reprint \in BOOLEAN
  BY Zenon DEF SysInv, SysShape, SysTypeOK
<1>2. paper[j] \subseteq received[j] /\ \A m \in sent[j] : Fits(m, received[j], paper[j], reprint)
  BY <1>1, Zenon DEF Local, LocalInv
<1>3. ASSUME NEW x \in paper[j], x \in returned[j]
      PROVE  x \in CrashTokens(sent[j])
  <2>1. PICK m \in sent[j] : m.token = x /\ m.to = "queued"
    BY <1>1, <1>3, Zenon DEF NotReturned
  <2>2. m.reason = Reprint
    BY <1>2, <1>3, <2>1, Zenon DEF Fits
  <2> QED
    BY <2>1, <2>2, Zenon DEF CrashTokens
<1>4. ASSUME reprint = FALSE, NEW x \in CrashTokens(sent[j])
      PROVE  FALSE
  <2>1. PICK m \in sent[j] : m.token = x /\ m.reason = Reprint
    BY <1>4, Zenon DEF CrashTokens
  <2> QED
    BY <1>2, <1>4, <2>1, Zenon DEF Fits
<1> QED
  BY <1>1, <1>2, <1>3, <1>4, Zenon

\* A document comes out once; with reprint_after_crash, at most once more per crash. The
\* bound holds of every number of jobs, handlers, crashes, claims and retries.
THEOREM PaperIsBounded == SysSpec => []NoDuplicatePaper
<1>1. ASSUME IInv, SysInv
      PROVE  NoDuplicatePaper
  <2> SUFFICES ASSUME NEW j \in Jobs
               PROVE  Cardinality(paper[j]) <= 1 + (IF reprint THEN crashes ELSE 0)
    BY DEF NoDuplicatePaper
  <2> DEFINE C == CrashTokens(sent[j])
             H == handed[j] \ returned[j]
  <2>1. /\ IsFiniteSet(C) /\ Cardinality(C) <= crashes
        /\ crashes \in Nat /\ reprint \in BOOLEAN
    <3>1. /\ CrashInv(sent[j], crashes, up) /\ crashes \in 0..MaxCrashes /\ reprint \in BOOLEAN
          /\ up \in BOOLEAN
      BY <1>1, Zenon DEF SysInv, SysShape, SysTypeOK
    <3>2. crashes \in Nat
      BY <3>1, CrashAssumption
    <3>3. PICK n \in Nat : n <= crashes /\ AtMost(C, n)
      BY <3>1, <3>2 DEF CrashInv
    <3>4. IsFiniteSet(C) /\ Cardinality(C) <= n /\ Cardinality(C) \in Nat
      BY <3>3, AtMostCounts, FS_CardinalityType, Zenon
    <3> QED
      BY <3>1, <3>2, <3>3, <3>4
  <2>2. paper[j] \subseteq C \cup H /\ (~reprint => C = {})
    BY <1>1, PaperIsCounted, Zenon
  <2>3. \A a, b \in H : a = b
    BY <1>1, Zenon DEF IInv, HandoffInv, SingleLiveAttempt
  <2> HIDE DEF C, H
  <2>4. IsFiniteSet(H) /\ Cardinality(H) <= 1
    <3>1. CASE H = {}
      BY <3>1, FS_EmptySet
    <3>2. CASE H # {}
      <4>1. PICK a \in H : TRUE
        BY <3>2
      <4>2. H = {a}
        BY <2>3, <4>1, Zenon
      <4> QED
        BY <4>2, FS_Singleton
    <3> QED
      BY <3>1, <3>2
  <2>5. /\ IsFiniteSet(C \cup H)
        /\ Cardinality(C \cup H) = Cardinality(C) + Cardinality(H) - Cardinality(C \cap H)
    BY <2>1, <2>4, FS_Union
  <2>6. /\ IsFiniteSet(C \cap H) /\ Cardinality(C) \in Nat /\ Cardinality(H) \in Nat
        /\ Cardinality(C \cap H) \in Nat
    BY <2>1, <2>4, FS_Intersection, FS_CardinalityType, Zenon
  <2>7. Cardinality(paper[j]) <= Cardinality(C \cup H) /\ Cardinality(paper[j]) \in Nat
    BY <2>2, <2>5, FS_Subset, FS_CardinalityType
  <2>9. CASE reprint
    BY <2>1, <2>4, <2>5, <2>6, <2>7, <2>9
  <2>10. CASE ~reprint
    <3>1. Cardinality(C) = 0
      BY <2>2, <2>10, FS_EmptySet
    <3> QED
      BY <2>1, <2>4, <2>5, <2>6, <2>7, <2>10, <3>1
  <2> QED
    BY <2>9, <2>10
<1> QED
  BY <1>1, SysInvariance, PTL

\* What a client is told is honest: "not printed" means no output (unless the operator
\* enabled reprint_after_crash), and a success has its closing attempt's output.
THEOREM OutcomesAreHonest == SysSpec => []HonestOutcome
<1>1. ASSUME IInv, SysInv
      PROVE  HonestOutcome
  <2> SUFFICES ASSUME NEW j \in Jobs
               PROVE  /\ (/\ ~reprint /\ stage[j] # "absent"
                          /\ isTerminal(row[j]) /\ derivePhysicalOutcome(row[j]) = "not_printed")
                         => paper[j] = {}
                      /\ row[j].status = "success" => row[j].closed \in paper[j]
    BY DEF HonestOutcome
  <2>1. PaperInv(row[j], sent[j], worker[j], paper[j])
    BY <1>1, Zenon DEF SysInv
  <2>2. ASSUME ~reprint, isTerminal(row[j]), derivePhysicalOutcome(row[j]) = "not_printed"
        PROVE  paper[j] = {}
    <3>1. ~Spent(row[j])
      BY <2>2 DEF Spent, derivePhysicalOutcome, isTerminal, TerminalStatus
    <3>2. CrashTokens(sent[j]) = {}
      BY <1>1, <2>2, PaperIsCounted, Zenon
    <3> QED
      BY <2>1, <3>1, <3>2 DEF PaperInv
  <2> QED
    BY <2>1, <2>2 DEF PaperInv
<1> QED
  BY <1>1, SysInvariance, PTL

\* An attempt given back as not started never reaches the printer.
THEOREM GivenBackIsUnprinted == SysSpec => []ReturnedNeverPrints
<1>1. ASSUME IInv, SysInv
      PROVE  ReturnedNeverPrints
  BY <1>1, PaperIsCounted DEF ReturnedNeverPrints
<1> QED
  BY <1>1, SysInvariance, PTL

=============================================================================
