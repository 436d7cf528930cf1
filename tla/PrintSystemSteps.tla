------------------------- MODULE PrintSystemSteps --------------------------
(***************************************************************************)
(* The inductive invariant of PrintSystem, and every step of the system    *)
(* preserving it. The invariant says, of each job, what the ledger, the    *)
(* worker, the outcome kept in memory and the requests ever sent know of   *)
(* one another and of the attempts that may have printed, and what the     *)
(* Gateway's row knows of paper. The theorems that follow from it are in   *)
(* PrintSystemProofs.                                                      *)
(***************************************************************************)
EXTENDS PrintSystem, TLAPS

Msg == [to: JobStatus, error: JobError, reason: Reason, token: Nat]

\* The worker may still print: its attempt is neither over nor given back.
Active == {"received", "reserved", "began", "prepare", "admit", "bytes"}

\* The worker has opened a physical attempt in the ledger.
Attempting == {"began", "prepare", "admit", "bytes"}

Reprint == "agent_reprint_after_crash"

\* Attempts given back by a recovery: the only ones given back that may have printed.
CrashTokens(S) == {m.token : m \in {n \in S : n.reason = Reprint}}

NotReturned(S, t) == \A m \in S : m.token = t => m.to # "queued"

-----------------------------------------------------------------------------
(* The invariant of one job's agent side. got: tokens received, S: requests *)
(* sent, e: ledger row, w: worker, f: outcome kept in memory, out: attempts *)
(* that may have printed, again: reprint_after_crash.                       *)

\* A request is one the agent may send, for an attempt it received; a success printed,
\* a plain failure or a return of an unstarted attempt did not.
Fits(m, got, out, again) ==
    /\ [to |-> m.to, error |-> m.error, reason |-> m.reason] \in Report
    /\ m.to # "expired"
    /\ m.token \in got
    /\ m.to = "success" => m.token \in out
    /\ m.to = "failed" /\ m.error = "plain" => m.token \notin out
    /\ m.to = "queued" /\ m.reason # Reprint => m.token \notin out
    /\ m.reason = Reprint => again = TRUE

\* A stored success belongs to an attempt that printed and that is never given back.
LedgerInv(e, S, got, out) ==
    /\ e \in LedgerRow
    /\ e.token # NoToken \/ e.status = "printing" => e.token \in got
    /\ e.status = "none" => e = NoEntry
    /\ e.status = "queued" => e.token \notin out
    /\ e.status = "success" =>
         /\ e.error = "null"
         /\ e.token # NoToken => e.token \in out
         /\ \E t \in out : NotReturned(S, t)
    /\ e.status = "failed" =>
         /\ e.error \in {"plain", "UNKNOWN_PARTIAL_DELIVERY", "AGENT_RESTART_DURING_PRINT"}
         /\ e.error = "plain" => e.token \notin out

\* While a worker may print, nothing but printing reports was sent for its attempt, and
\* from beginPrint on the ledger says so.
WorkerInv(w, e, f, S, got, out) ==
    /\ w \in Worker
    /\ w.pc = "idle" => w = Idle
    /\ w.pc # "idle" => w.token \in got
    /\ w.pc \in Active =>
         /\ f = NoResult
         /\ \A m \in S : m.token = w.token => m.to = "printing"
    /\ w.pc \in {"received", "reserved"} =>
         /\ e.status # "success"
         /\ Settled(e) => e.token # w.token
         /\ w.token \notin out
    /\ w.pc = "received" => e.token # w.token
    /\ w.pc \in Attempting => e.status = "printing" /\ e.token = w.token
    /\ w.pc = "began" => w.token \notin out
    /\ w.pc = "bytes" => w.token \in out

FenceInv(f, got, out) ==
    /\ f \in Outcome
    /\ f # NoResult =>
         /\ f.token \in got
         /\ f.to = "success" => f.error = "null" /\ f.token \in out
         /\ f.to = "failed" => /\ f.error \in {"plain", "UNKNOWN_PARTIAL_DELIVERY"}
                               /\ f.error = "plain" => f.token \notin out

LocalInv(got, S, e, w, f, out, again) ==
    /\ got \subseteq Nat /\ NoToken \notin got /\ out \subseteq got /\ S \subseteq Msg
    /\ \A m \in S : Fits(m, got, out, again)
    /\ LedgerInv(e, S, got, out)
    /\ WorkerInv(w, e, f, S, got, out)
    /\ FenceInv(f, got, out)

-----------------------------------------------------------------------------
(* What each kind of step does to that invariant                           *)

\* The worker is done with its attempt, or repeats a return.
LEMMA Retires ==
    ASSUME NEW got, NEW S, NEW e, NEW w, NEW f, NEW out, NEW again,
           LocalInv(got, S, e, w, f, out, again), NEW v \in Worker,
           v = Idle \/ (v.pc \in {"closing", "returning"} /\ v.token \in got)
    PROVE  LocalInv(got, S, e, v, f, out, again) /\ v.pc \notin Active
<1>1. /\ v.pc \in {"idle", "closing", "returning"} /\ (v.pc = "idle" => v = Idle)
      /\ v.pc # "idle" => v.token \in got
  BY DEF Idle
<1> QED
  BY <1>1, Zenon DEF LocalInv, WorkerInv, Active, Attempting

\* A stored success stays one that is never given back.
LEMMA LedgerSends ==
    ASSUME NEW got, NEW S, NEW e, NEW out, LedgerInv(e, S, got, out), NEW m,
           e.status = "success" /\ m.to = "queued" => m.token \notin out
    PROVE  LedgerInv(e, S \cup {m}, got, out)
<1>1. ASSUME e.status = "success"
      PROVE  \E t \in out : NotReturned(S \cup {m}, t)
  <2>1. PICK t \in out : NotReturned(S, t)
    BY <1>1, Zenon DEF LedgerInv
  <2>2. NotReturned(S \cup {m}, t)
    BY <1>1, <2>1, Zenon DEF NotReturned
  <2> QED
    BY <2>2
<1> QED
  BY <1>1, Zenon DEF LedgerInv

\* A request joins those sent.
LEMMA Sends ==
    ASSUME NEW got, NEW S, NEW e, NEW w, NEW f, NEW out, NEW again,
           LocalInv(got, S, e, w, f, out, again), NEW m \in Msg, Fits(m, got, out, again),
           w.pc \in Active /\ m.token = w.token => m.to = "printing",
           e.status = "success" /\ m.to = "queued" => m.token \notin out
    PROVE  LocalInv(got, S \cup {m}, e, w, f, out, again)
<1>1. LedgerInv(e, S \cup {m}, got, out)
  BY LedgerSends, Zenon DEF LocalInv
<1>2. WorkerInv(w, e, f, S \cup {m}, got, out)
  BY Zenon DEF LocalInv, WorkerInv
<1> QED
  BY <1>1, <1>2, Zenon DEF LocalInv

\* The ledger row is rewritten while no worker may print.
LEMMA Stores ==
    ASSUME NEW got, NEW S, NEW e, NEW w, NEW f, NEW out, NEW again,
           LocalInv(got, S, e, w, f, out, again), w.pc \notin Active, NEW d,
           LedgerInv(d, S, got, out)
    PROVE  LocalInv(got, S, d, w, f, out, again)
BY Zenon DEF LocalInv, WorkerInv, Active, Attempting

\* The outcome is kept in memory.
LEMMA Fences ==
    ASSUME NEW got, NEW S, NEW e, NEW w, NEW f, NEW out, NEW again,
           LocalInv(got, S, e, w, f, out, again), w.pc \notin Active, NEW g,
           FenceInv(g, got, out)
    PROVE  LocalInv(got, S, e, w, g, out, again)
BY Zenon DEF LocalInv, WorkerInv

\* A delivery arrives.
LEMMA Gets ==
    ASSUME NEW got, NEW S, NEW e, NEW w, NEW f, NEW out, NEW again,
           LocalInv(got, S, e, w, f, out, again), NEW t \in Nat, t # NoToken
    PROVE  LocalInv(got \cup {t}, S, e, w, f, out, again)
<1>1. \A m \in S : Fits(m, got \cup {t}, out, again)
  BY Zenon DEF LocalInv, Fits
<1>2. LedgerInv(e, S, got \cup {t}, out)
  BY Zenon DEF LocalInv, LedgerInv
<1>3. WorkerInv(w, e, f, S, got \cup {t}, out)
  BY Zenon DEF LocalInv, WorkerInv
<1>4. FenceInv(f, got \cup {t}, out)
  BY Zenon DEF LocalInv, FenceInv
<1> QED
  BY <1>1, <1>2, <1>3, <1>4, SMTT(30) DEF LocalInv

\* A worker takes the delivery: whatever the ledger holds is older.
LEMMA Accepts ==
    ASSUME NEW got, NEW S, NEW e, NEW w, NEW f, NEW out, NEW again,
           LocalInv(got, S, e, w, f, out, again), NEW t \in Nat \ got, t # NoToken,
           f = NoResult, e.status # "success"
    PROVE  LocalInv(got \cup {t}, S, e, [Idle EXCEPT !.pc = "received", !.token = t], f, out, again)
<1> DEFINE v == [Idle EXCEPT !.pc = "received", !.token = t]
<1>1. v.pc = "received" /\ v.token = t /\ v \in Worker
  BY Zenon DEF Idle, Worker, WorkerStep
<1>2. /\ \A m \in S : m.token # t
      /\ e.token # t /\ t \notin out
  BY Zenon DEF LocalInv, Fits, LedgerInv
<1>3. LocalInv(got \cup {t}, S, e, w, f, out, again)
  BY Gets, SMTT(30)
<1> HIDE DEF v
<1>4. WorkerInv(v, e, f, S, got \cup {t}, out)
  BY <1>1, <1>2, ZenonT(40) DEF WorkerInv, Attempting
<1> QED
  BY <1>3, <1>4, Zenon DEF LocalInv, v

\* The worker stays with its attempt and takes its next step.
LEMMA Continues ==
    ASSUME NEW got, NEW S, NEW e, NEW w, NEW f, NEW out, NEW again,
           LocalInv(got, S, e, w, f, out, again), w.pc \in Active, NEW v \in Worker,
           v.token = w.token, NEW d, LedgerInv(d, S, got, out), NEW o,
           v.pc = "reserved" => /\ w.pc = "received" /\ d.status # "success" /\ o = out
                                /\ Settled(d) => d.token # w.token,
           v.pc \in Attempting => d.status = "printing" /\ d.token = w.token,
           v.pc = "began" => w.token \notin o, v.pc = "bytes" => w.token \in o,
           v.pc \in {"reserved", "began", "prepare", "admit", "bytes"}
    PROVE  WorkerInv(v, d, f, S, got, o)
BY ZenonT(40) DEF LocalInv, WorkerInv, Active, Attempting

-----------------------------------------------------------------------------
(* The statements of the ledger                                            *)

\* The statuses and markers that the agent's statements write.
LEMMA Wording ==
    /\ JobStatus = {"queued", "claimed", "printing", "success", "failed", "expired"}
    /\ Fresh \in Fresh..Retention /\ NoToken \in Nat
    /\ UnknownMarker \subseteq JobError
    /\ {"null", Pending, Paused, "plain", "LATE_SUCCESS",
        "LATE_SUCCESS_POST_EXPIRATION"} \subseteq JobError
BY DEF JobStatus, LiveStatus, TerminalStatus, Fresh, Retention, NoToken, JobError

\* What the queue package writes stays consistent with what was sent and printed.
LEMMA LedgerStatements ==
    ASSUME NEW S, NEW e, NEW got, NEW out, got \subseteq Nat, NoToken \notin got,
           out \subseteq got, LedgerInv(e, S, got, out)
    PROVE  /\ LedgerInv(NoEntry, S, got, out)
           /\ LedgerInv(AbortPrint(e), S, got, out)
           /\ LedgerInv(MarkInterrupted(e), S, got, out)
           /\ \A t : LedgerInv(ClearPreDispatchClaim(e, t), S, got, out)
           /\ \A t : LedgerInv(ClearClaimToken(e, t), S, got, out)
           /\ \A t \in got : LedgerInv(BeginPrint(e, t), S, got, out)
           /\ \A t \in got \ out : LedgerInv(ReserveBeforeDispatch(e, t), S, got, out)
           /\ e.status # "none" => LedgerInv(UpdateTerminal(e, "failed", "UNKNOWN_PARTIAL_DELIVERY"), S, got, out)
           /\ e.status = "printing" =>
                /\ e.token \notin out => LedgerInv(UpdateTerminal(e, "failed", "plain"), S, got, out)
                /\ e.token \in out /\ NotReturned(S, e.token)
                     => LedgerInv(UpdateTerminal(e, "success", "null"), S, got, out)
<1> USE DEF LedgerInv, LedgerRow, LedgerStatus
<1>1. NoToken \in Nat /\ NoToken \notin out
  BY DEF NoToken
<1>2. LedgerInv(NoEntry, S, got, out)
  BY <1>1, Wording DEF NoEntry
<1>3. LedgerInv(AbortPrint(e), S, got, out)
  BY <1>1, Wording DEF AbortPrint
<1>4. LedgerInv(MarkInterrupted(e), S, got, out)
  BY <1>1, Wording, Zenon DEF MarkInterrupted, UpdateTerminal, UnknownMarker
<1>5. ASSUME NEW t
      PROVE  /\ LedgerInv(ClearPreDispatchClaim(e, t), S, got, out)
             /\ LedgerInv(ClearClaimToken(e, t), S, got, out)
  BY <1>1 DEF ClearPreDispatchClaim, ClearClaimToken, Settled
<1>6. ASSUME NEW t \in got
      PROVE  LedgerInv(BeginPrint(e, t), S, got, out)
  BY Zenon DEF BeginPrint
<1>7. ASSUME NEW t \in got \ out
      PROVE  LedgerInv(ReserveBeforeDispatch(e, t), S, got, out)
  BY <1>1, Wording DEF ReserveBeforeDispatch
<1>8. e.status # "none" => LedgerInv(UpdateTerminal(e, "failed", "UNKNOWN_PARTIAL_DELIVERY"), S, got, out)
  BY <1>1, Wording, Zenon DEF UpdateTerminal, UnknownMarker
<1>9. ASSUME e.status = "printing"
      PROVE  /\ e.token \notin out => LedgerInv(UpdateTerminal(e, "failed", "plain"), S, got, out)
             /\ e.token \in out /\ NotReturned(S, e.token)
                  => LedgerInv(UpdateTerminal(e, "success", "null"), S, got, out)
  BY <1>1, <1>9, Wording, Zenon DEF UpdateTerminal
<1> QED
  BY <1>2, <1>3, <1>4, <1>5, <1>6, <1>7, <1>8, <1>9, Zenon

\* The steps of a worker, in the variables of the job.
LEMMA WorkerMoves ==
    ASSUME NEW w \in Worker, NEW pc \in WorkerStep
    PROVE  LET v == [w EXCEPT !.pc = pc, !.reply = "none"]
           IN  v \in Worker /\ v.pc = pc /\ v.token = w.token /\ v.reply = "none"
BY Zenon DEF Worker

-----------------------------------------------------------------------------
(* The inductive invariant of the system                                   *)

Local(j) == LocalInv(received[j], sent[j], ledger[j], worker[j], fence[j], paper[j], reprint)

\* The row says that the document may have come out.
Spent(r) == \/ r.status = "printing"
            \/ isTerminal(r) /\ (r.status = "success" \/ r.error \in UnknownMarker)

\* A has at most n members.
AtMost(A, n) == \E f \in [A -> 1..n] : \A x, y \in A : f[x] = f[y] => x = y

\* One attempt is given back per recovery, and every recovery follows a crash.
CrashInv(S, n, on) == IF on THEN AtMost(CrashTokens(S), n)
                      ELSE \E k \in Nat : n = k + 1 /\ AtMost(CrashTokens(S), k)

\* A status report between its read and its UPDATE was sent by the agent, and is
\* handled as what it asks for.
HandlerInv ==
    \A p \in patches :
      /\ [to |-> p.to, error |-> p.error, reason |-> p.reason, token |-> p.token] \in sent[p.job]
      /\ p.branch = "crashRequeue" => p.to = "queued" /\ p.reason = Reprint
      /\ p.branch = "reject" => p.to = "queued" /\ p.reason # Reprint
      /\ p.branch \in {"late", "lateExpired"} => p.to = "success"
      /\ p.to = "printing" => p.branch = "transition"
      /\ p.branch # "expire"

\* The Gateway's row knows of paper: of an attempt that may have printed and was not
\* given back, and of one whose last admission was granted.
PaperInv(r, S, w, out) ==
    /\ out \ CrashTokens(S) # {} => Spent(r)
    /\ w.pc = "admit" /\ w.reply = "accepted" => Spent(r)
    /\ r.status = "success" => r.closed \in out

SysShape == SysTypeOK /\ sent \in [Jobs -> SUBSET Msg]

SysInv ==
    /\ SysShape
    /\ \A j \in Jobs : Local(j)
    /\ \A j \in Jobs : received[j] \subseteq handed[j]
    /\ \A j \in Jobs : \A t \in returned[j] : ~NotReturned(sent[j], t)
    /\ \A j \in Jobs : ~up => worker[j] = Idle /\ fence[j] = NoResult
    /\ \A j \in Jobs : CrashInv(sent[j], crashes, up)
    /\ HandlerInv
    /\ \A j \in Jobs : PaperInv(row[j], sent[j], worker[j], paper[j])

\* Of the agent's and the network's variables, only those of job j change.
Only(j) == /\ received' = [received EXCEPT ![j] = received'[j]]
           /\ sent' = [sent EXCEPT ![j] = sent'[j]]
           /\ ledger' = [ledger EXCEPT ![j] = ledger'[j]]
           /\ worker' = [worker EXCEPT ![j] = worker'[j]]
           /\ fence' = [fence EXCEPT ![j] = fence'[j]]
           /\ paper' = [paper EXCEPT ![j] = paper'[j]]

\* The invariant of one job after a step, from the values the step left.
LocalNow(j) == LocalInv(received'[j], sent'[j], ledger'[j], worker'[j], fence'[j], paper'[j], reprint')

\* It is the invariant of the job, primed.
LEMMA LocalPrimed ==
    ASSUME NEW j \in Jobs
    PROVE  LocalNow(j) <=> Local(j)'
BY Zenon DEF LocalNow, Local, LocalInv, Fits, LedgerInv, WorkerInv, FenceInv, NotReturned, Settled

\* So for the count of attempts given back.
LEMMA CrashPrimed ==
    ASSUME NEW j \in Jobs, CrashInv(sent'[j], crashes', up')
    PROVE  CrashInv(sent[j], crashes, up)'
BY DEF CrashInv, AtMost, CrashTokens

\* Requests that are not a recovery's leave the attempts given back as they are.
LEMMA CrashTokensKept ==
    ASSUME NEW S, NEW T, S \subseteq T, \A m \in T \ S : m.reason # Reprint
    PROVE  CrashTokens(T) = CrashTokens(S)
BY Zenon DEF CrashTokens

\* A step of the agent on one job preserves the invariant if it preserves that of the
\* job, and prints only where the Gateway's row says so.
LEMMA LocalStep ==
    ASSUME IInv, SysInv, NEW j \in Jobs, UNCHANGED <<vars, up, crashes, reprint>>, up, Only(j),
           LocalNow(j), sent[j] \subseteq sent'[j],
           \A m \in sent'[j] \ sent[j] : m.reason # Reprint,
           received'[j] \subseteq handed[j],
           paper'[j] = paper[j] \/ (Spent(row[j]) /\ paper[j] \subseteq paper'[j]),
           worker'[j] = worker[j] \/ worker'[j].reply = "none"
    PROVE  SysInv'
<1>1. ASSUME NEW k \in Jobs \ {j}
      PROVE  /\ received'[k] = received[k] /\ sent'[k] = sent[k] /\ ledger'[k] = ledger[k]
             /\ worker'[k] = worker[k] /\ fence'[k] = fence[k] /\ paper'[k] = paper[k]
  BY Zenon DEF Only, SysInv, SysShape, SysTypeOK
<1>2. ASSUME NEW k \in Jobs
      PROVE  LocalNow(k)
  <2>1. CASE k = j
    BY <2>1
  <2>2. CASE k # j
    <3>1. Local(k)
      BY Zenon DEF SysInv
    <3> QED
      BY <1>1, <2>2, <3>1, Zenon DEF LocalNow, Local
  <2> QED
    BY <2>1, <2>2
<1>3. \A k \in Jobs : Local(k)'
  BY <1>2, LocalPrimed, Zenon
<1>4. \A k \in Jobs : sent[k] \subseteq sent'[k] /\ CrashTokens(sent'[k]) = CrashTokens(sent[k])
  BY <1>1, CrashTokensKept, Zenon
<1>5. SysShape'
  <2>1. /\ received' \in [Jobs -> SUBSET Nat] /\ sent' \in [Jobs -> SUBSET Msg]
        /\ ledger' \in [Jobs -> LedgerRow] /\ worker' \in [Jobs -> Worker]
        /\ fence' \in [Jobs -> Outcome] /\ paper' \in [Jobs -> SUBSET Nat]
    BY Zenon DEF Only, SysInv, SysShape, SysTypeOK, LocalNow, LocalInv, LedgerInv, WorkerInv, FenceInv
  <2>2. \A k \in Jobs : sent'[k] \subseteq Msg
    BY <2>1
  <2> QED
    BY <2>1, <2>2, Zenon DEF SysInv, SysShape, SysTypeOK, Msg
<1>6. \A k \in Jobs : (received[k] \subseteq handed[k])'
  BY <1>1, Zenon DEF SysInv, vars
<1>7. \A k \in Jobs : \A t \in returned'[k] : ~NotReturned(sent'[k], t)
  <2> SUFFICES ASSUME NEW k \in Jobs, NEW t \in returned'[k]
               PROVE  ~NotReturned(sent'[k], t)
    OBVIOUS
  <2>1. ~NotReturned(sent[k], t)
    BY Zenon DEF SysInv, vars
  <2> QED
    BY <1>4, <2>1, Zenon DEF NotReturned
<1>8. \A k \in Jobs : CrashInv(sent'[k], crashes', up')
  BY <1>4, SMTT(30) DEF SysInv, CrashInv
<1>9. HandlerInv'
  <2>1. \A p \in patches : p.job \in Jobs
    BY DEF IInv, TypeOK, Patch
  <2> QED
    BY <1>4, <2>1, Zenon DEF SysInv, HandlerInv, vars
<1>10. \A k \in Jobs : PaperInv(row'[k], sent'[k], worker'[k], paper'[k])
  <2> SUFFICES ASSUME NEW k \in Jobs
               PROVE  PaperInv(row'[k], sent'[k], worker'[k], paper'[k])
    OBVIOUS
  <2>1. row'[k] = row[k] /\ PaperInv(row[k], sent[k], worker[k], paper[k])
    BY Zenon DEF SysInv, vars
  <2>2. CASE k # j
    BY <1>1, <2>1, <2>2
  <2>3. CASE k = j
    BY <1>4, <2>1, <2>3, Zenon DEF PaperInv
  <2> QED
    BY <2>2, <2>3
<1> QED
  BY <1>3, <1>5, <1>6, <1>7, <1>8, <1>9, <1>10, Zenon
  DEF SysInv, NotReturned, CrashInv, AtMost, CrashTokens, PaperInv, Spent, isTerminal

-----------------------------------------------------------------------------
(* The steps of the agent                                                  *)

\* What the shape of the variables says of one job.
LEMMA JobShape ==
    ASSUME SysShape, NEW j \in Jobs
    PROVE  /\ received = [received EXCEPT ![j] = received[j]]
           /\ sent = [sent EXCEPT ![j] = sent[j]]
           /\ ledger = [ledger EXCEPT ![j] = ledger[j]]
           /\ worker = [worker EXCEPT ![j] = worker[j]]
           /\ fence = [fence EXCEPT ![j] = fence[j]]
           /\ paper = [paper EXCEPT ![j] = paper[j]]
           /\ \A x : [received EXCEPT ![j] = x][j] = x /\ [sent EXCEPT ![j] = x][j] = x
           /\ \A x : [ledger EXCEPT ![j] = x][j] = x /\ [worker EXCEPT ![j] = x][j] = x
           /\ \A x : [fence EXCEPT ![j] = x][j] = x /\ [paper EXCEPT ![j] = x][j] = x
BY Zenon DEF SysShape, SysTypeOK

\* LocalStep, for a step given by the values it writes.
LEMMA StepTo ==
    ASSUME IInv, SysInv, NEW j \in Jobs, UNCHANGED <<vars, up, crashes, reprint>>, up,
           NEW got, NEW S, NEW e, NEW w, NEW f, NEW out,
           received' = [received EXCEPT ![j] = got], sent' = [sent EXCEPT ![j] = S],
           ledger' = [ledger EXCEPT ![j] = e], worker' = [worker EXCEPT ![j] = w],
           fence' = [fence EXCEPT ![j] = f], paper' = [paper EXCEPT ![j] = out],
           LocalInv(got, S, e, w, f, out, reprint),
           sent[j] \subseteq S, \A m \in S \ sent[j] : m.reason # Reprint, got \subseteq handed[j],
           out = paper[j] \/ (Spent(row[j]) /\ paper[j] \subseteq out),
           w = worker[j] \/ w.reply = "none"
    PROVE  SysInv'
<1>1. SysShape
  BY DEF SysInv
<1>2. /\ received'[j] = got /\ sent'[j] = S /\ ledger'[j] = e
      /\ worker'[j] = w /\ fence'[j] = f /\ paper'[j] = out
  BY <1>1, JobShape, Zenon
<1>3. Only(j)
  BY <1>2, Zenon DEF Only
<1>4. LocalNow(j)
  BY <1>2, Zenon DEF LocalNow
<1> QED
  BY <1>2, <1>3, <1>4, LocalStep, Zenon

\* The tokens handed over are numbers other than NoToken.
LEMMA HandedTokens ==
    ASSUME IInv, NEW j \in Jobs
    PROVE  handed[j] \subseteq Nat /\ NoToken \notin handed[j]
<1>1. handed[j] \subseteq 1..minted[j] /\ minted[j] \in Nat
  BY SMTT(30) DEF IInv, HandoffInv, TypeOK
<1> QED
  BY <1>1 DEF NoToken

\* A token given back was received before: of an attempt the agent has not received, the
\* Gateway has had no return.
LEMMA NewDelivery ==
    ASSUME IInv, SysInv, NEW j \in Jobs, NEW t \in handed[j] \ received[j]
    PROVE  /\ t \notin returned[j]
           /\ ledger[j].status # "success"
<1>1. Local(j) /\ received[j] \subseteq handed[j] /\ \A r \in returned[j] : ~NotReturned(sent[j], r)
  BY Zenon DEF SysInv
<1>2. ASSUME NEW r \in returned[j]
      PROVE  r \in received[j]
  BY <1>1, Zenon DEF NotReturned, Local, LocalInv, Fits
<1>3. ASSUME ledger[j].status = "success"
      PROVE  FALSE
  <2>1. PICK s \in paper[j] : NotReturned(sent[j], s)
    BY <1>1, <1>3, Zenon DEF Local, LocalInv, LedgerInv
  <2>2. s \in received[j] /\ s \in handed[j] \ returned[j]
    BY <1>1, <2>1, Zenon DEF Local, LocalInv
  <2>3. s = t
    BY <1>2, <2>2, Zenon DEF IInv, HandoffInv, SingleLiveAttempt
  <2> QED
    BY <2>2, <2>3
<1> QED
  BY <1>2, <1>3

\* A delivery adds its token to those received, and may send one request and start a
\* worker.
LEMMA DeliverySteps ==
    ASSUME IInv, SysInv, NEW j \in Jobs, NEW t \in handed[j] \ received[j], UNCHANGED vars,
           \/ refuseDelivery(j, t) \/ reReportFence(j, t) \/ dropDuplicate(j, t)
           \/ acceptDelivery(j, t)
    PROVE  SysInv'
<1> DEFINE got == received[j] \cup {t}  S == sent[j]  e == ledger[j]  w == worker[j]
           f == fence[j]  out == paper[j]  again == reprint
<1>1. /\ SysShape /\ LocalInv(received[j], S, e, w, f, out, again)
      /\ received[j] \subseteq handed[j] /\ t \in Nat /\ t # NoToken
  BY HandedTokens, Zenon DEF SysInv, Local
<1>2. LocalInv(got, S, e, w, f, out, again)
  BY <1>1, Gets, Zenon
<1>3. t \in got /\ got \subseteq Nat /\ t \notin out /\ got \subseteq handed[j]
  BY <1>1, <1>2, Zenon DEF LocalInv
<1>4. up /\ received' = [received EXCEPT ![j] = got] /\ UNCHANGED <<up, crashes, reprint>>
  BY Zenon DEF refuseDelivery, reReportFence, dropDuplicate, acceptDelivery, Arrives, agentVars
<1> HIDE DEF got, S, e, w, f, out, again
<1>5. ASSUME NEW m \in Msg, Send(j, m), UNCHANGED agentVars, m.reason # Reprint,
             Fits(m, got, out, again),
             w.pc \in Active /\ m.token = w.token => m.to = "printing",
             e.status = "success" /\ m.to = "queued" => m.token \notin out
      PROVE  SysInv'
  <2>1. LocalInv(got, S \cup {m}, e, w, f, out, again)
    BY <1>2, <1>5, Sends, Zenon
  <2>2. /\ sent' = [sent EXCEPT ![j] = S \cup {m}] /\ ledger' = [ledger EXCEPT ![j] = e]
        /\ worker' = [worker EXCEPT ![j] = w] /\ fence' = [fence EXCEPT ![j] = f]
        /\ paper' = [paper EXCEPT ![j] = out]
    BY <1>1, <1>5, JobShape, Zenon DEF Send, agentVars, S, e, w, f, out
  <2>3. /\ sent[j] \subseteq S \cup {m} /\ \A n \in (S \cup {m}) \ sent[j] : n.reason # Reprint
        /\ out = paper[j] /\ w = worker[j]
    BY <1>5, Zenon DEF S, out, w
  <2> QED
    BY <1>3, <1>4, <2>1, <2>2, <2>3, StepTo, Zenon DEF again
<1>6. CASE refuseDelivery(j, t)
  <2> DEFINE m == Return("pre_execution", t)
  <2>1. /\ m \in Msg /\ Fits(m, got, out, again) /\ m.token = t /\ m.reason # Reprint
    BY <1>3, Wording DEF Return, Msg, Fits, Report, Reason, Reprint
  <2>2. w.pc \in Active => w.token # t
    BY <1>1, Zenon DEF LocalInv, WorkerInv, Active
  <2> QED
    BY <1>3, <1>5, <1>6, <2>1, <2>2, Zenon DEF refuseDelivery
<1>7. CASE reReportFence(j, t)
  <2> DEFINE m == Closing(f.to, f.error, f.token)
  <2>1. /\ f \in Outcome /\ f # NoResult /\ w.pc \notin Active /\ f.token \in got
        /\ f.to = "success" => f.error = "null" /\ f.token \in out
        /\ f.to = "failed" => /\ f.error \in {"plain", "UNKNOWN_PARTIAL_DELIVERY"}
                              /\ f.error = "plain" => f.token \notin out
    BY <1>2, <1>7, Zenon DEF reReportFence, LocalInv, FenceInv, WorkerInv, f
  <2>2. f.to \in {"success", "failed"}
    BY <2>1 DEF Outcome
  <2>3. /\ m \in Msg /\ Fits(m, got, out, again)
        /\ m.to # "queued" /\ m.reason # Reprint
    BY <1>3, <2>1, <2>2, Wording, Zenon DEF Closing, Msg, Fits, Report, Reason, Reprint, UnknownMarker
  <2> QED
    BY <1>5, <1>7, <2>1, <2>3, Zenon DEF reReportFence, f
<1>8. CASE dropDuplicate(j, t)
  <2>1. /\ sent' = [sent EXCEPT ![j] = S] /\ ledger' = [ledger EXCEPT ![j] = e]
        /\ worker' = [worker EXCEPT ![j] = w] /\ fence' = [fence EXCEPT ![j] = f]
        /\ paper' = [paper EXCEPT ![j] = out]
    BY <1>1, <1>8, JobShape, Zenon DEF dropDuplicate, agentVars, S, e, w, f, out
  <2> QED
    BY <1>2, <1>3, <1>4, <2>1, StepTo, Zenon DEF again, S, w, out
<1>9. CASE acceptDelivery(j, t)
  <2> DEFINE v == [Idle EXCEPT !.pc = "received", !.token = t]
  <2>1. f = NoResult /\ e.status # "success"
    BY <1>9, NewDelivery, Zenon DEF acceptDelivery, f, e
  <2>2. LocalInv(got, S, e, v, f, out, again)
    BY <1>1, <2>1, Accepts, Zenon DEF got
  <2>3. v.reply = "none"
    BY DEF Idle
  <2> HIDE DEF v
  <2>4. /\ sent' = [sent EXCEPT ![j] = S] /\ ledger' = [ledger EXCEPT ![j] = e]
        /\ worker' = [worker EXCEPT ![j] = v] /\ fence' = [fence EXCEPT ![j] = f]
        /\ paper' = [paper EXCEPT ![j] = out]
    BY <1>1, <1>9, JobShape, Zenon DEF acceptDelivery, S, e, v, f, out
  <2> QED
    BY <1>3, <1>4, <2>2, <2>3, <2>4, StepTo, Zenon DEF again, S, out
<1> QED
  BY <1>6, <1>7, <1>8, <1>9

\* The worker reports the end of its attempt and waits for the answer.
LEMMA EndStep ==
    ASSUME IInv, SysInv, NEW j \in Jobs, up, worker[j].pc \in Active,
           UNCHANGED <<vars, received, up, crashes, reprint, paper>>,
           NEW m \in Msg, Send(j, m), Go(j, "closing"), m.reason # Reprint,
           Fits(m, received[j], paper[j], reprint),
           ledger[j].status = "success" => m.to # "queued",
           NEW d, ledger' = [ledger EXCEPT ![j] = d],
           LedgerInv(d, sent[j] \cup {m}, received[j], paper[j]),
           NEW g, fence' = [fence EXCEPT ![j] = g], FenceInv(g, received[j], paper[j])
    PROVE  SysInv'
<1> DEFINE got == received[j]  S == sent[j]  e == ledger[j]  w == worker[j]
           f == fence[j]  out == paper[j]  again == reprint
           v == [w EXCEPT !.pc = "closing", !.reply = "none"]
<1>1. /\ SysShape /\ LocalInv(got, S, e, w, f, out, again) /\ got \subseteq handed[j]
      /\ w \in Worker /\ w.token \in got
  BY Zenon DEF SysInv, Local, LocalInv, WorkerInv, Active
<1>2. v \in Worker /\ v.pc = "closing" /\ v.token = w.token /\ v.reply = "none"
  BY <1>1, WorkerMoves, Zenon DEF WorkerStep
<1>3. /\ received' = [received EXCEPT ![j] = got] /\ sent' = [sent EXCEPT ![j] = S \cup {m}]
      /\ worker' = [worker EXCEPT ![j] = v] /\ paper' = [paper EXCEPT ![j] = out]
  BY <1>1, JobShape, Zenon DEF Send, Go
<1>4. S \subseteq S \cup {m} /\ \A n \in (S \cup {m}) \ S : n.reason # Reprint
  BY Zenon
<1>5. /\ Fits(m, got, out, again) /\ LedgerInv(d, S \cup {m}, got, out) /\ FenceInv(g, got, out)
      /\ e.status = "success" => m.to # "queued"
  BY Zenon
<1>6. /\ sent[j] = S /\ paper[j] = out /\ reprint = again
  OBVIOUS
<1> HIDE DEF got, S, e, w, f, out, again, v
<1>7. LocalInv(got, S, e, v, f, out, again) /\ v.pc \notin Active
  BY <1>1, <1>2, Retires, Zenon
<1>8. LocalInv(got, S \cup {m}, e, v, f, out, again)
  BY <1>5, <1>7, Sends, Zenon
<1>9. LocalInv(got, S \cup {m}, d, v, f, out, again)
  BY <1>5, <1>7, <1>8, Stores, Zenon
<1>10. LocalInv(got, S \cup {m}, d, v, g, out, again)
  BY <1>5, <1>7, <1>9, Fences, Zenon
<1>11. /\ LocalInv(got, S \cup {m}, d, v, g, out, reprint) /\ sent[j] \subseteq S \cup {m}
       /\ \A n \in (S \cup {m}) \ sent[j] : n.reason # Reprint
       /\ out = paper[j] /\ v.reply = "none" /\ got \subseteq handed[j]
  BY <1>1, <1>2, <1>4, <1>6, <1>10, Zenon
<1> QED
  BY <1>3, <1>11, StepTo, ZenonT(40)

\* The same where neither the ledger nor the memory of the process changes.
LEMMA PlainEndStep ==
    ASSUME IInv, SysInv, NEW j \in Jobs, up, worker[j].pc \in Active,
           UNCHANGED <<vars, received, ledger, fence, up, crashes, reprint, paper>>,
           NEW m \in Msg, Send(j, m), Go(j, "closing"), m.reason # Reprint,
           Fits(m, received[j], paper[j], reprint),
           ledger[j].status = "success" => m.to # "queued"
    PROVE  SysInv'
<1>1. SysShape /\ Local(j)
  BY Zenon DEF SysInv
<1>2. ledger' = [ledger EXCEPT ![j] = ledger[j]] /\ fence' = [fence EXCEPT ![j] = fence[j]]
  BY <1>1, JobShape, Zenon
<1>3. FenceInv(fence[j], received[j], paper[j])
  BY <1>1, Zenon DEF Local, LocalInv
<1>4. LedgerInv(ledger[j], sent[j] \cup {m}, received[j], paper[j])
  BY <1>1, LedgerSends, Zenon DEF Local, LocalInv
<1> QED
  BY <1>2, <1>3, <1>4, EndStep, Zenon

\* What the invariant says of a job whose worker may still print.
LEMMA ActiveFacts ==
    ASSUME SysInv, NEW j \in Jobs, worker[j].pc \in Active
    PROVE  /\ received[j] \subseteq Nat /\ worker[j].token \in received[j]
           /\ LedgerInv(ledger[j], sent[j], received[j], paper[j])
           /\ worker[j].pc \in {"received", "reserved", "began"} => worker[j].token \notin paper[j]
           /\ worker[j].pc \in {"received", "reserved"} => ledger[j].status # "success"
           /\ worker[j].pc \in Attempting => ledger[j].status = "printing" /\ ledger[j].token = worker[j].token
           /\ fence[j] = NoResult
           /\ \A m \in sent[j] : m.token = worker[j].token => m.to = "printing"
           /\ worker[j].pc = "bytes" => worker[j].token \in paper[j]
           /\ worker[j] \in Worker /\ paper[j] \subseteq received[j] /\ NoToken \notin received[j]
           /\ FenceInv(fence[j], received[j], paper[j])
BY Zenon DEF SysInv, Local, LocalInv, WorkerInv, Active

\* The attempt ends before it starts: a stored outcome is reported again, the payload or
\* the printer is unusable, the ledger fails, or a gate turns the job away.
LEMMA UnstartedSteps ==
    ASSUME IInv, SysInv, NEW j \in Jobs, UNCHANGED vars,
           \/ reReportStored(j) \/ invalidPayload(j) \/ ledgerUnavailable(j) \/ failUnstarted(j)
           \/ \E r \in {"pre_execution", "printer_not_shared"} : returnUnstarted(j, r)
    PROVE  SysInv'
<1> DEFINE t == worker[j].token  got == received[j]  out == paper[j]  again == reprint
           m(e) == Closing("failed", e, t)
           n(r) == Return(r, t)
           Sent(x) == x \in Msg /\ Fits(x, got, out, again) /\ x.reason # Reprint
<1>1. /\ up /\ worker[j].pc \in Active /\ worker[j].pc \in {"received", "reserved"}
      /\ Go(j, "closing") /\ UNCHANGED <<received, fence, up, crashes, reprint, paper>>
  BY Zenon DEF reReportStored, invalidPayload, ledgerUnavailable, failUnstarted, returnUnstarted,
               At, Active
<1>2. /\ got \subseteq Nat /\ t \in got /\ t \notin out /\ ledger[j].status # "success"
      /\ NoToken \notin got /\ out \subseteq got
      /\ LedgerInv(ledger[j], sent[j], got, out) /\ FenceInv(fence[j], got, out) /\ SysShape
  BY <1>1, ActiveFacts, Zenon DEF SysInv
<1>3. /\ Sent(m("plain")) /\ Sent(m("UNKNOWN_PARTIAL_DELIVERY"))
      /\ Sent(m("AGENT_RESTART_DURING_PRINT")) /\ Sent(n("pre_execution"))
      /\ Sent(n("printer_not_shared"))
  <2> HIDE DEF t, got, out, again
  <2> QED
    BY <1>2, Wording DEF Closing, Return, Msg, Fits, Report, Reason, Reprint, UnknownMarker
<1>4. ASSUME NEW x, Sent(x), Send(j, x), UNCHANGED ledger
      PROVE  SysInv'
  BY <1>1, <1>2, <1>4, PlainEndStep, Zenon
<1>5. ASSUME NEW x, Sent(x), Send(j, x), SetLedger(j, AbortPrint(ledger[j]))
      PROVE  SysInv'
  <2>1. LedgerInv(AbortPrint(ledger[j]), sent[j] \cup {x}, got, out)
    <3>1. LedgerInv(ledger[j], sent[j] \cup {x}, got, out)
      BY <1>2, LedgerSends, Zenon
    <3> QED
      BY <1>2, <3>1, LedgerStatements, Zenon
  <2>2. fence' = [fence EXCEPT ![j] = fence[j]]
    BY <1>1, <1>2, JobShape, Zenon
  <2> QED
    BY <1>1, <1>2, <1>5, <2>1, <2>2, EndStep, Zenon DEF SetLedger
<1>6. CASE reReportStored(j)
  <2>1. StoredOutcome(ledger[j], t) \in {m("UNKNOWN_PARTIAL_DELIVERY"), m("AGENT_RESTART_DURING_PRINT")}
    BY <1>2, Zenon DEF StoredOutcome, MarkerOf
  <2> QED
    BY <1>3, <1>4, <1>6, <2>1, Zenon DEF reReportStored
<1> HIDE DEF Sent
<1>7. CASE invalidPayload(j) \/ ledgerUnavailable(j)
  BY <1>3, <1>4, <1>7, Zenon DEF invalidPayload, ledgerUnavailable
<1>8. CASE failUnstarted(j) \/ \E r \in {"pre_execution", "printer_not_shared"} : returnUnstarted(j, r)
  BY <1>3, <1>5, <1>8, Zenon DEF failUnstarted, returnUnstarted
<1> QED
  BY <1>6, <1>7, <1>8

\* The claim is recorded in the ledger.
LEMMA ReserveStep ==
    ASSUME IInv, SysInv, NEW j \in Jobs, UNCHANGED vars, reserve(j)
    PROVE  SysInv'
<1> DEFINE got == received[j]  S == sent[j]  e == ledger[j]  w == worker[j]
           f == fence[j]  out == paper[j]  again == reprint
           d == ReserveBeforeDispatch(e, w.token)
           v == [w EXCEPT !.pc = "reserved", !.reply = "none"]
<1>1. /\ up /\ w.pc = "received" /\ w.pc \in Active /\ UNCHANGED <<up, crashes, reprint>>
  BY Zenon DEF reserve, At, Active
<1>2. /\ SysShape /\ LocalInv(got, S, e, w, f, out, again) /\ got \subseteq handed[j]
      /\ w \in Worker /\ w.token \in got \ out /\ got \subseteq Nat /\ NoToken \notin got
      /\ out \subseteq got /\ LedgerInv(e, S, got, out) /\ e.token # w.token
      /\ e.status # "success"
  BY <1>1, Zenon DEF SysInv, Local, LocalInv, WorkerInv, Active
<1>3. v \in Worker /\ v.pc = "reserved" /\ v.token = w.token /\ v.reply = "none"
  BY <1>2, WorkerMoves, Zenon DEF WorkerStep
<1>4. /\ received' = [received EXCEPT ![j] = got] /\ sent' = [sent EXCEPT ![j] = S]
      /\ worker' = [worker EXCEPT ![j] = v] /\ paper' = [paper EXCEPT ![j] = out]
      /\ ledger' = [ledger EXCEPT ![j] = d] /\ fence' = [fence EXCEPT ![j] = f]
  BY <1>2, JobShape, Zenon DEF reserve, Go, SetLedger, netVars
<1>5. sent[j] = S /\ paper[j] = out /\ reprint = again
  OBVIOUS
<1>6. LedgerInv(d, S, got, out)
  BY <1>2, LedgerStatements, Zenon
<1>7. d.status # "success" /\ (Settled(d) => d.token # w.token)
  <2> HIDE DEF e, w
  <2> QED
    BY <1>2 DEF ReserveBeforeDispatch, Settled, LedgerInv, LedgerRow
<1> HIDE DEF got, S, e, w, f, out, again, d, v
<1>8. WorkerInv(v, d, f, S, got, out)
  BY <1>1, <1>2, <1>3, <1>6, <1>7, Continues, Zenon DEF Attempting
<1>9. LocalInv(got, S, d, v, f, out, reprint)
  BY <1>2, <1>5, <1>6, <1>8, Zenon DEF LocalInv
<1>10. sent[j] \subseteq S /\ \A n \in S \ sent[j] : n.reason # Reprint
  BY <1>5, Zenon
<1> QED
  BY <1>1, <1>2, <1>3, <1>4, <1>5, <1>9, <1>10, StepTo, Zenon

\* A step of the agent for one job, given by the values it writes.
Writes(j, got, S, e, w, f, out) ==
    /\ UNCHANGED <<vars, up, crashes, reprint>>
    /\ received' = [received EXCEPT ![j] = got] /\ sent' = [sent EXCEPT ![j] = S]
    /\ ledger' = [ledger EXCEPT ![j] = e] /\ worker' = [worker EXCEPT ![j] = w]
    /\ fence' = [fence EXCEPT ![j] = f] /\ paper' = [paper EXCEPT ![j] = out]
    /\ LocalInv(got, S, e, w, f, out, reprint)
    /\ sent[j] \subseteq S /\ (\A m \in S \ sent[j] : m.reason # Reprint)
    /\ got \subseteq handed[j]
    /\ (out = paper[j] \/ (Spent(row[j]) /\ paper[j] \subseteq out))
    /\ (w = worker[j] \/ w.reply = "none")

\* StepTo, in one word.
LEMMA WritesStep ==
    ASSUME IInv, SysInv, NEW j \in Jobs, up,
           NEW got, NEW S, NEW e, NEW w, NEW f, NEW out, Writes(j, got, S, e, w, f, out)
    PROVE  SysInv'
BY StepTo, Zenon DEF Writes

\* A step of a worker that sends at most a printing report and stays with its attempt.
LEMMA AttemptStep ==
    ASSUME IInv, SysInv, NEW j \in Jobs, up, worker[j].pc \in Active,
           UNCHANGED <<vars, received, fence, up, crashes, reprint>>,
           NEW pc \in Attempting, Go(j, pc),
           sent' = sent \/ Send(j, Printing(worker[j].token)),
           NEW d, ledger' = [ledger EXCEPT ![j] = d],
           LedgerInv(d, sent[j], received[j], paper[j]),
           d.status = "printing", d.token = worker[j].token,
           pc = "began" => worker[j].token \notin paper[j],
           \/ pc # "bytes" /\ paper' = paper
           \/ /\ pc = "bytes" /\ Spent(row[j]) /\ ledger[j] = d
              /\ paper' = [paper EXCEPT ![j] = @ \cup {worker[j].token}]
    PROVE  SysInv'

<1> DEFINE got == received[j]  S == sent[j]  e == ledger[j]  w == worker[j]
           f == fence[j]  out == paper[j]  again == reprint
           v == [w EXCEPT !.pc = pc, !.reply = "none"]
<1>1. /\ SysShape /\ LocalInv(got, S, e, w, f, out, again) /\ got \subseteq handed[j]
      /\ w \in Worker /\ w.token \in got /\ w.pc \in Active /\ got \subseteq Nat
  BY Zenon DEF SysInv, Local, LocalInv, WorkerInv, Active
<1>2. /\ v \in Worker /\ v.pc = pc /\ v.token = w.token /\ v.reply = "none"
      /\ v.pc \in {"began", "prepare", "admit", "bytes"} /\ v.pc \in Active
  <2>1. pc \in WorkerStep /\ pc \in {"began", "prepare", "admit", "bytes"} /\ pc \in Active
    BY DEF WorkerStep, Attempting, Active
  <2> QED
    BY <1>1, <2>1, WorkerMoves, Zenon
<1>3. /\ received' = [received EXCEPT ![j] = got] /\ fence' = [fence EXCEPT ![j] = f]
      /\ worker' = [worker EXCEPT ![j] = v]
  BY <1>1, JobShape, Zenon DEF Go
<1>4. sent[j] = S /\ paper[j] = out /\ reprint = again /\ worker[j] = w /\ ledger[j] = e
  OBVIOUS
<1>5. PICK o : /\ paper' = [paper EXCEPT ![j] = o]
               /\ \/ pc # "bytes" /\ o = out
                  \/ pc = "bytes" /\ o = out \cup {w.token} /\ Spent(row[j]) /\ e = d
  BY <1>1, JobShape, Zenon
<1>6. LedgerInv(d, S, got, out) /\ (pc = "began" => w.token \notin o)
  BY <1>5, Zenon
<1> HIDE DEF got, S, e, w, f, out, again, v
<1>7. WorkerInv(v, d, f, S, got, o)
  <2>1. v.pc = "bytes" => w.token \in o
    BY <1>2, <1>5, Zenon
  <2> QED
    BY <1>1, <1>2, <1>4, <1>6, <2>1, Continues, Zenon DEF Attempting
<1>8. LocalInv(got, S, d, v, f, o, again)
  <2>1. CASE o = out
    BY <1>1, <1>6, <1>7, <2>1, Zenon DEF LocalInv
  <2>2. CASE o = out \cup {w.token}
    <3>1. ASSUME NEW m \in S
          PROVE  Fits(m, got, o, again)
      BY <1>1, <2>2, Zenon DEF LocalInv, Fits, WorkerInv
    <3>2. LedgerInv(d, S, got, o)
      BY <1>4, <1>6, <2>2, Zenon DEF LedgerInv
    <3>3. FenceInv(f, got, o)
      BY <1>1, Zenon DEF LocalInv, WorkerInv, FenceInv
    <3> QED
      BY <1>1, <1>7, <2>2, <3>1, <3>2, <3>3, Zenon DEF LocalInv
  <2> QED
    BY <1>5, <2>1, <2>2
<1> DEFINE T == sent'[j]
<1>9. /\ sent' = [sent EXCEPT ![j] = T] /\ LocalInv(got, T, d, v, f, o, again)
      /\ S \subseteq T /\ \A n \in T \ S : n.reason # Reprint
  <2>1. CASE sent' = sent
    BY <1>1, <1>4, <1>8, <2>1, JobShape, Zenon
  <2>2. CASE Send(j, Printing(worker[j].token))
    <3> DEFINE m == Printing(w.token)
    <3>1. /\ m \in Msg /\ Fits(m, got, o, again) /\ m.to = "printing" /\ m.reason # Reprint
      BY <1>1, Wording, Zenon DEF Printing, Msg, Fits, Report, Reason, Reprint
    <3> HIDE DEF m
    <3>2. LocalInv(got, S \cup {m}, d, v, f, o, again)
      <4>1. d.status # "success"
        OBVIOUS
      <4> QED
        BY <1>8, <3>1, <4>1, Sends, Zenon
    <3>3. sent' = [sent EXCEPT ![j] = S \cup {m}]
      BY <1>4, <2>2, Zenon DEF Send, m
    <3>4. T = S \cup {m}
      <4>1. \A x : [sent EXCEPT ![j] = x][j] = x
        BY <1>1, JobShape, ZenonT(40)
      <4> QED
        BY <3>3, <4>1
    <3> HIDE DEF T
    <3> QED
      BY <3>1, <3>2, <3>3, <3>4, Zenon
  <2> QED
    BY <2>1, <2>2
<1> HIDE DEF T
<1>10. /\ LocalInv(got, T, d, v, f, o, reprint) /\ sent[j] \subseteq T
       /\ \A n \in T \ sent[j] : n.reason # Reprint
       /\ o = paper[j] \/ (Spent(row[j]) /\ paper[j] \subseteq o)
       /\ got \subseteq handed[j] /\ v.reply = "none"
  BY <1>1, <1>2, <1>4, <1>5, <1>9, Zenon
<1> QED
  <2>1. UNCHANGED <<vars, up, crashes, reprint>>
    OBVIOUS
  <2>2. Writes(j, got, T, d, v, f, o)
    BY <1>3, <1>5, <1>9, <1>10, <2>1, Zenon DEF Writes
  <2> QED
    BY <2>2, WritesStep, Zenon

\* The physical attempt, up to and including its bytes.
LEMMA AttemptSteps ==
    ASSUME IInv, SysInv, NEW j \in Jobs, UNCHANGED vars,
           \/ printingAcknowledged(j) \/ runDispatchAdmission(j) \/ firstByte(j) \/ drawerKicked(j)
    PROVE  SysInv'
<1>1. /\ up /\ worker[j].pc \in Active /\ worker[j].pc \in Attempting
      /\ UNCHANGED <<vars, received, fence, up, crashes, reprint>> /\ UNCHANGED ledger
  BY Zenon DEF printingAcknowledged, runDispatchAdmission, firstByte, drawerKicked, At, Active,
               Attempting, netVars
<1>2. /\ LedgerInv(ledger[j], sent[j], received[j], paper[j])
      /\ ledger[j].status = "printing" /\ ledger[j].token = worker[j].token
  BY <1>1, ActiveFacts, Zenon
<1>3. ledger' = [ledger EXCEPT ![j] = ledger[j]]
  BY <1>1, JobShape, Zenon DEF SysInv
<1>4. CASE printingAcknowledged(j) \/ drawerKicked(j)
  <2>1. /\ Go(j, "prepare") /\ sent' = sent /\ paper' = paper
        /\ "prepare" \in Attempting /\ "prepare" # "began" /\ "prepare" # "bytes"
    BY <1>4 DEF printingAcknowledged, drawerKicked, Attempting, netVars
  <2> QED
    BY <1>1, <1>2, <1>3, <2>1, AttemptStep, Zenon
<1>5. CASE runDispatchAdmission(j)
  <2>1. /\ Go(j, "admit") /\ Send(j, Printing(worker[j].token)) /\ paper' = paper
        /\ "admit" \in Attempting /\ "admit" # "began" /\ "admit" # "bytes"
    BY <1>5 DEF runDispatchAdmission, Attempting
  <2> QED
    BY <1>1, <1>2, <1>3, <2>1, AttemptStep, Zenon
<1>6. CASE firstByte(j)
  <2>1. /\ Go(j, "bytes") /\ sent' = sent /\ "bytes" \in Attempting /\ "bytes" # "began"
        /\ paper' = [paper EXCEPT ![j] = @ \cup {worker[j].token}]
    BY <1>6 DEF firstByte, Attempting, netVars
  <2>2. Spent(row[j])
    BY <1>6, Zenon DEF SysInv, PaperInv, firstByte, At
  <2> QED
    BY <1>1, <1>2, <1>3, <2>1, <2>2, AttemptStep, Zenon
<1> QED
  BY <1>4, <1>5, <1>6

\* The physical attempt is opened in the ledger, unless the ledger forbids it.
LEMMA BeginStep ==
    ASSUME IInv, SysInv, NEW j \in Jobs, UNCHANGED vars, beginPrint(j)
    PROVE  SysInv'
<1> DEFINE e == ledger[j]  t == worker[j].token
<1>1. /\ up /\ worker[j].pc \in Active /\ worker[j].pc = "reserved"
      /\ UNCHANGED <<vars, received, fence, up, crashes, reprint>> /\ paper' = paper
  BY Zenon DEF beginPrint, At, Active
<1>2. /\ LedgerInv(e, sent[j], received[j], paper[j]) /\ t \in received[j] /\ t \notin paper[j]
      /\ e.status # "success" /\ received[j] \subseteq Nat /\ NoToken \notin received[j]
      /\ paper[j] \subseteq received[j] /\ SysShape
  BY <1>1, ActiveFacts, Zenon DEF SysInv
<1>3. CASE MayBegin(e, reprint)
  <2> DEFINE d == BeginPrint(e, t)
  <2>1. /\ ledger' = [ledger EXCEPT ![j] = d] /\ Send(j, Printing(t)) /\ Go(j, "began")
    BY <1>3, Zenon DEF beginPrint, SetLedger
  <2>2. LedgerInv(d, sent[j], received[j], paper[j])
    BY <1>2, LedgerStatements, Zenon
  <2>3. d.status = "printing" /\ d.token = t
    <3>1. e \in LedgerRow
      BY <1>2, Zenon DEF LedgerInv
    <3> HIDE DEF e, t
    <3> QED
      BY <3>1 DEF BeginPrint, LedgerRow
  <2>4. "began" \in Attempting /\ "began" # "bytes"
    BY DEF Attempting
  <2> HIDE DEF d
  <2> QED
    BY <1>1, <1>2, <2>1, <2>2, <2>3, <2>4, AttemptStep, Zenon
<1>4. CASE ~MayBegin(e, reprint)
  <2>1. ledger' = ledger
    BY <1>4, Zenon DEF beginPrint
  <2>2. CASE Leave(j) /\ UNCHANGED sent
    <3>1. Local(j) /\ worker[j] \in Worker /\ Idle \in Worker /\ Idle.reply = "none"
          /\ received[j] \subseteq handed[j]
      BY <1>2, Zenon DEF SysInv, SysShape, SysTypeOK, Idle, Worker, WorkerStep, NoToken
    <3>2. LocalInv(received[j], sent[j], ledger[j], Idle, fence[j], paper[j], reprint)
      BY <3>1, Retires, Zenon DEF Local
    <3>3. Writes(j, received[j], sent[j], ledger[j], Idle, fence[j], paper[j])
      BY <1>1, <1>2, <2>1, <2>2, <3>1, <3>2, JobShape, Zenon DEF Writes, Leave
    <3> QED
      BY <1>1, <3>3, WritesStep, Zenon
  <2>3. CASE Send(j, StoredOutcome(e, t)) /\ Go(j, "closing")
    <3> DEFINE m == StoredOutcome(e, t)
    <3>1. m = Closing("failed", "UNKNOWN_PARTIAL_DELIVERY", t) \/ m = Closing("failed", "AGENT_RESTART_DURING_PRINT", t)
      BY <1>2, Zenon DEF StoredOutcome, MarkerOf
    <3>2. m \in Msg /\ Fits(m, received[j], paper[j], reprint) /\ m.reason # Reprint /\ m.to # "queued"
      <4> DEFINE got == received[j]  out == paper[j]  again == reprint
      <4> HIDE DEF got, out, again, m, t
      <4>1. t \in got /\ got \subseteq Nat
        BY <1>2 DEF got
      <4>2. m \in Msg /\ Fits(m, got, out, again) /\ m.reason # Reprint /\ m.to # "queued"
        BY <3>1, <4>1, Wording DEF Closing, Msg, Fits, Report, Reason, Reprint, UnknownMarker
      <4> QED
        BY <4>2 DEF got, out, again
    <3> HIDE DEF m
    <3> QED
      BY <1>1, <2>1, <2>3, <3>2, PlainEndStep, Zenon DEF m
  <2> QED
    BY <1>4, <2>2, <2>3, Zenon DEF beginPrint
<1> QED
  BY <1>3, <1>4

\* The worker lets go of its job.
LEMMA LeaveStep ==
    ASSUME IInv, SysInv, NEW j \in Jobs, up, Leave(j),
           UNCHANGED <<vars, netVars, fence, up, crashes, reprint, paper>>,
           NEW d, ledger' = [ledger EXCEPT ![j] = d],
           LedgerInv(d, sent[j], received[j], paper[j])
    PROVE  SysInv'
<1>1. SysShape /\ Local(j) /\ received[j] \subseteq handed[j]
  BY Zenon DEF SysInv
<1>2. Idle \in Worker /\ Idle.reply = "none"
  BY DEF Idle, Worker, WorkerStep, NoToken
<1>3. LocalInv(received[j], sent[j], ledger[j], Idle, fence[j], paper[j], reprint) /\ Idle.pc \notin Active
  BY <1>1, <1>2, Retires, Zenon DEF Local
<1>4. LocalInv(received[j], sent[j], d, Idle, fence[j], paper[j], reprint)
  BY <1>3, Stores, Zenon
<1>5. UNCHANGED <<received, sent, fence, paper>>
  BY DEF netVars
<1>6. Writes(j, received[j], sent[j], d, Idle, fence[j], paper[j])
  BY <1>1, <1>2, <1>4, <1>5, JobShape, Zenon DEF Writes, Leave
<1> QED
  BY <1>6, WritesStep, Zenon

\* The ways a worker lets go: its attempt is taken back before a byte was sent, its last
\* report is over, or its repeated return is answered or given up.
LEMMA LeaveSteps ==
    ASSUME IInv, SysInv, NEW j \in Jobs, UNCHANGED vars,
           abortAttempt(j) \/ forgetJob(j) \/ returnAnswered(j) \/ returnUnanswered(j)
    PROVE  SysInv'
<1>1. /\ up /\ Leave(j) /\ UNCHANGED <<vars, netVars, fence, up, crashes, reprint, paper>>
  BY Zenon DEF abortAttempt, forgetJob, returnAnswered, returnUnanswered, At
<1>2. /\ LedgerInv(ledger[j], sent[j], received[j], paper[j]) /\ received[j] \subseteq Nat
      /\ NoToken \notin received[j] /\ paper[j] \subseteq received[j] /\ SysShape
  BY Zenon DEF SysInv, Local, LocalInv
<1>3. CASE abortAttempt(j)
  <2>1. /\ ledger' = [ledger EXCEPT ![j] = AbortPrint(ledger[j])]
        /\ LedgerInv(AbortPrint(ledger[j]), sent[j], received[j], paper[j])
    BY <1>2, <1>3, LedgerStatements, Zenon DEF abortAttempt, SetLedger
  <2> QED
    BY <1>1, <2>1, LeaveStep, Zenon
<1>4. CASE returnAnswered(j)
  <2> DEFINE d == ClearPreDispatchClaim(ledger[j], worker[j].token)
  <2>1. ledger' = [ledger EXCEPT ![j] = d] /\ LedgerInv(d, sent[j], received[j], paper[j])
    BY <1>2, <1>4, LedgerStatements, Zenon DEF returnAnswered, SetLedger
  <2> HIDE DEF d
  <2> QED
    BY <1>1, <2>1, LeaveStep, Zenon
<1>5. CASE forgetJob(j) \/ returnUnanswered(j)
  <2>1. ledger' = [ledger EXCEPT ![j] = ledger[j]]
    BY <1>2, <1>5, JobShape, Zenon DEF forgetJob, returnUnanswered
  <2> QED
    BY <1>1, <1>2, <2>1, LeaveStep, Zenon
<1> QED
  BY <1>3, <1>4, <1>5

\* The outboxes and the retention.
LEMMA OutboxSteps ==
    ASSUME IInv, SysInv, NEW j \in Jobs, UNCHANGED vars,
           \/ reportPendingTerminal(j) \/ cleanupLocal(j)
           \/ \E r \in {"pre_execution", "printer_not_shared"} : reportPendingReturn(j, r)
    PROVE  SysInv'
<1> DEFINE got == received[j]  S == sent[j]  e == ledger[j]  w == worker[j]
           f == fence[j]  out == paper[j]  again == reprint
<1>1. /\ SysShape /\ LocalInv(got, S, e, w, f, out, again) /\ got \subseteq handed[j]
      /\ LedgerInv(e, S, got, out) /\ WorkerInv(w, e, f, S, got, out) /\ got \subseteq Nat
      /\ NoToken \notin got /\ out \subseteq got
  BY Zenon DEF SysInv, Local, LocalInv
<1>2. up /\ UNCHANGED <<received, fence, up, crashes, reprint, paper>>
  BY Zenon DEF reportPendingTerminal, cleanupLocal, reportPendingReturn, At, netVars, agentVars
<1>3. CASE reportPendingTerminal(j)
  <2> DEFINE m == Closing(e.status, e.error, e.token)
  <2>1. /\ e.status \in {"success", "failed"} /\ e.token \in got /\ Settled(e)
        /\ e.status = "success" => e.error = "null" /\ e.token \in out
        /\ e.status = "failed" =>
             /\ e.error \in {"plain", "UNKNOWN_PARTIAL_DELIVERY", "AGENT_RESTART_DURING_PRINT"}
             /\ e.error = "plain" => e.token \notin out
    BY <1>1, <1>3, Zenon DEF reportPendingTerminal, PendingTerminalReport, Settled, LedgerInv
  <2>2. Send(j, m) /\ UNCHANGED <<ledger, worker>>
    BY <1>3 DEF reportPendingTerminal, agentVars
  <2>3. w.pc \in Active => w.token # e.token
    BY <1>1, <2>1, Zenon DEF WorkerInv, Active, Attempting
  <2>4. /\ sent' = [sent EXCEPT ![j] = S \cup {m}] /\ worker' = [worker EXCEPT ![j] = w]
        /\ ledger' = [ledger EXCEPT ![j] = e] /\ received' = [received EXCEPT ![j] = got]
        /\ fence' = [fence EXCEPT ![j] = f] /\ paper' = [paper EXCEPT ![j] = out]
        /\ sent[j] = S /\ worker[j] = w /\ paper[j] = out /\ reprint = again
    BY <1>1, <1>2, <2>2, JobShape, Zenon DEF Send
  <2> HIDE DEF got, S, e, w, f, out, again
  <2>5. m \in Msg /\ Fits(m, got, out, again) /\ m.reason # Reprint /\ m.to # "queued" /\ m.token = e.token
    BY <1>1, <2>1, Wording, Zenon DEF Closing, Msg, Fits, Report, Reason, Reprint, UnknownMarker
  <2> HIDE DEF m
  <2>6. LocalInv(got, S \cup {m}, e, w, f, out, reprint)
    BY <1>1, <2>3, <2>4, <2>5, Sends, Zenon
  <2>7. Writes(j, got, S \cup {m}, e, w, f, out)
    BY <1>1, <1>2, <2>4, <2>5, <2>6, Zenon DEF Writes
  <2> QED
    BY <1>2, <2>7, WritesStep, Zenon
<1>4. CASE cleanupLocal(j)
  <2>1. Settled(e) /\ SetLedger(j, NoEntry) /\ UNCHANGED <<sent, worker>>
    BY <1>4 DEF cleanupLocal, Deletable, netVars
  <2>2. /\ sent' = [sent EXCEPT ![j] = S] /\ worker' = [worker EXCEPT ![j] = w]
        /\ ledger' = [ledger EXCEPT ![j] = NoEntry] /\ received' = [received EXCEPT ![j] = got]
        /\ fence' = [fence EXCEPT ![j] = f] /\ paper' = [paper EXCEPT ![j] = out]
        /\ sent[j] = S /\ worker[j] = w /\ paper[j] = out /\ reprint = again
    BY <1>1, <1>2, <2>1, JobShape, Zenon DEF SetLedger
  <2> HIDE DEF got, S, e, w, f, out, again
  <2>3. LedgerInv(NoEntry, S, got, out)
    BY <1>1, LedgerStatements, Zenon
  <2>4. NoEntry.status = "none" /\ NoEntry.token = NoToken /\ ~Settled(NoEntry) /\ e.status # "printing"
    BY <2>1 DEF NoEntry, Settled
  <2>5. WorkerInv(w, NoEntry, f, S, got, out)
    BY <1>1, <2>4, Zenon DEF WorkerInv, Attempting
  <2>6. LocalInv(got, S, NoEntry, w, f, out, reprint)
    BY <1>1, <2>2, <2>3, <2>5, Zenon DEF LocalInv
  <2>7. Writes(j, got, S, NoEntry, w, f, out)
    BY <1>1, <1>2, <2>2, <2>6, Zenon DEF Writes
  <2> QED
    BY <1>2, <2>7, WritesStep, Zenon
<1>5. ASSUME NEW r \in {"pre_execution", "printer_not_shared"}, reportPendingReturn(j, r)
      PROVE  SysInv'
  <2> DEFINE m == Return(r, e.token)  v == [Idle EXCEPT !.pc = "returning", !.token = e.token]
  <2>1. e.status = "queued" /\ e.token \in got /\ e.token \notin out
    BY <1>1, <1>5, Zenon DEF reportPendingReturn, PendingPreDispatchReturn, LedgerInv
  <2>2. Send(j, m) /\ UNCHANGED ledger /\ worker' = [worker EXCEPT ![j] = v]
    BY <1>5 DEF reportPendingReturn
  <2>3. v \in Worker /\ v.pc = "returning" /\ v.token = e.token /\ v.reply = "none"
    <3>1. e.token \in Nat
      BY <1>1, <2>1
    <3> HIDE DEF e
    <3> QED
      BY <3>1, Zenon DEF Idle, Worker, WorkerStep
  <2>4. /\ sent' = [sent EXCEPT ![j] = S \cup {m}]
        /\ ledger' = [ledger EXCEPT ![j] = e] /\ received' = [received EXCEPT ![j] = got]
        /\ fence' = [fence EXCEPT ![j] = f] /\ paper' = [paper EXCEPT ![j] = out]
        /\ sent[j] = S /\ paper[j] = out /\ reprint = again
    BY <1>1, <1>2, <2>2, JobShape, Zenon DEF Send
  <2> HIDE DEF got, S, e, w, f, out, again
  <2>5. m \in Msg /\ Fits(m, got, out, again) /\ m.reason # Reprint
    BY <1>1, <2>1, Wording DEF Return, Msg, Fits, Report, Reason, Reprint, UnknownMarker
  <2> HIDE DEF m, v
  <2>6. LocalInv(got, S, e, v, f, out, again) /\ v.pc \notin Active
    BY <1>1, <2>1, <2>3, Retires, Zenon
  <2>7. LocalInv(got, S \cup {m}, e, v, f, out, reprint)
    BY <2>1, <2>4, <2>5, <2>6, Sends, Zenon
  <2>8. Writes(j, got, S \cup {m}, e, v, f, out)
    BY <1>1, <1>2, <2>2, <2>3, <2>4, <2>5, <2>7, Zenon DEF Writes
  <2> QED
    BY <1>2, <2>8, WritesStep, Zenon
<1> QED
  BY <1>3, <1>4, <1>5

\* An outcome is one the agent may report for an attempt: a success printed, a plain
\* failure did not.
Truthful(to, error, t, out) ==
    \/ to = "success" /\ error = "null" /\ t \in out
    \/ to = "failed" /\ error = "plain" /\ t \notin out
    \/ to = "failed" /\ error = "UNKNOWN_PARTIAL_DELIVERY"

\* Its report, its ledger row and its copy in memory are consistent.
LEMMA TruthfulOutcome ==
    ASSUME NEW got, NEW out, NEW again, NEW to, NEW error, NEW t \in got, got \subseteq Nat,
           Truthful(to, error, t, out)
    PROVE  /\ Closing(to, error, t) \in Msg
           /\ Fits(Closing(to, error, t), got, out, again)
           /\ Closing(to, error, t).reason # Reprint
           /\ Closing(to, error, t).to # "queued"
           /\ FenceInv([to |-> to, error |-> error, token |-> t], got, out)
<1>1. to \in {"success", "failed"} /\ error \in {"null", "plain", "UNKNOWN_PARTIAL_DELIVERY"}
  BY DEF Truthful
<1>2. Closing(to, error, t) \in Msg
  BY <1>1, Wording DEF Closing, Msg, Reason, UnknownMarker
<1>3. Fits(Closing(to, error, t), got, out, again)
  BY <1>1, Wording DEF Truthful, Closing, Fits, Report, Reprint, UnknownMarker
<1>4. Closing(to, error, t).reason # Reprint /\ Closing(to, error, t).to # "queued"
  BY <1>1 DEF Closing, Reprint
<1>5. FenceInv([to |-> to, error |-> error, token |-> t], got, out)
  BY <1>1, Wording DEF Truthful, FenceInv, Outcome, UnknownMarker
<1> QED
  BY <1>2, <1>3, <1>4, <1>5

\* The attempt ends with an outcome, which is stored, kept in memory, or neither.
LEMMA OutcomeStep ==
    ASSUME IInv, SysInv, NEW j \in Jobs, up, worker[j].pc \in Active,
           UNCHANGED <<vars, received, up, crashes, reprint, paper>>,
           NEW to, NEW error, Truthful(to, error, worker[j].token, paper[j]),
           Send(j, Closing(to, error, worker[j].token)), Go(j, "closing"),
           NEW d, ledger' = [ledger EXCEPT ![j] = d],
           LedgerInv(d, sent[j] \cup {Closing(to, error, worker[j].token)}, received[j], paper[j]),
           \/ UNCHANGED fence
           \/ fence' = [fence EXCEPT ![j] = [to |-> to, error |-> error, token |-> worker[j].token]]
    PROVE  SysInv'
<1> DEFINE t == worker[j].token  m == Closing(to, error, t)  g == [to |-> to, error |-> error, token |-> t]
<1>1. /\ SysShape /\ received[j] \subseteq Nat /\ t \in received[j]
      /\ FenceInv(fence[j], received[j], paper[j])
  BY ActiveFacts, Zenon DEF SysInv
<1>2. /\ m \in Msg /\ Fits(m, received[j], paper[j], reprint) /\ m.reason # Reprint /\ m.to # "queued"
      /\ FenceInv(g, received[j], paper[j])
  <2> DEFINE got == received[j]  out == paper[j]  again == reprint
  <2>1. t \in got /\ got \subseteq Nat /\ Truthful(to, error, t, out)
    BY <1>1, Zenon
  <2> HIDE DEF got, out, again, t
  <2>2. /\ m \in Msg /\ Fits(m, got, out, again) /\ m.reason # Reprint /\ m.to # "queued"
        /\ FenceInv(g, got, out)
    BY <2>1, TruthfulOutcome, SMTT(30)
  <2> QED
    BY <2>2 DEF got, out, again
<1>3. /\ Send(j, m) /\ LedgerInv(d, sent[j] \cup {m}, received[j], paper[j])
      /\ UNCHANGED fence \/ fence' = [fence EXCEPT ![j] = g]
  OBVIOUS
<1> HIDE DEF m, g
<1>4. CASE UNCHANGED fence
  <2>1. fence' = [fence EXCEPT ![j] = fence[j]]
    BY <1>1, <1>4, JobShape, Zenon
  <2> QED
    BY <1>1, <1>2, <1>3, <2>1, EndStep, Zenon
<1>5. CASE fence' = [fence EXCEPT ![j] = g]
  BY <1>2, <1>3, <1>5, EndStep, Zenon
<1> QED
  BY <1>3, <1>4, <1>5

\* The printer took the document or failed.
LEMMA FinishSteps ==
    ASSUME IInv, SysInv, NEW j \in Jobs, UNCHANGED vars, printSucceeded(j) \/ printFailed(j)
    PROVE  SysInv'
<1> DEFINE t == worker[j].token  e == ledger[j]
<1>1. PICK to, error : /\ Finish(j, to, error) /\ Truthful(to, error, t, paper[j])
  <2>1. CASE printSucceeded(j)
    <3>1. worker[j].pc = "bytes" /\ worker[j].pc \in Active /\ Finish(j, "success", "null")
      BY <2>1, Zenon DEF printSucceeded, At, Active
    <3> QED
      BY <3>1, ActiveFacts, Zenon DEF Truthful
  <2>2. CASE printFailed(j)
    BY <2>2, Zenon DEF printFailed, Truthful
  <2> QED
    BY <2>1, <2>2
<1> DEFINE m == Closing(to, error, t)
<1>2. /\ up /\ worker[j].pc \in Active /\ worker[j].pc \in Attempting
      /\ UNCHANGED <<vars, received, up, crashes, reprint, paper>> /\ Send(j, m) /\ Go(j, "closing")
  BY <1>1, Zenon DEF printSucceeded, printFailed, Finish, At, Active, Attempting
<1>3. /\ e.status = "printing" /\ e.token = t /\ t \in received[j]
      /\ LedgerInv(e, sent[j], received[j], paper[j]) /\ received[j] \subseteq Nat
      /\ NoToken \notin received[j] /\ paper[j] \subseteq received[j] /\ SysShape
      /\ \A n \in sent[j] : n.token = t => n.to = "printing"
  BY <1>2, ActiveFacts, Zenon DEF SysInv
<1>4. m.to # "queued"
  BY <1>1, <1>3, TruthfulOutcome, Zenon
<1> HIDE DEF m
<1>5. LedgerInv(e, sent[j] \cup {m}, received[j], paper[j])
  BY <1>3, <1>4, LedgerSends, Zenon
<1>6. NotReturned(sent[j] \cup {m}, t)
  BY <1>3, <1>4, Zenon DEF NotReturned
<1>7. LedgerInv(UpdateTerminal(e, to, error), sent[j] \cup {m}, received[j], paper[j])
  <2> HIDE DEF e
  <2>1. CASE to = "success" /\ error = "null" /\ t \in paper[j]
    BY <1>3, <1>5, <1>6, <2>1, LedgerStatements, Zenon
  <2>2. CASE to = "failed" /\ error = "plain" /\ t \notin paper[j]
    BY <1>3, <1>5, <2>2, LedgerStatements, Zenon
  <2>3. CASE to = "failed" /\ error = "UNKNOWN_PARTIAL_DELIVERY"
    <3>1. e.status # "none"
      BY <1>3
    <3> QED
      BY <1>3, <1>5, <2>3, <3>1, LedgerStatements, Zenon
  <2> QED
    BY <1>1, <2>1, <2>2, <2>3 DEF Truthful
<1>8. CASE SetLedger(j, UpdateTerminal(e, to, error)) /\ UNCHANGED fence
  <2>1. ledger' = [ledger EXCEPT ![j] = UpdateTerminal(e, to, error)]
    BY <1>8 DEF SetLedger
  <2> QED
    BY <1>1, <1>2, <1>7, <1>8, <2>1, OutcomeStep, Zenon DEF m
<1>9. CASE UNCHANGED ledger /\ \/ UNCHANGED fence
                               \/ fence' = [fence EXCEPT ![j] = [to |-> to, error |-> error, token |-> t]]
  <2>1. ledger' = [ledger EXCEPT ![j] = e]
    BY <1>3, <1>9, JobShape, Zenon
  <2> QED
    BY <1>1, <1>2, <1>5, <1>9, <2>1, OutcomeStep, Zenon DEF m
<1> QED
  BY <1>1, <1>8, <1>9, Zenon DEF Finish

\* A panic: what the ledger says decides whether the outcome is unknown.
LEMMA PanicStep ==
    ASSUME IInv, SysInv, NEW j \in Jobs, UNCHANGED vars, NEW unreadable \in BOOLEAN, panic(j, unreadable)
    PROVE  SysInv'
<1> DEFINE t == worker[j].token  e == ledger[j]
<1>1. /\ up /\ worker[j].pc \in Active
      /\ UNCHANGED <<vars, received, up, crashes, reprint, paper>> /\ Go(j, "closing")
  BY Zenon DEF panic, At, Active
<1>2. /\ t \in received[j] /\ LedgerInv(e, sent[j], received[j], paper[j]) /\ received[j] \subseteq Nat
      /\ NoToken \notin received[j] /\ paper[j] \subseteq received[j] /\ SysShape
      /\ e.status # "success"
      /\ e.status # "printing" => t \notin paper[j]
  <2>1. worker[j].pc \in {"received", "reserved"} \/ worker[j].pc \in Attempting
    BY <1>1 DEF Active, Attempting
  <2> QED
    BY <1>1, <2>1, ActiveFacts, Zenon DEF SysInv
<1>3. CASE unreadable \/ e.status = "printing" \/ WasOutcomeUnknown(e)
  <2> DEFINE u == "UNKNOWN_PARTIAL_DELIVERY"  m == Closing("failed", u, t)
             d == IF e.status = "none" THEN e ELSE UpdateTerminal(e, "failed", u)
  <2>1. m.to = "failed" /\ m.error = u
    BY DEF Closing
  <2>2. /\ Send(j, m)
        /\ \/ ledger' = [ledger EXCEPT ![j] = d] /\ UNCHANGED fence
           \/ /\ fence' = [fence EXCEPT ![j] = [to |-> "failed", error |-> u, token |-> t]]
              /\ UNCHANGED ledger
    BY <1>3, <2>1, Zenon DEF panic, SetLedger
  <2>3. Truthful("failed", u, t, paper[j])
    BY DEF Truthful
  <2>4. LedgerInv(e, sent[j] \cup {m}, received[j], paper[j])
    BY <1>2, <2>1, LedgerSends, Zenon
  <2>5. LedgerInv(d, sent[j] \cup {m}, received[j], paper[j])
    BY <1>2, <2>4, LedgerStatements, Zenon
  <2>6. CASE ledger' = [ledger EXCEPT ![j] = d] /\ UNCHANGED fence
    <3> HIDE DEF d
    <3> QED
      BY <1>1, <2>2, <2>3, <2>5, <2>6, OutcomeStep, Zenon
  <2>7. CASE fence' = [fence EXCEPT ![j] = [to |-> "failed", error |-> u, token |-> t]] /\ UNCHANGED ledger
    <3>1. ledger' = [ledger EXCEPT ![j] = e]
      BY <1>2, <2>7, JobShape, Zenon
    <3> QED
      BY <1>1, <2>2, <2>3, <2>4, <2>7, <3>1, OutcomeStep, Zenon
  <2> QED
    BY <2>2, <2>6, <2>7
<1>4. CASE ~(unreadable \/ e.status = "printing" \/ WasOutcomeUnknown(e))
  <2> DEFINE m == Closing("failed", "plain", t)
  <2>1. Send(j, m) /\ UNCHANGED <<ledger, fence>>
    BY <1>2, <1>4, Zenon DEF panic
  <2>2. Truthful("failed", "plain", t, paper[j])
    BY <1>2, <1>4 DEF Truthful
  <2>3. m.to # "queued"
    BY DEF Closing
  <2>4. LedgerInv(e, sent[j] \cup {m}, received[j], paper[j])
    BY <1>2, <2>3, LedgerSends, Zenon
  <2>5. ledger' = [ledger EXCEPT ![j] = e]
    BY <1>2, <2>1, JobShape, Zenon
  <2> QED
    BY <1>1, <2>1, <2>2, <2>4, <2>5, OutcomeStep, Zenon
<1> QED
  BY <1>3, <1>4

\* Every step of the agent on one job.
LEMMA AgentSteps ==
    ASSUME IInv, SysInv, NEW j \in Jobs, AgentStep(j), UNCHANGED vars
    PROVE  SysInv'
<1>1. CASE \E t \in handed[j] \ received[j] :
             \/ refuseDelivery(j, t) \/ reReportFence(j, t) \/ dropDuplicate(j, t)
             \/ acceptDelivery(j, t)
  BY <1>1, DeliverySteps, Zenon
<1>2. CASE \/ reReportStored(j) \/ invalidPayload(j) \/ ledgerUnavailable(j) \/ failUnstarted(j)
           \/ \E r \in {"pre_execution", "printer_not_shared"} : returnUnstarted(j, r)
  BY <1>2, UnstartedSteps, Zenon
<1>3. CASE reserve(j)
  BY <1>3, ReserveStep, Zenon
<1>4. CASE \/ reportPendingTerminal(j) \/ cleanupLocal(j)
           \/ \E r \in {"pre_execution", "printer_not_shared"} : reportPendingReturn(j, r)
  BY <1>4, OutboxSteps, Zenon
<1>5. CASE beginPrint(j)
  BY <1>5, BeginStep, Zenon
<1>6. CASE abortAttempt(j) \/ forgetJob(j) \/ returnAnswered(j) \/ returnUnanswered(j)
  BY <1>6, LeaveSteps, Zenon
<1>7. CASE \/ printingAcknowledged(j) \/ runDispatchAdmission(j) \/ firstByte(j) \/ drawerKicked(j)
  BY <1>7, AttemptSteps, Zenon
<1>8. CASE printSucceeded(j) \/ printFailed(j)
  BY <1>8, FinishSteps, Zenon
<1>9. CASE \E unreadable \in BOOLEAN : panic(j, unreadable)
  BY <1>9, PanicStep, Zenon
<1> QED
  BY <1>1, <1>2, <1>3, <1>4, <1>5, <1>6, <1>7, <1>8, <1>9, Zenon DEF AgentStep

-----------------------------------------------------------------------------
(* The end of the process, and its start                                   *)

\* Counting one more.
LEMMA OneMore ==
    ASSUME NEW A, NEW n \in Nat, AtMost(A, n)
    PROVE  AtMost(A, n + 1) /\ \A t : AtMost(A \cup {t}, n + 1)
<1>1. PICK f \in [A -> 1..n] : \A x, y \in A : f[x] = f[y] => x = y
  BY DEF AtMost
<1>2. f \in [A -> 1..(n + 1)]
  BY <1>1
<1>3. ASSUME NEW t
      PROVE  AtMost(A \cup {t}, n + 1)
  <2> DEFINE g == [x \in A \cup {t} |-> IF x \in A THEN f[x] ELSE n + 1]
  <2>1. g \in [A \cup {t} -> 1..(n + 1)]
    BY <1>1
  <2>2. \A x, y \in A \cup {t} : g[x] = g[y] => x = y
    BY <1>1
  <2> QED
    BY <2>1, <2>2 DEF AtMost
<1> QED
  BY <1>1, <1>2, <1>3 DEF AtMost

\* A step that leaves no worker and no outcome in memory preserves the invariant if it
\* preserves that of every job, and gives back at most as many attempts as there were
\* crashes.
LEMMA IdleStep ==
    ASSUME IInv, SysInv, UNCHANGED <<vars, received, reprint, paper>>,
           up' \in BOOLEAN, crashes' \in 0..MaxCrashes,
           sent' \in [Jobs -> SUBSET Msg], ledger' \in [Jobs -> LedgerRow],
           worker' = [j \in Jobs |-> Idle], fence' = [j \in Jobs |-> NoResult],
           \A j \in Jobs :
             /\ LocalInv(received[j], sent'[j], ledger'[j], Idle, NoResult, paper[j], reprint)
             /\ sent[j] \subseteq sent'[j]
             /\ CrashInv(sent'[j], crashes', up')
    PROVE  SysInv'
<1>1. /\ Idle \in Worker /\ NoResult \in Outcome
  BY Wording DEF Idle, NoResult, Worker, WorkerStep, Outcome, NoToken
<1>2. \A j \in Jobs : worker'[j] = Idle /\ fence'[j] = NoResult
  OBVIOUS
<1>3. \A j \in Jobs : Local(j)'
  <2>1. \A j \in Jobs : LocalNow(j)
    BY <1>2, Zenon DEF LocalNow
  <2> QED
    BY <2>1, LocalPrimed, Zenon
<1>4. SysShape'
  <2>1. worker' \in [Jobs -> Worker] /\ fence' \in [Jobs -> Outcome]
    BY <1>1
  <2>2. \A j \in Jobs : sent'[j] \subseteq Msg
    OBVIOUS
  <2> QED
    BY <2>1, <2>2, Zenon DEF SysInv, SysShape, SysTypeOK, Msg
<1>5. \A j \in Jobs : (received[j] \subseteq handed[j])'
  BY Zenon DEF SysInv, vars
<1>6. \A j \in Jobs : \A t \in returned'[j] : ~NotReturned(sent'[j], t)
  <2> SUFFICES ASSUME NEW j \in Jobs, NEW t \in returned'[j]
               PROVE  ~NotReturned(sent'[j], t)
    OBVIOUS
  <2>1. ~NotReturned(sent[j], t)
    BY Zenon DEF SysInv, vars
  <2> QED
    BY <2>1, Zenon DEF NotReturned
<1>7. HandlerInv'
  <2>1. \A p \in patches : p.job \in Jobs
    BY DEF IInv, TypeOK, Patch
  <2> QED
    BY <2>1, Zenon DEF SysInv, HandlerInv, vars
<1>8. \A j \in Jobs : PaperInv(row'[j], sent'[j], worker'[j], paper'[j])
  <2> SUFFICES ASSUME NEW j \in Jobs
               PROVE  PaperInv(row'[j], sent'[j], worker'[j], paper'[j])
    OBVIOUS
  <2>1. row'[j] = row[j] /\ paper'[j] = paper[j] /\ PaperInv(row[j], sent[j], worker[j], paper[j])
    BY Zenon DEF SysInv, vars
  <2>2. CrashTokens(sent[j]) \subseteq CrashTokens(sent'[j])
    BY Zenon DEF CrashTokens
  <2>3. Idle.pc # "admit"
    BY DEF Idle
  <2> QED
    BY <1>2, <2>1, <2>2, <2>3, Zenon DEF PaperInv
<1> QED
  BY <1>2, <1>3, <1>4, <1>5, <1>6, <1>7, <1>8, Zenon
  DEF SysInv, NotReturned, CrashInv, AtMost, CrashTokens, PaperInv, Spent, isTerminal

\* Memory is gone, whatever the process was doing.
LEMMA CrashStep ==
    ASSUME IInv, SysInv, UNCHANGED vars, crash
    PROVE  SysInv'
<1>1. /\ UNCHANGED <<vars, received, sent, ledger, reprint, paper>> /\ up /\ up' = FALSE
      /\ crashes < MaxCrashes /\ crashes' = crashes + 1
      /\ worker' = [j \in Jobs |-> Idle] /\ fence' = [j \in Jobs |-> NoResult]
  BY DEF crash, netVars
<1>2. /\ SysShape /\ crashes \in 0..MaxCrashes /\ \A j \in Jobs : CrashInv(sent[j], crashes, up)
  BY Zenon DEF SysInv, SysShape, SysTypeOK
<1>3. /\ sent' \in [Jobs -> SUBSET Msg] /\ ledger' \in [Jobs -> LedgerRow]
  BY <1>1, <1>2, Zenon DEF SysShape, SysTypeOK
<1>4. crashes' \in 0..MaxCrashes
  BY <1>1, <1>2, CrashAssumption
<1>5. ASSUME NEW j \in Jobs
      PROVE  CrashInv(sent'[j], crashes', up')
  <2>1. CrashInv(sent[j], crashes, TRUE) /\ sent'[j] = sent[j]
    BY <1>1, <1>2, Zenon DEF CrashInv
  <2>2. CrashInv(sent[j], crashes + 1, FALSE)
    <3>1. crashes \in Nat
      BY <1>2, CrashAssumption
    <3> QED
      BY <2>1, <3>1, Zenon DEF CrashInv
  <2> QED
    BY <1>1, <2>1, <2>2, Zenon
<1>6. ASSUME NEW j \in Jobs
      PROVE  LocalInv(received[j], sent'[j], ledger'[j], Idle, NoResult, paper[j], reprint)
  <2> DEFINE got == received[j]  S == sent[j]  e == ledger[j]  w == worker[j]
             f == fence[j]  out == paper[j]  again == reprint
  <2>1. LocalInv(got, S, e, w, f, out, again) /\ S = sent'[j] /\ e = ledger'[j]
    BY <1>1, Zenon DEF SysInv, Local
  <2>2. Idle \in Worker /\ FenceInv(NoResult, got, out)
    BY Wording DEF Idle, Worker, WorkerStep, NoToken, FenceInv, NoResult, Outcome
  <2> HIDE DEF got, S, e, w, f, out, again
  <2>3. LocalInv(got, S, e, Idle, f, out, again) /\ Idle.pc \notin Active
    BY <2>1, <2>2, Retires, Zenon
  <2>4. LocalInv(got, S, e, Idle, NoResult, out, again)
    BY <2>2, <2>3, Fences, Zenon
  <2> QED
    BY <2>1, <2>4 DEF got, out, again
<1> QED
  BY <1>1, <1>3, <1>4, <1>5, <1>6, IdleStep, Zenon

\* A row found printing is closed as unknown, or given back if the operator wants that.
LEMMA RecoverStep ==
    ASSUME IInv, SysInv, UNCHANGED vars, recoverInterruptedJobs
    PROVE  SysInv'
<1> DEFINE T(j) == IF ledger[j].status = "printing"
                   THEN sent[j] \cup {RecoveryReport(ledger[j].token)} ELSE sent[j]
<1>1. /\ UNCHANGED <<vars, received, reprint, paper>> /\ ~up /\ up' = TRUE /\ crashes' = crashes
      /\ ledger' = [j \in Jobs |-> MarkInterrupted(ledger[j])] /\ sent' = [j \in Jobs |-> T(j)]
      /\ UNCHANGED <<worker, fence>>
  BY DEF recoverInterruptedJobs
<1>2. /\ SysShape /\ crashes \in 0..MaxCrashes /\ \A j \in Jobs : CrashInv(sent[j], crashes, FALSE)
      /\ \A j \in Jobs : worker[j] = Idle /\ fence[j] = NoResult
  BY <1>1, Zenon DEF SysInv, SysShape, SysTypeOK, CrashInv
<1>3. worker' = [j \in Jobs |-> Idle] /\ fence' = [j \in Jobs |-> NoResult]
  BY <1>1, <1>2, Zenon DEF SysShape, SysTypeOK
<1>4. ASSUME NEW j \in Jobs
      PROVE  /\ sent'[j] = T(j) /\ ledger'[j] = MarkInterrupted(ledger[j])
             /\ LocalInv(received[j], T(j), MarkInterrupted(ledger[j]), Idle, NoResult, paper[j], reprint)
             /\ sent[j] \subseteq T(j)
             /\ CrashInv(T(j), crashes, TRUE)
  <2> DEFINE got == received[j]  S == sent[j]  e == ledger[j]  out == paper[j]  again == reprint
             m == RecoveryReport(e.token)
  <2>1. sent'[j] = T(j) /\ ledger'[j] = MarkInterrupted(ledger[j])
    BY <1>1
  <2>2. /\ LocalInv(got, S, e, Idle, NoResult, out, again) /\ CrashInv(S, crashes, FALSE)
        /\ LedgerInv(e, S, got, out) /\ got \subseteq Nat /\ NoToken \notin got /\ out \subseteq got
        /\ again \in BOOLEAN
    <3>1. Local(j)
      BY Zenon DEF SysInv
    <3>2. LocalInv(got, S, e, Idle, NoResult, out, again)
      BY <1>2, <3>1, Zenon DEF Local
    <3> QED
      BY <1>2, <3>2, Zenon DEF LocalInv, SysShape, SysTypeOK
  <2>3. Idle.pc \notin Active
    BY DEF Idle, Active
  <2>4. m = IF again = TRUE THEN Return(Reprint, e.token) ELSE Closing("failed", "AGENT_RESTART_DURING_PRINT", e.token)
    BY <2>2 DEF RecoveryReport, Reprint
  <2>5. T(j) = IF e.status = "printing" THEN S \cup {m} ELSE S
    OBVIOUS
  <2>6. crashes \in Nat
    BY <1>2, CrashAssumption
  <2> HIDE DEF got, S, e, out, again, m, T
  <2>7. CASE e.status = "printing"
    <3>1. e.token \in got
      BY <2>2, <2>7, Zenon DEF LedgerInv
    <3>2. m \in Msg /\ Fits(m, got, out, again) /\ m.token = e.token
      <4>1. CASE again = TRUE
        BY <2>2, <2>4, <3>1, <4>1, Wording, Zenon DEF Return, Msg, Fits, Report, Reason, Reprint
      <4>2. CASE again # TRUE
        BY <2>2, <2>4, <3>1, <4>2, Wording, Zenon DEF Closing, Msg, Fits, Report, Reason, Reprint, UnknownMarker
      <4> QED
        BY <4>1, <4>2, Zenon
    <3>3. LocalInv(got, S \cup {m}, e, Idle, NoResult, out, again)
      BY <2>2, <2>3, <2>7, <3>2, Sends, Zenon
    <3>4. LedgerInv(MarkInterrupted(e), S \cup {m}, got, out)
      <4>1. LedgerInv(e, S \cup {m}, got, out)
        BY <3>3, Zenon DEF LocalInv
      <4> QED
        BY <2>2, <4>1, LedgerStatements, Zenon
    <3>5. LocalInv(got, S \cup {m}, MarkInterrupted(e), Idle, NoResult, out, again)
      BY <2>3, <3>3, <3>4, Stores, Zenon
    <3>6. CrashInv(S \cup {m}, crashes, TRUE)
      <4> DEFINE A == CrashTokens(S)  B == CrashTokens(S \cup {m})
      <4>1. PICK k \in Nat : crashes = k + 1 /\ AtMost(A, k)
        BY <2>2, Zenon DEF CrashInv
      <4>2. B = A \/ B = A \cup {m.token}
        BY Zenon DEF CrashTokens
      <4> HIDE DEF A, B
      <4>3. AtMost(A, k + 1) /\ AtMost(A \cup {m.token}, k + 1)
        BY <4>1, OneMore, Zenon
      <4> QED
        BY <4>1, <4>2, <4>3, Zenon DEF CrashInv, B
    <3> QED
      BY <2>1, <2>5, <2>7, <3>5, <3>6, Zenon DEF got, S, e, out, again
  <2>8. CASE e.status # "printing"
    <3>1. LedgerInv(MarkInterrupted(e), S, got, out)
      BY <2>2, LedgerStatements, Zenon
    <3>2. LocalInv(got, S, MarkInterrupted(e), Idle, NoResult, out, again)
      BY <2>2, <2>3, <3>1, Stores, Zenon
    <3>3. CrashInv(S, crashes, TRUE)
      <4>1. PICK k \in Nat : crashes = k + 1 /\ AtMost(CrashTokens(S), k)
        BY <2>2, Zenon DEF CrashInv
      <4> QED
        BY <4>1, OneMore, Zenon DEF CrashInv
    <3> QED
      BY <2>1, <2>5, <2>8, <3>2, <3>3, Zenon DEF got, S, e, out, again
  <2> QED
    BY <2>7, <2>8, Zenon
<1> HIDE DEF T
<1>5. sent' \in [Jobs -> SUBSET Msg] /\ ledger' \in [Jobs -> LedgerRow]
  BY <1>1, <1>4, Zenon DEF LocalInv, LedgerInv
<1>6. up' \in BOOLEAN /\ crashes' \in 0..MaxCrashes
  BY <1>1, <1>2
<1>7. \A j \in Jobs :
        /\ LocalInv(received[j], sent'[j], ledger'[j], Idle, NoResult, paper[j], reprint)
        /\ sent[j] \subseteq sent'[j]
        /\ CrashInv(sent'[j], crashes', up')
  BY <1>1, <1>4, Zenon
<1> QED
  BY <1>1, <1>3, <1>5, <1>6, <1>7, IdleStep, Zenon

-----------------------------------------------------------------------------
(* The steps of the Gateway                                                *)

\* A statement keeps what the row says of paper, and makes no success.
Steady(r, s) == /\ Spent(r) => Spent(s)
                /\ s.status = "success" => r.status = "success" /\ s.closed = r.closed

\* So does every statement but the UPDATE of a status report.
LEMMA SteadyRows ==
    ASSUME NEW r \in Row
    PROVE  /\ Steady(r, r)
           /\ \A t \in Nat : PollClaimable(r) => Steady(r, Claimed(r, t))
           /\ Steady(r, markJobDelivered(r)) \/ isTerminal(r)
           /\ r.status = "claimed" => Steady(r, markJobDeliveryUnknown(r))
           /\ r.status = "claimed" => Steady(r, releaseUndeliveredClaim(r))
           /\ Steady(r, recordJobAck(r))
           /\ \A a : Steady(r, [r EXCEPT !.age = a]) /\ Steady(r, [r EXCEPT !.ttl = a])
           /\ r.status = "queued" => Steady(r, [r EXCEPT !.error = "null"])
           /\ SweepExpiredCand(r) => Steady(r, SweepExpired(r))
           /\ SweepRequeueCand(r) => Steady(r, SweepRequeue(r))
           /\ SweepSilentCand(r) => Steady(r, SweepSilent(r))
           /\ SweepStalePrintingCand(r) => Steady(r, SweepStalePrinting(r))
           /\ SweepExhaustedClaimCand(r) \/ SweepExhaustedQueuedCand(r) => Steady(r, SweepExhausted(r))
           /\ Steady(r, SweepFence(r))
<1> USE DEF Steady, Spent, isTerminal, TerminalStatus, LiveStatus, Row
<1>1. \A t \in Nat : PollClaimable(r) => Steady(r, Claimed(r, t))
  BY DEF PollClaimable, QueuedClaimable, Reclaimable, Claimed
<1>2. /\ Steady(r, markJobDelivered(r)) \/ isTerminal(r)
      /\ Steady(r, recordJobAck(r))
      /\ r.status = "claimed" => Steady(r, markJobDeliveryUnknown(r))
  BY DEF markJobDelivered, recordJobAck, markJobDeliveryUnknown
<1>3. r.status = "claimed" => Steady(r, releaseUndeliveredClaim(r))
  BY DEF releaseUndeliveredClaim
<1>4. /\ \A a : Steady(r, [r EXCEPT !.age = a]) /\ Steady(r, [r EXCEPT !.ttl = a])
      /\ r.status = "queued" => Steady(r, [r EXCEPT !.error = "null"])
  OBVIOUS
<1>5. SweepExpiredCand(r) => Steady(r, SweepExpired(r))
  BY DEF SweepExpiredCand, SweepExpired, UnknownMarker
<1>6. /\ SweepRequeueCand(r) => Steady(r, SweepRequeue(r))
      /\ SweepSilentCand(r) => Steady(r, SweepSilent(r))
      /\ SweepExhaustedClaimCand(r) \/ SweepExhaustedQueuedCand(r) => Steady(r, SweepExhausted(r))
      /\ Steady(r, SweepFence(r))
  BY DEF SweepRequeueCand, Reclaimable, SweepRequeue, SweepSilentCand, SweepSilent,
         SweepExhaustedClaimCand, SweepExhaustedQueuedCand, SweepExhausted, SweepFence
<1>7. SweepStalePrintingCand(r) => Steady(r, SweepStalePrinting(r))
  BY DEF SweepStalePrintingCand, SweepStalePrinting, UnknownMarker
<1>8. Steady(r, r)
  OBVIOUS
<1> QED
  BY <1>1, <1>2, <1>3, <1>4, <1>5, <1>6, <1>7, <1>8

\* Every step of the Gateway but that UPDATE.
OtherNext ==
    \/ \E k \in Jobs : \/ insertQueuedJob(k) \/ claimJobForDelivery(k)
                       \/ AgentNext(k) \/ SweepNext(k) \/ deleteTerminalJobs(k)
                       \/ tickAge(k) \/ tickTtl(k)
    \/ \E S \in SUBSET Jobs \ {{}} : pollJobs(S)
    \/ \E p \in pushes : PushNext(p)
    \/ changeAdmission

\* Every row after such a step follows from the row before it as Steady says.
LEMMA SteadySteps ==
    ASSUME IInv, OtherNext, NEW j \in Jobs
    PROVE  Steady(row[j], row'[j])
<1>1. ASSUME NEW k \in Jobs, NEW s, Update(k, s), Steady(row[k], s)
      PROVE  Steady(row[j], row'[j])
  BY <1>1, SteadyRows, Zenon DEF Update, IInv, TypeOK
<1>2. ASSUME UNCHANGED row
      PROVE  Steady(row[j], row'[j])
  BY <1>2, SteadyRows, Zenon DEF IInv, TypeOK
<1>3. ASSUME NEW k \in Jobs
      PROVE  row[k] \in Row /\ minted[k] + 1 \in Nat
  BY DEF IInv, TypeOK
<1>4. ASSUME NEW k \in Jobs, insertQueuedJob(k)
      PROVE  Steady(row[j], row'[j])
  <2>1. row[k] = QueuedRow /\ Update(k, QueuedRow)
    BY <1>4, Zenon DEF insertQueuedJob, IInv, HandoffInv
  <2> QED
    BY <1>1, <1>3, <2>1, SteadyRows, Zenon
<1>5. ASSUME NEW k \in Jobs, claimJobForDelivery(k)
      PROVE  Steady(row[j], row'[j])
  BY <1>1, <1>3, <1>5, SteadyRows, Zenon DEF claimJobForDelivery, PollClaimable
<1>6. ASSUME NEW S \in SUBSET Jobs, pollJobs(S)
      PROVE  Steady(row[j], row'[j])
  <2>1. row'[j] = IF j \in S THEN Claimed(row[j], minted[j] + 1) ELSE row[j]
    BY <1>6 DEF pollJobs
  <2> QED
    BY <1>3, <1>6, <2>1, SteadyRows, Zenon DEF pollJobs
<1>7. ASSUME NEW p \in pushes, PushNext(p)
      PROVE  Steady(row[j], row'[j])
  <2>1. p.job \in Jobs /\ row[p.job] \in Row
    BY DEF IInv, TypeOK, Push
  <2>2. CASE \E o \in {"sent", "ambiguous", "not_sent"} : sendJobToAgent(p, o)
    BY <1>2, <2>2 DEF sendJobToAgent
  <2>3. CASE pushDelivered(p)
    <3>1. FencedDelivery(row[p.job], p.token, {"claimed", "printing"}) => ~isTerminal(row[p.job])
      BY DEF FencedDelivery, isTerminal, TerminalStatus
    <3> QED
      BY <1>1, <1>2, <2>1, <2>3, <3>1, SteadyRows, Zenon DEF pushDelivered
  <2>4. CASE pushUnknown(p)
    <3>1. FencedDelivery(row[p.job], p.token, {"claimed"}) => row[p.job].status = "claimed"
      BY DEF FencedDelivery
    <3> QED
      BY <1>1, <1>2, <2>1, <2>4, <3>1, SteadyRows, Zenon DEF pushUnknown
  <2>5. CASE pushRelease(p)
    BY <1>1, <1>2, <2>1, <2>5, SteadyRows, Zenon DEF pushRelease, Releasable
  <2> QED
    BY <1>7, <2>2, <2>3, <2>4, <2>5 DEF PushNext
<1>8. ASSUME NEW k \in Jobs, AgentNext(k)
      PROVE  Steady(row[j], row'[j])
  <2>1. CASE \E t \in handed[k] : jobAck(k, t) \/ heartbeatKeepAlive(k, t)
    BY <1>1, <1>3, <2>1, SteadyRows, Zenon DEF jobAck, heartbeatKeepAlive
  <2>2. CASE heartbeatResume(k)
    BY <1>1, <1>3, <2>2, SteadyRows, Zenon DEF heartbeatResume
  <2>3. CASE \E q \in Report, t \in handed[k] \cup {NoToken} : patchRead(k, q, t)
    BY <1>2, <2>3 DEF patchRead
  <2> QED
    BY <1>8, <2>1, <2>2, <2>3 DEF AgentNext
<1>9. ASSUME NEW k \in Jobs, SweepNext(k)
      PROVE  Steady(row[j], row'[j])
  <2> USE <1>1, <1>3, SteadyRows DEF Sweep
  <2>1. CASE sweepExpired(k)
    BY <2>1, Zenon DEF sweepExpired
  <2>2. CASE sweepRequeuedClaims(k)
    BY <2>2, Zenon DEF sweepRequeuedClaims
  <2>3. CASE sweepSilent(k)
    BY <2>3, Zenon DEF sweepSilent
  <2>4. CASE sweepStalePrinting(k)
    BY <2>4, Zenon DEF sweepStalePrinting
  <2>5. CASE sweepExhaustedClaims(k) \/ sweepExhaustedQueued(k)
    BY <2>5, Zenon DEF sweepExhaustedClaims, sweepExhaustedQueued
  <2>6. CASE sweepFences(k)
    BY <2>6, Zenon DEF sweepFences
  <2>7. CASE cleanupTerminalPrintJobs(k)
    BY <1>2, <2>7 DEF cleanupTerminalPrintJobs, Archive
  <2> QED
    BY <1>9, <2>1, <2>2, <2>3, <2>4, <2>5, <2>6, <2>7, Zenon DEF SweepNext
<1>10. ASSUME NEW k \in Jobs, deleteTerminalJobs(k) \/ tickAge(k) \/ tickTtl(k)
       PROVE  Steady(row[j], row'[j])
  BY <1>1, <1>2, <1>3, <1>10, SteadyRows, Zenon DEF deleteTerminalJobs, Archive, tickAge, tickTtl
<1>11. CASE changeAdmission
  BY <1>2, <1>11 DEF changeAdmission
<1> QED
  BY <1>4, <1>5, <1>6, <1>7, <1>8, <1>9, <1>10, <1>11 DEF OtherNext

\* They take nothing out of the histories, and only a report's read adds a handler.
LEMMA OtherHistories ==
    ASSUME IInv, OtherNext
    PROVE  /\ returned' = returned
           /\ \A j \in Jobs : handed[j] \subseteq handed'[j]
<1>1. ASSUME UNCHANGED <<handed, returned>>
      PROVE  returned' = returned /\ \A j \in Jobs : handed[j] \subseteq handed'[j]
  BY <1>1
<1>2. ASSUME NEW p \in pushes, PushNext(p)
      PROVE  returned' = returned /\ \A j \in Jobs : handed[j] \subseteq handed'[j]
  <2>1. CASE \E o \in {"sent", "ambiguous", "not_sent"} : sendJobToAgent(p, o)
    BY <2>1 DEF sendJobToAgent, IInv, TypeOK
  <2>2. CASE pushDelivered(p) \/ pushUnknown(p) \/ pushRelease(p)
    BY <2>2 DEF pushDelivered, pushUnknown, pushRelease
  <2> QED
    BY <1>2, <2>1, <2>2 DEF PushNext
<1>3. ASSUME NEW S \in SUBSET Jobs, pollJobs(S)
      PROVE  returned' = returned /\ \A j \in Jobs : handed[j] \subseteq handed'[j]
  BY <1>3 DEF pollJobs
<1>4. ASSUME NEW k \in Jobs,
             \/ insertQueuedJob(k) \/ claimJobForDelivery(k) \/ AgentNext(k)
             \/ deleteTerminalJobs(k) \/ tickAge(k) \/ tickTtl(k)
      PROVE  UNCHANGED <<handed, returned>>
  BY <1>4, Zenon DEF insertQueuedJob, claimJobForDelivery, AgentNext, jobAck, heartbeatKeepAlive,
     heartbeatResume, patchRead, deleteTerminalJobs, Archive, tickAge, tickTtl
<1>5. ASSUME NEW k \in Jobs, SweepNext(k)
      PROVE  UNCHANGED <<handed, returned>>
  BY <1>5, Zenon DEF SweepNext, sweepExpired, sweepRequeuedClaims, sweepSilent, sweepStalePrinting,
     sweepExhaustedClaims, sweepExhaustedQueued, sweepFences, Sweep, cleanupTerminalPrintJobs, Archive
<1>6. CASE changeAdmission
  BY <1>1, <1>6 DEF changeAdmission
<1> QED
  BY <1>1, <1>2, <1>3, <1>4, <1>5, <1>6 DEF OtherNext

\* A step of the Gateway that neither hears nor tells the agent.
LEMMA GatewayKeeps ==
    ASSUME IInv, SysInv, OtherNext, UNCHANGED <<netVars, agentVars>>, HandlerInv'
    PROVE  SysInv'
<1>1. UNCHANGED <<received, sent, ledger, worker, fence, up, crashes, reprint, paper>>
  BY DEF netVars, agentVars
<1>2. returned' = returned /\ \A j \in Jobs : handed[j] \subseteq handed'[j]
  BY OtherHistories
<1>3. SysShape'
  BY <1>1, Zenon DEF SysInv, SysShape, SysTypeOK
<1>4. \A j \in Jobs : Local(j)'
  <2>1. \A j \in Jobs : LocalNow(j)
    BY <1>1, Zenon DEF SysInv, Local, LocalNow
  <2> QED
    BY <2>1, LocalPrimed, Zenon
<1>5. \A j \in Jobs : (received[j] \subseteq handed[j])'
  BY <1>1, <1>2, Zenon DEF SysInv
<1>6. \A j \in Jobs : \A t \in returned'[j] : ~NotReturned(sent'[j], t)
  BY <1>1, <1>2, Zenon DEF SysInv
<1>7. \A j \in Jobs : PaperInv(row'[j], sent'[j], worker'[j], paper'[j])
  BY <1>1, SteadySteps, Zenon DEF SysInv, PaperInv, Steady
<1>8. \A j \in Jobs : CrashInv(sent[j], crashes, up)'
  BY <1>1, CrashPrimed, Zenon DEF SysInv
<1> QED
  BY <1>1, <1>3, <1>4, <1>5, <1>6, <1>7, <1>8, Zenon
  DEF SysInv, NotReturned, CrashTokens, PaperInv, Spent, isTerminal

\* Which UPDATE a report is handled by.
BranchFits(b, q) == /\ b = "crashRequeue" => q.to = "queued" /\ q.reason = Reprint
                    /\ b = "reject" => q.to = "queued" /\ q.reason # Reprint
                    /\ b \in {"late", "lateExpired"} => q.to = "success"
                    /\ q.to = "printing" => b = "transition"
                    /\ b # "expire"

\* The handler picks the branch from what the report asks for.
LEMMA BranchMeaning ==
    ASSUME NEW r, NEW q, q.to # "expired", PatchBranch(r, q) # "refuse"
    PROVE  BranchFits(PatchBranch(r, q), q)
<1>1. PatchBranch(r, q) = "crashRequeue" => q.to = "queued" /\ q.reason = Reprint
  BY DEF PatchBranch, Reprint
<1>2. PatchBranch(r, q) = "reject" => q.to = "queued" /\ q.reason # Reprint
  BY DEF PatchBranch, Reprint
<1>3. PatchBranch(r, q) \in {"late", "lateExpired"} => q.to = "success"
  BY DEF PatchBranch, lateSuccess
<1>4. q.to = "printing" => PatchBranch(r, q) = "transition"
  BY Zenon DEF PatchBranch, lateSuccess, isTerminal, TerminalStatus
<1>5. PatchBranch(r, q) # "expire"
  BY DEF PatchBranch
<1> QED
  BY <1>1, <1>2, <1>3, <1>4, <1>5, Zenon DEF BranchFits

\* A request in sent is one that GatewayJobs allows the agent to send.
LEMMA SentIsReport ==
    ASSUME SysInv, NEW j \in Jobs, NEW m \in sent[j]
    PROVE  /\ m \in Msg /\ m.to # "expired" /\ m.token \in received[j] /\ m.token \in handed[j]
           /\ [to |-> m.to, error |-> m.error, reason |-> m.reason] \in Report
BY Zenon DEF SysInv, Local, LocalInv, Fits

\* The Gateway reads a report.
LEMMA ReadStep ==
    ASSUME IInv, SysInv, NEW j \in Jobs, gatewayReads(j)
    PROVE  OtherNext /\ SysInv'
<1>1. PICK m \in sent[j] : patchRead(j, m, m.token)
  BY DEF gatewayReads
<1>2. /\ m \in Msg /\ m.to # "expired" /\ m.token \in handed[j]
      /\ [to |-> m.to, error |-> m.error, reason |-> m.reason] \in Report
  BY SentIsReport
<1> DEFINE q == [to |-> m.to, error |-> m.error, reason |-> m.reason]
           b == PatchBranch(row[j], Request(m, m.token))
           p == [job |-> j, token |-> m.token, to |-> m.to, error |-> m.error,
                 reason |-> m.reason, from |-> row[j].status, branch |-> b]
<1>3. q.to = m.to /\ q.error = m.error /\ q.reason = m.reason
  OBVIOUS
<1>4. Request(q, m.token) = Request(m, m.token)
  BY <1>3 DEF Request
<1>5. patchRead(j, q, m.token)
  <2> HIDE DEF q
  <2> QED
    BY <1>1, <1>3, <1>4, Zenon DEF patchRead
<1>6. OtherNext
  BY <1>2, <1>5, Zenon DEF OtherNext, AgentNext
<1>7. patches' = patches \cup {p} /\ b # "refuse"
  BY <1>1 DEF patchRead
<1>8. sent' = sent /\ UNCHANGED <<netVars, agentVars>>
  BY DEF gatewayReads, netVars
<1>9. [to |-> p.to, error |-> p.error, reason |-> p.reason, token |-> p.token] \in sent[p.job]
  <2>1. [to |-> m.to, error |-> m.error, reason |-> m.reason, token |-> m.token] = m
    BY <1>2, Zenon DEF Msg
  <2> QED
    BY <2>1
<1>10. /\ b = "crashRequeue" => m.to = "queued" /\ m.reason = Reprint
       /\ b = "reject" => m.to = "queued" /\ m.reason # Reprint
       /\ b \in {"late", "lateExpired"} => m.to = "success"
       /\ m.to = "printing" => b = "transition"
       /\ b # "expire"
  <2> DEFINE n == Request(m, m.token)
  <2>1. n.to = m.to /\ n.reason = m.reason
    BY DEF Request
  <2>2. b = PatchBranch(row[j], n)
    OBVIOUS
  <2> HIDE DEF n
  <2>3. n.to # "expired" /\ PatchBranch(row[j], n) # "refuse"
    BY <1>2, <1>7, <2>1, <2>2
  <2>4. BranchFits(PatchBranch(row[j], n), n)
    BY <2>3, BranchMeaning, Zenon
  <2> QED
    BY <2>1, <2>2, <2>4, Zenon DEF BranchFits
<1>11. p.to = m.to /\ p.reason = m.reason /\ p.branch = b
  OBVIOUS
<1> HIDE DEF p, b
<1>12. HandlerInv'
  BY <1>7, <1>8, <1>9, <1>10, <1>11, Zenon DEF SysInv, HandlerInv
<1> QED
  BY <1>6, <1>8, <1>12, GatewayKeeps

\* The Gateway works on its own.
LEMMA GatewaySteps ==
    ASSUME IInv, SysInv, UNCHANGED <<netVars, agentVars>>,
           \/ \E j \in Jobs : GatewayStep(j)
           \/ \E S \in SUBSET Jobs \ {{}} : pollJobs(S)
           \/ \E p \in pushes : PushNext(p)
           \/ changeAdmission
    PROVE  OtherNext /\ SysInv'
<1>1. \A j \in Jobs : received[j] \subseteq handed[j]
  BY Zenon DEF SysInv
<1>2. OtherNext
  BY <1>1, Zenon DEF OtherNext, GatewayStep, AgentNext
<1>3. patches' = patches
  <2>1. CASE \E j \in Jobs : GatewayStep(j)
    BY <2>1, Zenon DEF GatewayStep, insertQueuedJob, claimJobForDelivery, deleteTerminalJobs, Archive,
       tickAge, tickTtl, heartbeatResume, jobAck, heartbeatKeepAlive, SweepNext, sweepExpired,
       sweepRequeuedClaims, sweepSilent, sweepStalePrinting, sweepExhaustedClaims,
       sweepExhaustedQueued, sweepFences, Sweep, cleanupTerminalPrintJobs
  <2>2. CASE \/ \E S \in SUBSET Jobs \ {{}} : pollJobs(S)
             \/ \E p \in pushes : PushNext(p)
             \/ changeAdmission
    BY <2>2, Zenon DEF pollJobs, PushNext, sendJobToAgent, pushDelivered, pushUnknown, pushRelease,
       changeAdmission
  <2> QED
    BY <2>1, <2>2
<1>4. HandlerInv'
  BY <1>3, Zenon DEF SysInv, HandlerInv, netVars
<1> QED
  BY <1>2, <1>4, GatewayKeeps

-----------------------------------------------------------------------------
(* The Gateway's answers                                                   *)

\* A request that is answered tells the worker nothing but the answer.
LEMMA Replies ==
    ASSUME NEW got, NEW S, NEW e, NEW w, NEW f, NEW out, NEW again,
           LocalInv(got, S, e, w, f, out, again), w.pc # "idle", NEW x \in {"accepted", "refused"},
           NEW v, v = [w EXCEPT !.reply = x]
    PROVE  LocalInv(got, S, e, v, f, out, again) /\ v.pc = w.pc /\ v.reply = x
<1>1. w \in Worker
  BY DEF LocalInv, WorkerInv
<1>2. v \in Worker /\ v.pc = w.pc /\ v.token = w.token /\ v.reply = x
  BY <1>1 DEF Worker
<1>3. WorkerInv(v, e, f, S, got, out)
  BY <1>2, Zenon DEF LocalInv, WorkerInv
<1> QED
  BY <1>2, <1>3, Zenon DEF LocalInv

\* An acknowledged token leaves the ledger, whoever works on the job by then.
LEMMA Acknowledges ==
    ASSUME NEW got, NEW S, NEW e, NEW w, NEW f, NEW out, NEW again,
           LocalInv(got, S, e, w, f, out, again), NEW t
    PROVE  /\ LocalInv(got, S, ClearClaimToken(e, t), w, f, out, again)
           /\ LocalInv(got, S, ClearPreDispatchClaim(e, t), w, f, out, again)
<1>1. /\ got \subseteq Nat /\ NoToken \notin got /\ out \subseteq got /\ LedgerInv(e, S, got, out)
      /\ e \in LedgerRow /\ w.pc # "idle" => w.token # NoToken
  BY Zenon DEF LocalInv, LedgerInv, WorkerInv
<1>2. ASSUME NEW d, d = e \/ (d.status = e.status /\ d.token = NoToken /\ e.status # "printing"),
             LedgerInv(d, S, got, out)
      PROVE  LocalInv(got, S, d, w, f, out, again)
  <2>1. WorkerInv(w, d, f, S, got, out)
    BY <1>1, <1>2, Zenon DEF LocalInv, WorkerInv, Attempting, Settled
  <2> QED
    BY <1>2, <2>1, Zenon DEF LocalInv
<1>3. ASSUME NEW d, d \in {ClearClaimToken(e, t), ClearPreDispatchClaim(e, t)}
      PROVE  d = e \/ (d.status = e.status /\ d.token = NoToken /\ e.status # "printing")
  <2>1. CASE d = ClearClaimToken(e, t)
    BY <1>1, <2>1 DEF ClearClaimToken, Settled, LedgerRow
  <2>2. CASE d = ClearPreDispatchClaim(e, t)
    BY <1>1, <2>2 DEF ClearPreDispatchClaim, LedgerRow
  <2> QED
    BY <1>3, <2>1, <2>2
<1>4. /\ LedgerInv(ClearClaimToken(e, t), S, got, out)
      /\ LedgerInv(ClearPreDispatchClaim(e, t), S, got, out)
  BY <1>1, LedgerStatements, Zenon
<1> QED
  BY <1>2, <1>3, <1>4, Zenon

\* A step of the Gateway that answers a request of one job.
LEMMA AnswerStep ==
    ASSUME IInv, SysInv, NEW j \in Jobs,
           UNCHANGED <<netVars, fence, up, crashes, reprint, paper>>, handed' = handed,
           NEW v, worker' = [worker EXCEPT ![j] = v], NEW d, ledger' = [ledger EXCEPT ![j] = d],
           LocalInv(received[j], sent[j], d, v, fence[j], paper[j], reprint), ~up => v = Idle,
           \A k \in Jobs : \A t \in returned'[k] : ~NotReturned(sent[k], t), HandlerInv',
           \A k \in Jobs \ {j} : row'[k] = row[k], PaperInv(row'[j], sent[j], v, paper[j])
    PROVE  SysInv'
<1>1. UNCHANGED <<received, sent, fence, up, crashes, reprint, paper>> /\ SysShape
  BY Zenon DEF netVars, SysInv
<1>2. /\ worker'[j] = v /\ ledger'[j] = d
      /\ \A k \in Jobs \ {j} : worker'[k] = worker[k] /\ ledger'[k] = ledger[k]
  <2>1. worker \in [Jobs -> Worker] /\ ledger \in [Jobs -> LedgerRow]
    BY <1>1, Zenon DEF SysShape, SysTypeOK
  <2> QED
    BY <2>1, Zenon
<1>3. ASSUME NEW k \in Jobs
      PROVE  Local(k)'
  <2>1. LocalNow(k)
    <3>1. CASE k = j
      BY <1>1, <1>2, <3>1, Zenon DEF LocalNow
    <3>2. CASE k # j
      BY <1>1, <1>2, <3>2, Zenon DEF LocalNow, SysInv, Local
    <3> QED
      BY <3>1, <3>2
  <2> QED
    BY <2>1, LocalPrimed
<1>4. SysShape'
  <2>1. v \in Worker /\ d \in LedgerRow
    BY Zenon DEF LocalInv, LedgerInv, WorkerInv
  <2>2. worker' \in [Jobs -> Worker] /\ ledger' \in [Jobs -> LedgerRow]
    BY <1>1, <2>1, Zenon DEF SysShape, SysTypeOK
  <2> QED
    BY <1>1, <2>2, Zenon DEF SysShape, SysTypeOK
<1>5. \A k \in Jobs : (received[k] \subseteq handed[k])'
  BY <1>1, Zenon DEF SysInv
<1>6. \A k \in Jobs : \A t \in returned'[k] : ~NotReturned(sent'[k], t)
  BY <1>1, Zenon
<1>7. \A k \in Jobs : ~up' => worker'[k] = Idle /\ fence'[k] = NoResult
  <2>1. up' = up
    BY <1>1, Zenon
  <2>2. \A k \in Jobs : ~up => worker'[k] = Idle
    BY <1>2, Zenon DEF SysInv
  <2>3. \A k \in Jobs : ~up => fence'[k] = NoResult
    BY <1>1, Zenon DEF SysInv
  <2> QED
    BY <2>1, <2>2, <2>3, SMTT(30)
<1>8. \A k \in Jobs : PaperInv(row'[k], sent'[k], worker'[k], paper'[k])
  <2>1. ASSUME NEW k \in Jobs
        PROVE  PaperInv(row'[k], sent'[k], worker'[k], paper'[k])
    <3>1. CASE k = j
      BY <1>1, <1>2, <3>1, Zenon DEF SysInv
    <3>2. CASE k # j
      BY <1>1, <1>2, <3>2, Zenon DEF SysInv
    <3> QED
      BY <3>1, <3>2, Zenon
  <2> QED
    BY <2>1, Zenon
<1>9. \A k \in Jobs : CrashInv(sent'[k], crashes', up')
  BY <1>1, Zenon DEF SysInv
<1> QED
  BY <1>1, <1>3, <1>4, <1>5, <1>6, <1>7, <1>8, <1>9, Zenon
  DEF SysInv, NotReturned, CrashInv, AtMost, CrashTokens, PaperInv, Spent, isTerminal

\* While the row belongs to an attempt, every other attempt that printed was given back by
\* a recovery, and no worker is on any other.
LEMMA OthersGivenBack ==
    ASSUME IInv, SysInv, NEW j \in Jobs, row[j].status \in {"claimed", "printing"}
    PROVE  /\ \A x \in paper[j] : x = row[j].token \/ x \in CrashTokens(sent[j])
           /\ worker[j].pc \in Active => worker[j].token = row[j].token
<1>1. /\ Local(j) /\ received[j] \subseteq handed[j] /\ \A t \in returned[j] : ~NotReturned(sent[j], t)
  BY Zenon DEF SysInv
<1>2. handed[j] \ returned[j] \subseteq {row[j].token}
  BY Zenon DEF IInv, HandoffInv, RowInv
<1>3. ASSUME NEW x \in received[j], x # row[j].token
      PROVE  \E m \in sent[j] : m.token = x /\ m.to = "queued"
  BY <1>1, <1>2, <1>3, Zenon DEF NotReturned
<1>4. ASSUME NEW x \in paper[j], x # row[j].token
      PROVE  x \in CrashTokens(sent[j])
  <2>1. x \in received[j]
    BY <1>1, Zenon DEF Local, LocalInv
  <2>2. PICK m \in sent[j] : m.token = x /\ m.to = "queued"
    BY <1>3, <1>4, <2>1, Zenon
  <2>3. m.reason = Reprint
    BY <1>1, <2>2, Zenon DEF Local, LocalInv, Fits
  <2> QED
    BY <2>2, <2>3, Zenon DEF CrashTokens
<1>5. ASSUME worker[j].pc \in Active, worker[j].token # row[j].token
      PROVE  FALSE
  <2>1. /\ worker[j].token \in received[j]
        /\ \A m \in sent[j] : m.token = worker[j].token => m.to = "printing"
    BY <1>5, ActiveFacts, Zenon
  <2>2. PICK m \in sent[j] : m.token = worker[j].token /\ m.to = "queued"
    BY <1>3, <1>5, <2>1, Zenon
  <2>3. m.to = "printing"
    BY <2>1, <2>2, Zenon
  <2> QED
    BY <2>2, <2>3
<1> QED
  BY <1>4, <1>5

\* The branches whose UPDATE writes the row, for a report of this agent.
Writing == {"crashRequeue", "reject", "lateExpired", "late", "transition"}

\* What the UPDATE of a report writes.
PatchFits(s, p) == /\ p.branch \in {"crashRequeue", "reject"} => s.status = "queued"
                   /\ p.branch \in {"lateExpired", "late"} => s.status = "success" /\ s.closed = p.token
                   /\ p.branch = "transition" => s.status = p.to /\ s.error = p.error
                   /\ p.branch = "transition" /\ p.to = "success" => s.closed = p.token

\* The row after the UPDATE has the reported status, and the token of a success.
LEMMA PatchedStatus ==
    ASSUME NEW r \in Row, NEW p, p.branch \in Writing
    PROVE  PatchFits(PatchedRow(r, p), p)
<1>1. CASE p.branch \in {"crashRequeue", "reject"}
  BY <1>1 DEF PatchFits, PatchedRow, PatchRequeue, Row
<1>2. CASE p.branch \in {"lateExpired", "late"}
  BY <1>2, Zenon DEF PatchFits, PatchedRow, PatchClose, Row, TerminalStatus
<1>3. CASE p.branch = "transition"
  BY <1>3, Zenon DEF PatchFits, PatchedRow, PatchClose, Row, TerminalStatus
<1> QED
  BY <1>1, <1>2, <1>3 DEF Writing

\* The UPDATE keeps what the row must say of paper.
LEMMA PatchedPaper ==
    ASSUME IInv, SysInv, NEW p \in patches, NEW j \in Jobs, p.job = j, p.branch # "replay",
           PatchMatches(row[j], p, admission = "admitted")
    PROVE  LET s == PatchedRow(row[j], p)
           IN  /\ paper[j] \ CrashTokens(sent[j]) # {} => Spent(s)
               /\ worker[j].pc = "admit" => Spent(s)
               /\ s.status = "success" => s.closed \in paper[j]
<1> DEFINE q == [to |-> p.to, error |-> p.error, reason |-> p.reason, token |-> p.token]
           s == PatchedRow(row[j], p)
<1>1. /\ p \in Patch /\ p.branch \in Branch /\ row[j] \in Row
      /\ RowInv(row[j], minted[j], handed[j], returned[j])
      /\ p.branch # "expire" => p.token # NoToken
      /\ p.branch \in {"expire", "crashRequeue", "reject", "transition"} => p.from \in LiveStatus
      /\ p.branch = "transition" => p.to \in {"printing", "success", "failed"}
  <2>1. p \in Patch /\ row[j] \in Row
    BY DEF IInv, TypeOK
  <2>2. p.branch \in Branch
    BY <2>1 DEF Patch
  <2> QED
    BY <2>1, <2>2, Zenon DEF IInv, HandoffInv, PatchInv
<1>2. row[j].status = p.from /\ row[j].token = p.token
  BY DEF PatchMatches
<1>3. /\ q \in sent[j] /\ p.branch # "expire"
      /\ p.branch = "crashRequeue" => p.to = "queued" /\ p.reason = Reprint
      /\ p.branch = "reject" => p.to = "queued" /\ p.reason # Reprint
      /\ p.branch \in {"late", "lateExpired"} => p.to = "success"
  BY Zenon DEF SysInv, HandlerInv
<1>4. q.to = p.to /\ q.error = p.error /\ q.reason = p.reason /\ q.token = p.token
  OBVIOUS
<1> HIDE DEF q
<1>5. Fits(q, received[j], paper[j], reprint)
  BY <1>3, Zenon DEF SysInv, Local, LocalInv
<1>6. p.branch \in Writing
  BY <1>1, <1>3 DEF Branch, Writing
<1>7. /\ p.branch \in {"crashRequeue", "reject"} => s.status = "queued"
      /\ p.branch \in {"lateExpired", "late"} => s.status = "success" /\ s.closed = p.token
      /\ p.branch = "transition" => s.status = p.to /\ s.error = p.error
      /\ p.branch = "transition" /\ p.to = "success" => s.closed = p.token
  <2>1. PatchFits(PatchedRow(row[j], p), p)
    <3>1. row[j] \in Row
      BY <1>1, Zenon
    <3> HIDE DEF s
    <3> QED
      BY <1>6, <3>1, PatchedStatus, Zenon
  <2> QED
    BY <2>1 DEF PatchFits
<1> HIDE DEF s
<1>8. CASE p.branch \in {"late", "lateExpired"} \/ (p.branch = "transition" /\ p.to = "success")
  <2>1. s.status = "success" /\ s.closed = p.token /\ p.token \in paper[j]
    BY <1>3, <1>4, <1>5, <1>7, <1>8, Zenon DEF Fits
  <2> QED
    BY <2>1, Zenon DEF Spent, isTerminal, TerminalStatus, s
<1>9. CASE p.branch = "transition" /\ p.to = "printing"
  BY <1>7, <1>9, Zenon DEF Spent, s
<1>10. CASE p.branch = "transition" /\ p.to = "failed" /\ p.error # "plain"
  <2>1. p.error \in UnknownMarker
    BY <1>4, <1>5, <1>10 DEF Fits, Report, UnknownMarker
  <2> QED
    BY <1>7, <1>10, <2>1, Zenon DEF Spent, isTerminal, TerminalStatus, s
<1>11. CASE \/ p.branch \in {"crashRequeue", "reject"}
            \/ p.branch = "transition" /\ p.to = "failed" /\ p.error = "plain"
  <2>1. row[j].status \in {"claimed", "printing"} /\ p.token # NoToken
    <3>1. row[j].status \in LiveStatus /\ row[j].token # NoToken
      BY <1>1, <1>2, <1>3, <1>11, Zenon
    <3> QED
      BY <1>1, <1>2, <3>1, Zenon DEF LiveStatus, RowInv
  <2>2. s.status # "success"
    BY <1>7, <1>11
  <2>3. p.token \notin paper[j] \/ p.token \in CrashTokens(sent[j])
    <3>1. CASE p.branch = "crashRequeue"
      BY <1>3, <1>4, <3>1, Zenon DEF CrashTokens
    <3>2. CASE p.branch = "reject" \/ (p.to = "failed" /\ p.error = "plain")
      BY <1>3, <1>4, <1>5, <3>2, Zenon DEF Fits
    <3> QED
      BY <1>11, <3>1, <3>2
  <2>4. paper[j] \ CrashTokens(sent[j]) = {}
    BY <1>2, <2>1, <2>3, OthersGivenBack, Zenon
  <2>5. worker[j].pc \notin Active
    <3> SUFFICES ASSUME worker[j].pc \in Active
                 PROVE  FALSE
      OBVIOUS
    <3>1. worker[j].token = p.token
      BY <1>2, <2>1, OthersGivenBack, Zenon
    <3>2. p.to = "printing"
      BY <1>3, <1>4, <3>1, ActiveFacts, ZenonT(40)
    <3> QED
      BY <1>3, <1>11, <3>2
  <2> QED
    BY <2>2, <2>4, <2>5 DEF Active, s
<1> QED
  <2>1. p.branch = "transition" => p.to \in {"printing", "success", "failed"}
    BY <1>1, Zenon
  <2> QED
    BY <1>6, <1>8, <1>9, <1>10, <1>11, <2>1, Zenon DEF Writing, s

\* gatewayRefuses: an answer that changes nothing at the Gateway.
LEMMA RefuseStep ==
    ASSUME IInv, SysInv, NEW j \in Jobs, gatewayRefuses(j)
    PROVE  SysInv'
<1> DEFINE v == [worker[j] EXCEPT !.reply = "refused"]
<1>1. /\ UNCHANGED <<netVars, fence, up, crashes, reprint, paper>> /\ UNCHANGED vars
      /\ ledger' = ledger
  BY Zenon DEF gatewayRefuses
<1>2. worker[j].pc \in {"began", "admit", "returning"} /\ worker' = [worker EXCEPT ![j].reply = "refused"]
  BY Zenon DEF gatewayRefuses, Awaits, Answer
<1>3. /\ Local(j) /\ (~up => worker[j] = Idle) /\ PaperInv(row[j], sent[j], worker[j], paper[j])
      /\ HandlerInv /\ SysShape
  BY Zenon DEF SysInv
<1>4. worker[j].pc # "idle"
  BY <1>2
<1>5. LocalInv(received[j], sent[j], ledger[j], v, fence[j], paper[j], reprint) /\ v.reply = "refused"
  <2>1. LocalInv(received[j], sent[j], ledger[j], worker[j], fence[j], paper[j], reprint)
    BY <1>3, Zenon DEF Local
  <2> QED
    BY <1>4, <2>1, Replies
<1>6. ~up => v = Idle
  BY <1>3, <1>4 DEF Idle
<1>7. PaperInv(row[j], sent[j], v, paper[j])
  BY <1>3, <1>5, Zenon DEF PaperInv
<1>8. worker' = [worker EXCEPT ![j] = v]
  BY <1>2, <1>3 DEF SysShape, SysTypeOK
<1>9. ledger' = [ledger EXCEPT ![j] = ledger[j]]
  BY <1>1, <1>3 DEF SysShape, SysTypeOK
<1> HIDE DEF v
<1>10. /\ handed' = handed /\ returned' = returned /\ row' = row /\ patches' = patches
  BY <1>1, Zenon DEF vars
<1>11. HandlerInv'
  BY <1>1, <1>3, <1>10, Zenon DEF HandlerInv, netVars
<1>12. \A k \in Jobs : \A t \in returned'[k] : ~NotReturned(sent[k], t)
  BY <1>10, Zenon DEF SysInv
<1>13. PaperInv(row'[j], sent[j], v, paper[j]) /\ \A k \in Jobs \ {j} : row'[k] = row[k]
  BY <1>7, <1>10, Zenon
<1> QED
  BY <1>1, <1>5, <1>6, <1>8, <1>9, <1>10, <1>11, <1>12, <1>13, AnswerStep, Zenon

\* receiptAcknowledges: an answer from the receipt clears the agent's token.
LEMMA ReceiptStep ==
    ASSUME IInv, SysInv, NEW j \in Jobs, receiptAcknowledges(j)
    PROVE  SysInv'
<1>1. /\ UNCHANGED <<netVars, fence, up, crashes, reprint, paper>> /\ UNCHANGED vars
      /\ worker' = worker
  BY Zenon DEF receiptAcknowledges
<1>2. PICK m \in sent[j] : ledger' = [ledger EXCEPT ![j] = ClearClaimToken(ledger[j], m.token)]
  BY Zenon DEF receiptAcknowledges, SetLedger
<1> DEFINE d == ClearClaimToken(ledger[j], m.token)
<1>3. /\ Local(j) /\ (~up => worker[j] = Idle) /\ PaperInv(row[j], sent[j], worker[j], paper[j])
      /\ HandlerInv /\ SysShape
  BY Zenon DEF SysInv
<1>4. LocalInv(received[j], sent[j], d, worker[j], fence[j], paper[j], reprint)
  BY <1>3, Acknowledges, Zenon DEF Local
<1> HIDE DEF d
<1>5. ledger' = [ledger EXCEPT ![j] = d]
  BY <1>2 DEF d
<1>6. worker' = [worker EXCEPT ![j] = worker[j]]
  BY <1>1, <1>3 DEF SysShape, SysTypeOK
<1>7. /\ handed' = handed /\ returned' = returned /\ row' = row /\ patches' = patches
  BY <1>1, Zenon DEF vars
<1>8. HandlerInv'
  BY <1>1, <1>3, <1>7, Zenon DEF HandlerInv, netVars
<1>9. \A k \in Jobs : \A t \in returned'[k] : ~NotReturned(sent[k], t)
  BY <1>7, Zenon DEF SysInv
<1>10. PaperInv(row'[j], sent[j], worker[j], paper[j]) /\ \A k \in Jobs \ {j} : row'[k] = row[k]
  BY <1>3, <1>7, Zenon
<1> QED
  BY <1>1, <1>3, <1>4, <1>5, <1>6, <1>7, <1>8, <1>9, <1>10, AnswerStep, Zenon

\* gatewayWrites: the UPDATE and its answer, received or lost.
LEMMA WriteStep ==
    ASSUME IInv, SysInv, NEW p \in patches, gatewayWrites(p)
    PROVE  SysInv'
<1> DEFINE j == p.job
           x == worker'[j].reply
           v == worker'[j]
           d == ledger'[j]
           hit == /\ p.branch # "replay" /\ Stored(j)
                  /\ PatchMatches(row[j], p, admission = "admitted")
<1>1. /\ p \in Patch /\ row \in [Jobs -> Row] /\ returned \in [Jobs -> SUBSET Nat]
  BY DEF IInv, TypeOK
<1>2. j \in Jobs
  BY <1>1 DEF Patch
<1>3. /\ Local(j) /\ (~up => worker[j] = Idle) /\ PaperInv(row[j], sent[j], worker[j], paper[j])
      /\ HandlerInv /\ SysShape
  BY <1>2, Zenon DEF SysInv
<1>4. /\ UNCHANGED <<netVars, fence, up, crashes, reprint, paper>> /\ handed' = handed
      /\ patches' = patches \ {p}
  BY Zenon DEF gatewayWrites, patchWrite
<1>5. /\ hit => row' = [row EXCEPT ![j] = PatchedRow(row[j], p)]
      /\ ~hit => row' = row
      /\ \/ returned' = returned
         \/ /\ p.branch \in {"crashRequeue", "reject"}
            /\ returned' = [returned EXCEPT ![j] = @ \cup {p.token}]
  BY Zenon DEF gatewayWrites, patchWrite, Update
<1>6. [to |-> p.to, error |-> p.error, reason |-> p.reason, token |-> p.token] \in sent[j]
  BY <1>3, Zenon DEF HandlerInv
<1>7. \/ /\ worker' = [worker EXCEPT ![j] = worker[j]] /\ v = worker[j]
      \/ /\ v \in {[worker[j] EXCEPT !.reply = "accepted"], [worker[j] EXCEPT !.reply = "refused"]}
         /\ worker' = [worker EXCEPT ![j] = v]
         /\ Awaits(worker[j], p.to, p.token)
         /\ v = [worker[j] EXCEPT !.reply = "accepted"] => hit \/ p.branch = "replay"
  <2>1. worker \in [Jobs -> Worker]
    BY <1>3 DEF SysShape, SysTypeOK
  <2>2. CASE ~Awaits(worker[j], p.to, p.token)
    BY <1>2, <2>1, <2>2 DEF gatewayWrites, Answer
  <2>3. CASE Awaits(worker[j], p.to, p.token)
    <3>1. \/ worker' = [worker EXCEPT ![j].reply = "accepted"] /\ (hit \/ p.branch = "replay")
          \/ worker' = [worker EXCEPT ![j].reply = "refused"]
      BY <2>3, Zenon DEF gatewayWrites, Answer
    <3>2. worker[j] \in Worker
      BY <1>2, <2>1
    <3>3. [worker[j] EXCEPT !.reply = "accepted"] # [worker[j] EXCEPT !.reply = "refused"]
      BY <3>2 DEF Worker
    <3> QED
      BY <1>2, <2>1, <2>3, <3>1, <3>3
  <2> QED
    BY <2>2, <2>3
<1>8. /\ ledger' = [ledger EXCEPT ![j] = d]
      /\ d \in {ledger[j], ClearClaimToken(ledger[j], p.token), ClearPreDispatchClaim(ledger[j], p.token)}
  <2>1. ledger \in [Jobs -> LedgerRow]
    BY <1>3 DEF SysShape, SysTypeOK
  <2> QED
    BY <1>2, <2>1, Zenon DEF gatewayWrites, SetLedger, Acknowledged
<1>9. worker' = [worker EXCEPT ![j] = v]
  BY <1>7
<1> HIDE DEF v, d, hit, j
<1>10. Awaits(worker[j], p.to, p.token) => worker[j].pc # "idle"
  BY DEF Awaits
<1>11. LocalInv(received[j], sent[j], ledger[j], v, fence[j], paper[j], reprint)
       /\ v.pc = worker[j].pc
  <2>1. CASE v = worker[j]
    BY <1>3, <2>1, Zenon DEF Local
  <2>2. CASE /\ v \in {[worker[j] EXCEPT !.reply = "accepted"], [worker[j] EXCEPT !.reply = "refused"]}
             /\ Awaits(worker[j], p.to, p.token)
    <3>1. LocalInv(received[j], sent[j], ledger[j], worker[j], fence[j], paper[j], reprint)
      BY <1>3, Zenon DEF Local
    <3> QED
      BY <1>10, <2>2, <3>1, Replies
  <2> QED
    BY <1>7, <2>1, <2>2
<1>12. LocalInv(received[j], sent[j], d, v, fence[j], paper[j], reprint)
  BY <1>8, <1>11, Acknowledges, Zenon
<1>13. ~up => v = Idle
  BY <1>3, <1>7, <1>10 DEF Idle
<1>14. HandlerInv'
  <2>1. sent' = sent /\ patches' \subseteq patches
    BY <1>4 DEF netVars
  <2> QED
    BY <1>3, <2>1, Zenon DEF HandlerInv
<1>15. \A k \in Jobs : \A t \in returned'[k] : ~NotReturned(sent[k], t)
  <2>1. \A k \in Jobs : \A t \in returned[k] : ~NotReturned(sent[k], t)
    BY Zenon DEF SysInv
  <2>2. CASE returned' = returned
    BY <2>1, <2>2, Zenon
  <2>3. CASE /\ p.branch \in {"crashRequeue", "reject"}
             /\ returned' = [returned EXCEPT ![j] = @ \cup {p.token}]
    <3>1. ~NotReturned(sent[j], p.token)
      BY <1>3, <1>6, <2>3 DEF NotReturned, HandlerInv, j
    <3>2. \A k \in Jobs : returned'[k] = IF k = j THEN returned[j] \cup {p.token} ELSE returned[k]
      BY <1>1, <1>2, <2>3
    <3> QED
      BY <2>1, <3>1, <3>2
  <2> QED
    BY <1>5, <2>2, <2>3
<1>16. \A k \in Jobs \ {j} : row'[k] = row[k]
  BY <1>1, <1>2, <1>5
<1>17. PaperInv(row'[j], sent[j], v, paper[j])
  <2>1. CASE hit
    <3>1. row'[j] = PatchedRow(row[j], p)
      BY <1>1, <1>2, <1>5, <2>1
    <3>2. p.branch # "replay" /\ PatchMatches(row[j], p, admission = "admitted") /\ p.job = j
      BY <2>1 DEF hit, j
    <3> QED
      BY <1>2, <1>11, <3>1, <3>2, PatchedPaper, Zenon DEF PaperInv
  <2>2. CASE ~hit
    <3>1. row'[j] = row[j]
      BY <1>5, <2>2
    <3>2. CASE v = worker[j]
      BY <1>3, <3>1, <3>2, Zenon
    <3>3. CASE v = [worker[j] EXCEPT !.reply = "refused"]
      <4>1. v.reply # "accepted"
        BY <1>3, <1>2, <3>3 DEF SysShape, SysTypeOK, Worker
      <4> QED
        BY <1>3, <3>1, <4>1, Zenon DEF PaperInv
    <3>4. CASE Awaits(worker[j], p.to, p.token) /\ p.branch = "replay"
      <4>1. p.to # "printing"
        BY <1>3, <3>4, Zenon DEF HandlerInv
      <4>2. v.pc # "admit"
        BY <1>11, <3>4, <4>1 DEF Awaits
      <4> QED
        BY <1>3, <3>1, <4>2, Zenon DEF PaperInv
    <3> QED
      BY <1>7, <2>2, <3>2, <3>3, <3>4
  <2> QED
    BY <2>1, <2>2
<1> QED
  BY <1>2, <1>4, <1>8, <1>9, <1>12, <1>13, <1>14, <1>15, <1>16, <1>17, AnswerStep, Zenon

-----------------------------------------------------------------------------
(* Every step of the system                                                *)

\* A new installation: no request, no delivery, nothing at the printer.
LEMMA SysInitInv == SysInit => SysInv
<1> SUFFICES ASSUME SysInit
             PROVE  SysInv
  OBVIOUS
<1>1. /\ received = [j \in Jobs |-> {}] /\ sent = [j \in Jobs |-> {}]
      /\ ledger = [j \in Jobs |-> NoEntry]
      /\ worker = [j \in Jobs |-> Idle] /\ fence = [j \in Jobs |-> NoResult]
      /\ up = TRUE /\ crashes = 0 /\ reprint \in BOOLEAN /\ paper = [j \in Jobs |-> {}]
      /\ patches = {} /\ returned = [j \in Jobs |-> {}]
  BY DEF SysInit, Init
<1>2. ASSUME NEW j \in Jobs
      PROVE  row[j].status = "queued"
  BY DEF SysInit, Init, QueuedRow
<1>3. NoEntry \in LedgerRow /\ Idle \in Worker /\ NoResult \in Outcome
  BY DEF NoEntry, LedgerRow, LedgerStatus, Idle, Worker, WorkerStep, NoResult, Outcome, JobError, NoToken
<1>4. SysShape
  BY <1>1, <1>3, CrashAssumption DEF SysShape, SysTypeOK
<1>5. LocalInv({}, {}, NoEntry, Idle, NoResult, {}, reprint)
  <2>1. LedgerInv(NoEntry, {}, {}, {})
    BY <1>3 DEF LedgerInv, NoEntry, NoToken, UnknownMarker, WasOutcomeUnknown, Settled
  <2>2. WorkerInv(Idle, NoEntry, NoResult, {}, {}, {})
    BY <1>3 DEF WorkerInv, Idle, Active, Attempting
  <2>3. FenceInv(NoResult, {}, {})
    BY <1>3 DEF FenceInv, NoResult
  <2> QED
    BY <2>1, <2>2, <2>3, Zenon DEF LocalInv
<1>6. CrashTokens({}) = {}
  BY Zenon DEF CrashTokens
<1>7. CrashInv({}, 0, TRUE)
  <2>1. [x \in {} |-> 1] \in [{} -> 1..0]
    OBVIOUS
  <2> QED
    BY <1>6, <2>1 DEF CrashInv, AtMost
<1>8. ASSUME NEW j \in Jobs
      PROVE  PaperInv(row[j], {}, Idle, {})
  BY <1>2 DEF PaperInv, Idle
<1> QED
  BY <1>1, <1>4, <1>5, <1>7, <1>8, Zenon DEF SysInv, Local, HandlerInv

\* Every step of the system keeps its invariant, and is a step of the Gateway or none.
LEMMA NextSysInv ==
    ASSUME IInv, SysInv, [SysNext]_sysVars
    PROVE  SysInv' /\ [Next]_vars
<1>1. ASSUME NEW j \in Jobs, AgentStep(j), UNCHANGED vars
      PROVE  SysInv'
  BY <1>1, AgentSteps, Zenon
<1>2. OtherNext => Next
  BY Zenon DEF OtherNext, Next
<1>3. CASE /\ UNCHANGED <<netVars, agentVars>>
           /\ \/ \E j \in Jobs : GatewayStep(j)
              \/ \E S \in SUBSET Jobs \ {{}} : pollJobs(S)
              \/ \E p \in pushes : PushNext(p)
              \/ changeAdmission
  BY <1>2, <1>3, GatewaySteps, Zenon
<1>4. ASSUME NEW j \in Jobs, gatewayReads(j)
      PROVE  SysInv' /\ Next
  BY <1>2, <1>4, ReadStep, Zenon
<1>5. ASSUME NEW j \in Jobs, gatewayRefuses(j)
      PROVE  SysInv' /\ UNCHANGED vars
  BY <1>5, RefuseStep, Zenon DEF gatewayRefuses
<1>6. ASSUME NEW j \in Jobs, receiptAcknowledges(j)
      PROVE  SysInv' /\ UNCHANGED vars
  BY <1>6, ReceiptStep, Zenon DEF receiptAcknowledges
<1>7. ASSUME NEW p \in patches, gatewayWrites(p)
      PROVE  SysInv' /\ Next
  BY <1>7, WriteStep, Zenon DEF gatewayWrites, Next
<1>8. CASE (crash \/ recoverInterruptedJobs) /\ UNCHANGED vars
  BY <1>8, CrashStep, RecoverStep, Zenon
<1>9. CASE UNCHANGED sysVars
  <2>1. /\ UNCHANGED <<received, sent, ledger, worker, fence, up, crashes, reprint, paper>>
        /\ UNCHANGED <<row, handed, returned, patches>> /\ UNCHANGED vars
    BY <1>9 DEF sysVars, vars, netVars, agentVars
  <2>2. SysShape' /\ HandlerInv'
    BY <2>1, Zenon DEF SysInv, SysShape, SysTypeOK, HandlerInv
  <2>3. \A j \in Jobs : Local(j)'
    <3>1. \A j \in Jobs : LocalNow(j)
      BY <2>1, Zenon DEF SysInv, Local, LocalNow
    <3> QED
      BY <3>1, LocalPrimed, Zenon
  <2>4. \A j \in Jobs : CrashInv(sent[j], crashes, up)'
    BY <2>1, CrashPrimed, Zenon DEF SysInv
  <2> QED
    BY <2>1, <2>2, <2>3, <2>4, Zenon
    DEF SysInv, NotReturned, CrashTokens, PaperInv, Spent, isTerminal
<1> QED
  BY <1>1, <1>3, <1>4, <1>5, <1>6, <1>7, <1>8, <1>9, Zenon DEF SysNext

=============================================================================
