---------------------------- MODULE ClientPrints ----------------------------
(***************************************************************************)
(* Print operations that start in a browser: a POS receipt, the sales      *)
(* details of a POS session, or a report of Odoo's web client.  The tab    *)
(* keeps the bytes of an operation in memory; only the operation's id is   *)
(* put into the browser's storage (operation_recovery.js), where it stays  *)
(* until the outcome is known, so that neither a reload nor another tab    *)
(* starts the same print a second time.                                    *)
(*                                                                         *)
(* One document and its one recovery key.  A turn of the event loop, from  *)
(* one await to the next, is one step; the storage is read and written     *)
(* within a turn.  What Odoo does with a request is OdooOutbox's matter:   *)
(* here it answers for the job that the operation id names.                *)
(***************************************************************************)
EXTENDS Naturals

CONSTANTS
  Tabs,        \* browser tabs that show the document
  Kind,        \* "receipt", "details" or "report"
  MaxPrints,   \* bound on operations
  MaxVersion,  \* bound on edits of the document
  MaxCount,    \* bound on increments of the order's print counter
  MaxReloads   \* bound on page reloads

ClientAssumption ==
  /\ Kind \in {"receipt", "details", "report"}
  /\ MaxPrints \in Nat /\ MaxVersion \in Nat /\ MaxReloads \in Nat /\ MaxCount \in Nat

VARIABLES
  store,    \* the id of the unresolved operation in localStorage, 0 when there is none
  mem,      \* each tab's operation in memory: [id, bytes, terminal, counted]
  tab,      \* each tab's handler: [pc, id, bytes, fresh]
  nextPrint,\* the id the next new operation gets
  version,  \* what the document would look like if it were rendered now
  reloads,  \* reloads so far
  nb_print, \* the order's print counter
  wire,     \* requests that may still reach Odoo: [id, bytes]
  job,      \* Odoo's answer for each operation
  sent,     \* every request that was ever submitted
  settled   \* operations whose definite outcome some tab has seen

clientVars == <<store, mem, tab, nextPrint, version, reloads, nb_print, wire, job, sent, settled>>
odoo == <<job, nb_print>>

Ids == 1..MaxPrints
NoPrint == [id |-> 0, bytes |-> 0, terminal |-> FALSE, counted |-> FALSE]
Idle == [pc |-> "idle", id |-> 0, bytes |-> 0, fresh |-> FALSE]
Requests == [id: Ids, bytes: 1..MaxVersion + 1]

\* The states an operation can be in at Odoo. "submitted" stands for submitted, claimed,
\* printing and success. A report may be refused before a job exists, or have no binding.
JobStates == {"none", "queued", "submitted", "failed", "unknown", "refused", "unbound"}

ClientInit ==
  /\ store = 0 /\ nextPrint = 1 /\ version = 1 /\ reloads = 0 /\ nb_print = 0
  /\ mem = [t \in Tabs |-> NoPrint] /\ tab = [t \in Tabs |-> Idle]
  /\ wire = {} /\ sent = {} /\ settled = {}
  /\ job = [i \in Ids |-> "none"]

-----------------------------------------------------------------------------
\* The recovery record.

\* A variant of the code that the properties below must reject.
claimWhateverIsStored(priorId, canReplay) ==
  LET reuse == priorId # 0 /\ canReplay
  IN [blocked |-> FALSE, id |-> IF reuse THEN priorId ELSE nextPrint, fresh |-> ~reuse]

\* An id that is stored is used again by the tab that still has its bytes, and blocks
\* everyone else.
claimPrintOperation(priorId, canReplay) ==
  IF store # 0
  THEN [blocked |-> store # priorId \/ ~canReplay, id |-> store, fresh |-> FALSE]
  ELSE LET reuse == priorId # 0 /\ canReplay
       IN [blocked |-> FALSE, id |-> IF reuse THEN priorId ELSE nextPrint, fresh |-> ~reuse]

finishPrintOperation(id) == store' = IF store = id THEN 0 ELSE store

-----------------------------------------------------------------------------
\* The handlers: printReceipt, the sales details button, and the report handler.

\* The tab still holds the bytes of an operation without an outcome. A report's operation
\* is forgotten when it ends, so one that is in memory can always be sent again.
memoryRetry(t) == mem[t].id # 0 /\ mem[t].bytes # 0 /\ ~mem[t].terminal

\* A variant of the code that the properties below must reject.
RenderAgain(t, id) == version

\* What is submitted under the id: what the tab kept, or a new rendering. A report is
\* rendered by Odoo; the request that names it never changes.
bytesFor(t, id) ==
  IF Kind = "report" THEN 1 ELSE IF memoryRetry(t) /\ mem[t].id = id THEN mem[t].bytes ELSE version

\* The operation is remembered, then submitted.
Submit(t, id, fresh) ==
  LET b == bytesFor(t, id)
  IN /\ mem' = [mem EXCEPT ![t] = [id |-> id, bytes |-> b, terminal |-> FALSE,
                                   counted |-> mem[t].id = id /\ mem[t].counted]]
     /\ tab' = [tab EXCEPT ![t] = [pc |-> "sent", id |-> id, bytes |-> b, fresh |-> fresh]]
     /\ wire' = wire \cup {[id |-> id, bytes |-> b]}
     /\ sent' = sent \cup {[id |-> id, bytes |-> b]}

\* The claim of the handler's turn, and what follows it without an await.
Claim(t) ==
  LET c == claimPrintOperation(IF memoryRetry(t) THEN mem[t].id ELSE 0, memoryRetry(t))
  IN \/ /\ c.blocked
        /\ tab' = [tab EXCEPT ![t] = Idle]
        /\ UNCHANGED <<store, mem, nextPrint, wire, sent>>
     \/ /\ ~c.blocked /\ c.id <= MaxPrints
        /\ store' = c.id
        /\ nextPrint' = IF c.fresh THEN nextPrint + 1 ELSE nextPrint
        /\ IF memoryRetry(t) \/ Kind = "report" THEN Submit(t, c.id, c.fresh)
           ELSE /\ tab' = [tab EXCEPT ![t] = [pc |-> "rendering", id |-> c.id, bytes |-> 0, fresh |-> c.fresh]]
                /\ UNCHANGED <<mem, wire, sent>>

\* printReceipt and onClick: the guard is taken before the first await.
click(t) ==
  /\ tab[t].pc = "idle"
  /\ tab' = [tab EXCEPT ![t].pc = "asking"]
  /\ UNCHANGED <<store, mem, nextPrint, version, reloads, wire, odoo, sent, settled>>

\* Odoo says that the Gateway prints here and the order has its id: go on.
routeFound(t) ==
  /\ tab[t].pc = "asking" /\ Claim(t)
  /\ UNCHANGED <<version, reloads, odoo, settled>>

\* It is disabled, unreachable, or the order could not be synchronized.
routeMissing(t) ==
  /\ tab[t].pc = "asking"
  /\ tab' = [tab EXCEPT ![t] = Idle]
  /\ UNCHANGED <<store, mem, nextPrint, version, reloads, wire, odoo, sent, settled>>

\* silentPrintReportHandler claims and submits in the turn of the click.
printReport(t) ==
  /\ tab[t].pc = "idle" /\ Claim(t)
  /\ UNCHANGED <<version, reloads, odoo, settled>>

rendered(t) ==
  /\ tab[t].pc = "rendering"
  /\ Submit(t, tab[t].id, tab[t].fresh)
  /\ UNCHANGED <<store, nextPrint, version, reloads, odoo, settled>>

\* Nothing was submitted: a new operation gives its id back.
renderFails(t) ==
  /\ tab[t].pc = "rendering"
  /\ IF tab[t].fresh
     THEN /\ finishPrintOperation(tab[t].id)
          /\ mem' = IF mem[t].id = tab[t].id THEN [mem EXCEPT ![t] = NoPrint] ELSE mem
     ELSE UNCHANGED <<store, mem>>
  /\ tab' = [tab EXCEPT ![t] = Idle]
  /\ UNCHANGED <<nextPrint, version, reloads, wire, odoo, sent, settled>>

\* The deadline passes, the connection breaks, or Odoo raises: the operation stays as it
\* is, except that it no longer knows whether it was counted.
rpcFails(t) ==
  /\ tab[t].pc = "sent"
  /\ tab' = [tab EXCEPT ![t] = Idle]
  /\ mem' = [mem EXCEPT ![t].counted = FALSE]
  /\ UNCHANGED <<store, nextPrint, version, reloads, wire, odoo, sent, settled>>

\* What the tab makes of the job's state: an answer without the positive route marker, or
\* with a status nobody knows, says nothing.
Statuses(t) == {job[tab[t].id], "unknown"}
Definite == {"submitted", "failed", "refused", "unbound"}

\* Outcomes after which a print of the same document is a new operation.
terminalStatus(s) == s \in {"submitted", "failed"}

\* The report handler keeps an operation that was dispatched and failed.
reportEnds(s) == s \in {"submitted", "refused", "unbound"}

ends(s) == IF Kind = "report" THEN reportEnds(s) ELSE terminalStatus(s)

\* An accepted receipt is counted once per operation; a bill may not be counted at all.
counts(t, s) == Kind = "receipt" /\ s \in {"queued", "submitted"} /\ ~mem[t].counted

rpcAnswers(t) ==
  /\ tab[t].pc = "sent" /\ job[tab[t].id] # "none"
  /\ \E s \in Statuses(t) :
       /\ IF ends(s)
          THEN /\ finishPrintOperation(tab[t].id)
               /\ mem' = [mem EXCEPT ![t] = IF Kind = "report" THEN NoPrint ELSE [@ EXCEPT !.bytes = 0, !.terminal = TRUE]]
          ELSE UNCHANGED <<store, mem>>
       /\ settled' = IF s \in Definite THEN settled \cup {tab[t].id} ELSE settled
       /\ \/ tab' = [tab EXCEPT ![t] = Idle]
          \/ counts(t, s) /\ tab' = [tab EXCEPT ![t].pc = "counting"]
  /\ UNCHANGED <<nextPrint, version, reloads, wire, odoo, sent>>

\* The counter is written, or the write fails; only a success is remembered.
countSaved(t) ==
  /\ tab[t].pc = "counting" /\ nb_print < MaxCount
  /\ nb_print' = nb_print + 1
  /\ mem' = IF mem[t].id = tab[t].id THEN [mem EXCEPT ![t].counted = TRUE] ELSE mem
  /\ tab' = [tab EXCEPT ![t] = Idle]
  /\ UNCHANGED <<store, nextPrint, version, reloads, wire, job, sent, settled>>

countFails(t) ==
  /\ tab[t].pc = "counting"
  /\ tab' = [tab EXCEPT ![t] = Idle]
  /\ UNCHANGED <<store, mem, nextPrint, version, reloads, wire, odoo, sent, settled>>

\* The three handlers. The sales details are not counted, and a report is rendered by Odoo.
printReceipt(t) ==
  /\ Kind = "receipt"
  /\ \/ click(t) \/ routeFound(t) \/ routeMissing(t) \/ rendered(t) \/ renderFails(t) \/ rpcFails(t)
     \/ rpcAnswers(t) \/ countSaved(t) \/ countFails(t)

onClick(t) ==
  /\ Kind = "details"
  /\ \/ click(t) \/ routeFound(t) \/ routeMissing(t) \/ rendered(t) \/ renderFails(t) \/ rpcFails(t)
     \/ rpcAnswers(t)

silentPrintReportHandler(t) == Kind = "report" /\ (printReport(t) \/ rpcFails(t) \/ rpcAnswers(t))

-----------------------------------------------------------------------------
\* The world around the tabs.

\* The page is loaded again: memory is gone, the storage is not, and a request that was
\* sent still arrives.
reload(t) ==
  /\ reloads < MaxReloads /\ reloads' = reloads + 1
  /\ mem' = [mem EXCEPT ![t] = NoPrint] /\ tab' = [tab EXCEPT ![t] = Idle]
  /\ UNCHANGED <<store, nextPrint, version, wire, odoo, sent, settled>>

\* The order changes, or time passes: a rendering now would have other bytes.
documentChanges ==
  /\ version <= MaxVersion /\ Kind # "report"
  /\ version' = version + 1
  /\ UNCHANGED <<store, mem, tab, nextPrint, reloads, wire, odoo, sent, settled>>

\* A request reaches Odoo. The id is the job's idempotency key: the first one decides.
arrive(w) ==
  /\ w \in wire /\ wire' = wire \ {w}
  /\ \E s \in {"queued", "submitted", "failed", "unknown"}
              \cup (IF Kind = "report" THEN {"refused", "unbound"} ELSE {}) :
       job' = IF job[w.id] = "none" THEN [job EXCEPT ![w.id] = s] ELSE job
  /\ UNCHANGED <<store, mem, tab, nextPrint, version, reloads, nb_print, sent, settled>>

\* The outbox goes on with a queued job.
proceed(i) ==
  /\ job[i] = "queued"
  /\ \E s \in {"submitted", "failed", "unknown"} : job' = [job EXCEPT ![i] = s]
  /\ UNCHANGED <<store, mem, tab, nextPrint, version, reloads, nb_print, wire, sent, settled>>

ClientNext ==
  \/ \E t \in Tabs : printReceipt(t) \/ onClick(t) \/ silentPrintReportHandler(t) \/ reload(t)
  \/ documentChanges
  \/ \E w \in wire : arrive(w)
  \/ \E i \in Ids : proceed(i)

ClientSpec == ClientInit /\ [][ClientNext]_clientVars

-----------------------------------------------------------------------------
ClientTypeOK ==
  /\ store \in 0..MaxPrints /\ nextPrint \in 1..MaxPrints + 1 /\ version \in 1..MaxVersion + 1
  /\ reloads \in 0..MaxReloads /\ nb_print \in 0..MaxCount
  /\ mem \in [Tabs -> [id: 0..MaxPrints, bytes: 0..MaxVersion + 1, terminal: BOOLEAN,
                       counted: BOOLEAN]]
  /\ tab \in [Tabs -> [pc: {"idle", "asking", "rendering", "sent", "counting"}, id: 0..MaxPrints,
                       bytes: 0..MaxVersion + 1, fresh: BOOLEAN]]
  /\ wire \subseteq sent /\ sent \subseteq Requests
  /\ job \in [Ids -> JobStates] /\ settled \subseteq Ids

\* An id is never submitted with other bytes than the first time: Odoo can take every
\* repetition for the same print (the tab replays the raster it kept).
SameBytes == \A v, w \in sent : v.id = w.id => v = w

\* A submitted operation without a known outcome is the one in the browser's storage: a
\* reload finds it, and no other operation starts for the document meanwhile, whatever
\* was lost or opened in another tab ("never replace the lost identity with a new job").
UnresolvedIsRecorded == \A w \in sent : w.id \in settled \/ store = w.id

\* A document is printed as one operation: an id is submitted with one content, and while
\* its outcome is unknown no other id is (claimPrintOperation).
OneOpenOperation == ClientTypeOK /\ SameBytes /\ UnresolvedIsRecorded

=============================================================================
