---------------------------- MODULE DesiredState ----------------------------
(***************************************************************************)
(* Configuration of manager-owned printers: the Gateway keeps a desired    *)
(* revision per printer (src/app/api/printers, src/lib/desired-state-      *)
(* page.ts), the last page of a heartbeat answers with the first page of   *)
(* desired rows, the agent fetches the others, reconciles its runtime      *)
(* (agent/internal/agent/desired_state.go) and acknowledges what it        *)
(* applied and observed in later heartbeats.                               *)
(*                                                                         *)
(* One agent.  A printer's configuration is its revision; one row fits a   *)
(* page.  Rows leave the Gateway when the agent is deleted and the machine *)
(* pairs again as a new one with its data directory kept.  No YAML         *)
(* printers, no locally disabled ones, no second content for a revision.   *)
(***************************************************************************)
EXTENDS Integers, FiniteSets

CONSTANTS
  Printers,    \* printer ids, in the order of the pages
  InRegistry,  \* those the agent also has in its own registry
  MaxRev,      \* edits per printer
  MaxNet,      \* heartbeats under way
  MaxFaults,   \* failed applications, failed writes and restarts
  MaxRepairs   \* times the machine pairs again

VARIABLES
  g,       \* manager-owned rows of the printers table
  net,     \* heartbeats that may still reach the Gateway: their acknowledgements
  hb,      \* the heartbeat the agent is sending, and the snapshot it collects
  des,     \* desiredStates
  tomb,    \* gatewayTombstones
  rt,      \* rt[p]: revision of the running backend, Local, or None
  reg,     \* the agent's registry
  synced,  \* desiredStateSynced
  disk,    \* desired-state.json
  probe,   \* probe[p]: configuration a status probe under way started with, or None
  probed,  \* revisions whose running backend answered a probe (history)
  gone,    \* recorded printers missing from the last snapshot (history)
  bound

vars == <<g, net, hb, des, tomb, rt, reg, synced, disk, probe, probed, gone, bound>>

DesiredBounds == Printers \subseteq Nat /\ InRegistry \subseteq Printers /\ {MaxRev, MaxNet, MaxFaults, MaxRepairs} \subseteq Nat

None == 0
Local == MaxRev + 1
NoRow == [rev |-> 0]
Idle == [st |-> "idle"]
NewRow == [rev |-> 0, life |-> "active", applied |-> 0, observed |-> 0, err |-> FALSE]
Max2(a, b) == IF a > b THEN a ELSE b
Min2(a, b) == IF a < b THEN a ELSE b
known(d) == {p \in Printers : d[p] # NoRow}

\* reconcileRegistryPrinters: registry entries the Gateway does not own run, others' backends go.
registryRuntime(r, d, t) ==
  [p \in Printers |-> IF d[p] # NoRow \/ p \in t THEN r[p] ELSE IF p \in reg THEN Local ELSE None]

Init ==
  /\ g = [p \in Printers |-> NoRow]
  /\ net = {} /\ hb = Idle
  /\ des = [p \in Printers |-> NoRow] /\ tomb = {}
  /\ rt = [p \in Printers |-> None] /\ reg = InRegistry
  /\ synced = FALSE
  /\ disk = [des |-> [p \in Printers |-> NoRow], tomb |-> {}]
  /\ probe = [p \in Printers |-> None] /\ probed = [p \in Printers |-> {}]
  /\ gone = {}
  /\ bound = [faults |-> 0, repairs |-> 0]

-----------------------------------------------------------------------------
(* The Gateway. *)

\* A manager registers or takes over a printer, or edits it: every change is a new desired revision.
\* An id comes back only when the agent holds nothing of its former life but the fence.
Edit(p) ==
  /\ \/ g[p] = NoRow /\ des[p] = NoRow /\ disk.des[p] = NoRow /\ \A m \in net : m[p] = NoRow
     \/ g[p] # NoRow /\ g[p].rev < MaxRev
  /\ \E life \in {"active", "disabled"} :
       g' = [g EXCEPT ![p] = IF g[p] = NoRow THEN [rev |-> 1, life |-> "active", applied |-> 0, observed |-> 0]
                             ELSE [g[p] EXCEPT !.rev = @ + 1, !.life = life]]
  /\ UNCHANGED <<net, hb, des, tomb, rt, reg, synced, disk, probe, probed, gone, bound>>

\* The agent is deleted with its printers, and the machine pairs again.
RePair ==
  /\ bound.repairs < MaxRepairs
  /\ bound' = [bound EXCEPT !.repairs = @ + 1]
  /\ g' = [p \in Printers |-> NoRow]
  /\ net' = {} /\ hb' = Idle
  /\ probed' = [p \in Printers |-> {}]
  /\ UNCHANGED <<des, tomb, rt, reg, synced, disk, probe, gone>>

ForgetsApplied(row, ack) == [row EXCEPT !.observed = Min2(row.rev, Max2(row.observed, ack.observed))]

\* Acknowledged revisions only grow, and never pass the desired one.
acknowledged(row, ack) ==
  LET applied == Max2(row.applied, ack.applied) IN
  [row EXCEPT !.applied = Min2(row.rev, applied),
              !.observed = Min2(row.rev, Max2(row.observed, Min2(ack.observed, applied)))]

\* getDesiredPrinterPage: the next row after the cursor; whether there are more.
getDesiredPrinterPage(rows, after) ==
  LET later == {p \in Printers : rows[p] # NoRow /\ p > after}
      items == {p \in later : \A q \in later : p <= q}
  IN  [items |-> items, more |-> later # items]

wire(rows, ids) == {[id |-> p, rev |-> rows[p].rev, life |-> rows[p].life] : p \in ids}

\* POST heartbeat: apply the acknowledgements, answer with the first page if the agent still waits.
Heartbeat(m) ==
  /\ net' = net \ {m}
  /\ g' = [p \in Printers |-> IF g[p] # NoRow /\ m[p] # NoRow THEN acknowledged(g[p], m[p]) ELSE g[p]]
  /\ LET page == getDesiredPrinterPage(g', 0) IN
     IF hb.st = "sent" /\ hb.msg = m
     THEN /\ hb' = [st |-> "collect", got |-> wire(g', page.items), more |-> page.more]
          /\ synced' = FALSE
     ELSE UNCHANGED <<hb, synced>>
  /\ UNCHANGED <<des, tomb, rt, reg, disk, probe, probed, gone, bound>>

-----------------------------------------------------------------------------
(* The agent: heartbeats. *)

\* desiredStateAcksPayload
desiredStateAcksPayload ==
  [p \in Printers |-> IF des[p] = NoRow THEN NoRow
                      ELSE [rev |-> des[p].rev, applied |-> des[p].applied, observed |-> des[p].observed]]

\* sendHeartbeatContext: reload the registry, then send.
Send ==
  /\ hb = Idle /\ Cardinality(net) < MaxNet
  /\ rt' = registryRuntime(rt, des, tomb)
  /\ hb' = [st |-> "sent", msg |-> desiredStateAcksPayload]
  /\ net' = net \cup {desiredStateAcksPayload}
  /\ UNCHANGED <<g, des, tomb, reg, synced, disk, probe, probed, gone, bound>>

\* No answer, an error, or an answer that cannot be read.
SendFails ==
  /\ hb.st = "sent"
  /\ hb' = Idle
  /\ synced' \in {synced, FALSE}
  /\ UNCHANGED <<g, net, des, tomb, rt, reg, disk, probe, probed, gone, bound>>

collected == {w.id : w \in hb.got}
lastId == CHOOSE i \in collected : \A j \in collected : j <= i

\* collectGatewayDesiredState, one continuation: the page is added, or the snapshot is dropped.
Continue ==
  /\ hb.st = "collect" /\ hb.more
  /\ LET page == getDesiredPrinterPage(g, lastId) IN
     hb' \in {Idle, [hb EXCEPT !.got = @ \cup wire(g, page.items), !.more = page.more]}
  /\ UNCHANGED <<g, net, des, tomb, rt, reg, synced, disk, probe, probed, gone, bound>>

EndsEarly == hb.st = "collect"

\* Only a complete snapshot is reconciled.
snapshotComplete == hb.st = "collect" /\ ~hb.more

-----------------------------------------------------------------------------
(* The agent: reconciliation. *)

\* The runtime already has the configuration asked for.
upToDate(p, w) ==
  /\ w.life = "active" /\ rt[p] = w.rev
  /\ des[p] # NoRow /\ des[p].applied >= w.rev /\ ~des[p].err

SkipsKnownRevision(p, w, bad) ==
  LET cur == IF des[p] = NoRow THEN NewRow ELSE des[p]
      new == [cur EXCEPT !.rev = w.rev, !.life = w.life]
  IN  IF w.rev <= cur.rev THEN cur
      ELSE IF p \in bad THEN [new EXCEPT !.err = TRUE]
      ELSE [new EXCEPT !.applied = w.rev, !.observed = IF w.life = "active" THEN 0 ELSE w.rev]

\* One row of reconcileGatewayDesiredState; bad: the printers whose configuration cannot be applied.
reconciledRow(p, w, bad) ==
  LET cur == IF des[p] = NoRow THEN NewRow ELSE des[p]
      new == [cur EXCEPT !.rev = w.rev, !.life = w.life, !.err = FALSE]
  IN  CASE w.rev < cur.rev -> cur
        [] upToDate(p, w) -> new
        [] ~upToDate(p, w) /\ p \in bad -> [new EXCEPT !.err = TRUE]
        [] OTHER -> [new EXCEPT !.applied = w.rev, !.observed = IF w.life = "active" THEN 0 ELSE w.rev]

\* applyDesiredPrinter: a new backend, or none for a printer that is not active.
appliedRuntime(p, w, bad) ==
  IF (des[p] # NoRow /\ w.rev < des[p].rev) \/ p \in bad THEN rt[p]
  ELSE IF w.life = "active" THEN w.rev ELSE None

\* desiredStates after the rows of ids are done.
reconciledRows(ids, bad) ==
  [p \in Printers |-> IF p \in ids THEN reconciledRow(p, CHOOSE w \in hb.got : w.id = p, bad) ELSE des[p]]

FencesOnlyDurably(d, t, ok) == IF ok THEN t ELSE tomb

\* Printers that were managed and are missing from the snapshot are fenced, durable or not.
fenced(d, t, ok) == t

\* reconcileGatewayDesiredState: apply every row, fence what is missing, write, and clean up.
Reconcile ==
  /\ snapshotComplete
  /\ \E bad \in SUBSET {w.id : w \in {v \in hb.got : v.life = "active"}}, ok \in BOOLEAN, cleanup \in BOOLEAN :
       LET done == reconciledRows(collected, bad)
           missing == known(des) \ collected
           rows == [p \in Printers |-> IF p \in missing THEN NoRow ELSE done[p]]
           stones == fenced(rows, (tomb \ collected) \cup missing, ok)
           cost == Cardinality(bad) + (IF ok THEN 0 ELSE 1)
           run == [p \in Printers |-> IF p \in collected THEN appliedRuntime(p, CHOOSE w \in hb.got : w.id = p, bad)
                                      ELSE rt[p]]
       IN  /\ bound.faults + cost <= MaxFaults
           /\ bound' = [bound EXCEPT !.faults = @ + cost]
           /\ des' = rows
           /\ tomb' = stones
           /\ \/ ok /\ disk' = [des |-> rows, tomb |-> stones]
              \/ ~ok /\ UNCHANGED disk
              \* the write that records a failed row succeeded, the last one did not
              \/ ~ok /\ \E ids \in SUBSET collected :
                   bad \cap ids # {} /\ disk' = [des |-> reconciledRows(ids, bad), tomb |-> tomb \ ids]
           /\ synced' = ok
           /\ reg' = IF ok /\ cleanup THEN reg \ stones ELSE reg
           /\ rt' = IF ~ok THEN run
                    ELSE [p \in Printers |-> IF p \in stones /\ (cleanup \/ p \notin reg) THEN None ELSE run[p]]
           /\ gone' = (gone \cup {p \in missing : disk.des[p] # NoRow \/ p \in disk.tomb}) \ collected
  /\ hb' = Idle
  /\ UNCHANGED <<g, net, probe, probed>>

-----------------------------------------------------------------------------
(* The agent: probes, restarts, execution. *)

\* A status probe takes the running backend and its configuration.
ProbeStarts(p) ==
  /\ probe[p] = None /\ rt[p] # None
  /\ probe' = [probe EXCEPT ![p] = rt[p]]
  /\ UNCHANGED <<g, net, hb, des, tomb, rt, reg, synced, disk, probed, gone, bound>>

AnyProbeCounts(p) == rt[p] # None /\ (des[p] # NoRow => rt[p] = des[p].rev)

\* recordPrinterProbeResult: the backend is still the one probed and the one desired.
probeCounts(p) == rt[p] = probe[p] /\ (des[p] # NoRow => rt[p] = des[p].rev)

\* observeDesiredRevisionLocked: an answer is evidence for the revision applied.
ProbeAnswers(p) ==
  /\ probe[p] # None
  /\ probe' = [probe EXCEPT ![p] = None]
  /\ probed' = [probed EXCEPT ![p] = @ \cup {probe[p]}]
  /\ LET counts == /\ probeCounts(p) /\ des[p] # NoRow
                   /\ des[p].life = "active" /\ ~des[p].err
                   /\ des[p].applied >= des[p].rev /\ des[p].observed < des[p].rev
     IN  des' = IF counts THEN [des EXCEPT ![p].observed = des[p].applied] ELSE des
  /\ UNCHANGED <<g, net, hb, tomb, rt, reg, synced, disk, gone, bound>>

\* The printer does not answer.
ProbeFails(p) ==
  /\ probe[p] # None
  /\ probe' = [probe EXCEPT ![p] = None]
  /\ UNCHANGED <<g, net, hb, des, tomb, rt, reg, synced, disk, probed, gone, bound>>

\* loadDesiredState, one row.
loadedRow(r, failed) ==
  CASE r = NoRow -> NoRow
    [] r # NoRow /\ r.err -> r
    [] r # NoRow /\ ~r.err /\ r.life # "active" -> [r EXCEPT !.applied = r.rev, !.observed = r.rev]
    [] r # NoRow /\ ~r.err /\ r.life = "active" /\ failed -> [r EXCEPT !.err = TRUE]
    [] OTHER -> [r EXCEPT !.applied = r.rev, !.observed = 0]

\* Nothing executes before the first snapshot of this process.
syncedAtStart == FALSE

\* The process ends and starts again from desired-state.json and its registry.
Restart ==
  /\ bound.faults < MaxFaults
  /\ \E bad \in SUBSET {p \in known(disk.des) : disk.des[p].life = "active" /\ ~disk.des[p].err} :
       LET d == [p \in Printers |-> loadedRow(disk.des[p], p \in bad)]
           t == disk.tomb \ known(disk.des)
           run == [p \in Printers |-> IF d[p] # NoRow /\ d[p].life = "active" /\ ~d[p].err THEN d[p].rev ELSE None]
       IN  /\ bound.faults + 1 + Cardinality(bad) <= MaxFaults
           /\ bound' = [bound EXCEPT !.faults = @ + 1 + Cardinality(bad)]
           /\ des' = d /\ tomb' = t
           /\ rt' = registryRuntime(run, d, t)
           /\ disk' \in {disk} \cup (IF bad = {} THEN {} ELSE {[des |-> d, tomb |-> t]})
  /\ synced' = syncedAtStart
  /\ hb' = Idle
  /\ probe' = [p \in Printers |-> None]
  /\ UNCHANGED <<g, net, reg, probed, gone>>

AllowsUnsynced(p) ==
  /\ p \notin tomb
  /\ des[p] # NoRow => /\ ~des[p].err /\ des[p].life = "active"
                       /\ des[p].applied >= des[p].rev /\ des[p].observed >= des[p].rev

\* isPrinterExecutionAllowed
isPrinterExecutionAllowed(p) ==
  /\ p \notin tomb
  /\ synced
  /\ des[p] # NoRow => /\ ~des[p].err /\ des[p].life = "active"
                       /\ des[p].applied >= des[p].rev /\ des[p].observed >= des[p].rev

executes(p) == isPrinterExecutionAllowed(p) /\ rt[p] # None

-----------------------------------------------------------------------------
HeartbeatArrives == \E m \in net : Heartbeat(m)

Next ==
  \/ \E p \in Printers : Edit(p) \/ ProbeStarts(p) \/ ProbeAnswers(p) \/ ProbeFails(p)
  \/ RePair \/ Send \/ SendFails \/ Continue \/ Reconcile \/ Restart
  \/ HeartbeatArrives

Spec == Init /\ [][Next]_vars

\* configurationConverged, as the console shows it.
configurationConverged(p) == g[p].applied >= g[p].rev /\ g[p].observed >= g[p].rev

-----------------------------------------------------------------------------
(* Properties. *)

\* The states are of their types, and acknowledged revisions stay in the order the
\* table's CHECK constraint demands: observed <= applied <= desired.
TypeOK ==
  /\ \A p \in Printers : g[p] # NoRow => /\ g[p].observed <= g[p].applied /\ g[p].applied <= g[p].rev
                                         /\ g[p].rev \in 1 .. MaxRev
  /\ \A p \in Printers : des[p] # NoRow => p \notin tomb
  /\ rt \in [Printers -> 0 .. Local] /\ probe \in [Printers -> 0 .. Local]
  /\ tomb \subseteq Printers /\ reg \subseteq InRegistry /\ synced \in BOOLEAN

\* When the console shows a printer as converged and the agent would execute its jobs, the running
\* configuration is the desired one, whatever was edited while the pages were collected and whatever
\* writes or restarts failed since.
StaleConfigNeverPrints ==
  \A p \in Printers : g[p] # NoRow /\ configurationConverged(p) /\ executes(p) /\ des[p] # NoRow
                        => rt[p] = g[p].rev /\ g[p].life = "active"

\* The Gateway counts an active revision as observed only if the device answered a probe of a
\* backend with that very configuration: a probe of the replaced one is no evidence.
ObservedIsProbed ==
  \A p \in Printers : g[p] # NoRow /\ g[p].life = "active" /\ g[p].observed = g[p].rev => g[p].rev \in probed[p]

\* A printer the agent had recorded and a complete snapshot no longer names executes nothing until a
\* snapshot names it again: not while the fence could not be written, not after a restart from the older file.
MissingStaysFenced == \A p \in gone : ~executes(p)

\* The agent fences a printer as deleted only if the Gateway has no such row: a page that failed to
\* arrive never makes a smaller snapshot that deletes printers.
OnlyDeletedAreFenced == \A p \in tomb' \ tomb : g[p] = NoRow

-----------------------------------------------------------------------------

\* Once managers stop editing and faults stop, every printer converges for good at the Gateway,
\* and an active one is executable again and again.
Converges ==
  \A p \in Printers :
    /\ <>[](g[p] # NoRow => configurationConverged(p))
    /\ []<>(g[p] # NoRow /\ g[p].life = "active" => executes(p))
=============================================================================
