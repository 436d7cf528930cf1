----------------------------- MODULE Inventory -----------------------------
(***************************************************************************)
(* Printer inventory: an agent sends what it found as a numbered snapshot  *)
(* in pages (agent/internal/agent/heartbeat_pagination.go, agent.go), and  *)
(* the Gateway keeps the printers table from it                            *)
(* (src/app/api/agent/heartbeat/route.ts) beside the printers managers     *)
(* register and edit (src/app/api/printers).                               *)
(*                                                                         *)
(* A request the agent gave up on may still reach the Gateway, late or     *)
(* twice; a page is answered before the next one is sent.  One printer     *)
(* fits a page.  The lease refresh of the same request is in GatewayJobs,  *)
(* its desired-state acknowledgements are in DesiredState.                 *)
(***************************************************************************)
EXTENDS Integers, FiniteSets, SequencesExt

CONSTANTS
  Agents, Printers,  \* agents of one workspace; ids printers have on their agent
  Kinds,             \* what may become of a printer at its agent
  ManagerOps,        \* what managers do: register, edit, lifecycle, and billing
  Limit,             \* max_printers of the plan
  MaxVer,            \* versions, counted up to here
  MaxNet,            \* requests under way
  MaxRestarts, MaxChanges

VARIABLES
  loc,      \* loc[a][p]: what agent a finds at p
  clk,      \* heartbeatInventoryClock.last
  cur,      \* the heartbeat an agent is sending: its pages and the one under way
  net,      \* requests that may still reach the Gateway
  row,      \* printers table; NoRow where there is no row
  mark,     \* the snapshot columns of the agents table
  billing,  \* the subscription admits new resources
  paused,   \* rows with a queued job held back as not shared
  seen,     \* highest version that reported a row (history)
  denied,   \* highest version that denied a row (history)
  bound     \* restarts, changes and snapshots so far

vars == <<loc, clk, cur, net, row, mark, billing, paused, seen, denied, bound>>

InventoryBounds == {Limit, MaxVer, MaxNet, MaxRestarts, MaxChanges} \subseteq Nat

\* aliasPrinterIdForAgent: the id of a printer whose local id another agent of the workspace holds.
aliasPrinterIdForAgent(p, a) == <<p, a>>
Keys == Printers \cup (Printers \X Agents)
NoRow == [agent |-> "none"]
Idle == [at |-> 0]
NoSnapshot == [id |-> 0, count |-> 0, next |-> 1, complete |-> FALSE, errors |-> FALSE]
hasRow(k) == row[k] # NoRow

Init ==
  /\ loc \in [Agents -> [Printers -> Kinds]]
  /\ clk = [a \in Agents |-> 0]
  /\ cur = [a \in Agents |-> Idle]
  /\ net = {}
  /\ row = [k \in Keys |-> NoRow]
  /\ mark = [a \in Agents |-> [ver |-> 0, snap |-> NoSnapshot]]
  /\ billing = TRUE
  /\ paused = {}
  /\ seen = [k \in Keys |-> 0] /\ denied = [k \in Keys |-> 0]
  /\ bound = [restarts |-> 0, changes |-> 0, snaps |-> 0]

-----------------------------------------------------------------------------
(* The agent. *)

\* A printer appears, disappears, is withheld from or offered to the Gateway, or reports garbage.
LocalChange(a, p) ==
  /\ bound.changes < MaxChanges
  /\ \E k \in Kinds \ {loc[a][p]} : loc' = [loc EXCEPT ![a][p] = k]
  /\ bound' = [bound EXCEPT !.changes = @ + 1]
  /\ UNCHANGED <<clk, cur, net, row, mark, billing, paused, seen, denied>>

\* inventoryVersionClock.next: local time, or one more than the last version if time has not passed it.
nextVersions(a) == (clk[a] + 1) .. MaxVer

\* inventoryVersionClock.observe
observe(last, ver) == IF ver > last THEN ver ELSE last

\* buildHeartbeatPayloadPages: printers spread over the pages, every private id on the first.
buildHeartbeatPayloadPages(a, id, ver, complete) ==
  LET reported == {p \in Printers : loc[a][p] \in {"shared", "bad"}}
      order == SetToSeq(reported)
      total == IF reported = {} THEN 1 ELSE Cardinality(reported)
  IN  [i \in 1 .. total |->
        [agent |-> a, id |-> id, ver |-> ver, page |-> i, count |-> total, complete |-> complete,
         printers |-> IF reported = {} THEN {} ELSE {order[i]} \ {p \in Printers : loc[a][p] = "bad"},
         bad |-> reported # {} /\ loc[a][order[i]] = "bad",
         private |-> IF i = 1 THEN {p \in Printers : loc[a][p] = "private"} ELSE {},
         all |-> reported]]

\* sendHeartbeatContext: one snapshot of the inventory; it is incomplete if the registry cannot be read.
sendHeartbeatContext(a) ==
  /\ cur[a] = Idle /\ Cardinality(net) < MaxNet
  /\ \E v \in nextVersions(a), complete \in BOOLEAN :
       LET pages == buildHeartbeatPayloadPages(a, bound.snaps + 1, v, complete) IN
       /\ clk' = [clk EXCEPT ![a] = v]
       /\ cur' = [cur EXCEPT ![a] = [at |-> 1, pages |-> pages]]
       /\ net' = net \cup {pages[1]}
  /\ bound' = [bound EXCEPT !.snaps = @ + 1]
  /\ UNCHANGED <<loc, row, mark, billing, paused, seen, denied>>

\* The request takes longer than 15 seconds; what was sent may still arrive.
Timeout(a) ==
  /\ cur[a] # Idle
  /\ cur' = [cur EXCEPT ![a] = Idle]
  /\ UNCHANGED <<loc, clk, net, row, mark, billing, paused, seen, denied, bound>>

\* The process starts again; its version clock starts from a local time that may have been set back.
Restart(a) ==
  /\ bound.restarts < MaxRestarts
  /\ bound' = [bound EXCEPT !.restarts = @ + 1]
  /\ clk' = [clk EXCEPT ![a] = 0]
  /\ cur' = [cur EXCEPT ![a] = Idle]
  /\ UNCHANGED <<loc, net, row, mark, billing, paused, seen, denied>>

\* What the agent does with the answer to page m: go on, finish, or give up and learn the version.
Answered(m, ok) ==
  LET a == m.agent
      waiting == cur[a] # Idle /\ cur[a].pages[cur[a].at] = m
  IN  IF ~waiting THEN UNCHANGED <<clk, cur>> /\ net' \in {net, net \ {m}}
      ELSE IF ~ok
           THEN /\ cur' = [cur EXCEPT ![a] = Idle]
                /\ clk' = [clk EXCEPT ![a] = observe(@, mark[a].ver)]
                /\ net' \in {net, net \ {m}}
           ELSE /\ UNCHANGED clk
                /\ IF m.page = m.count
                   THEN cur' = [cur EXCEPT ![a] = Idle] /\ net' \in {net, net \ {m}}
                   ELSE /\ cur' = [cur EXCEPT ![a].at = @ + 1]
                        /\ net' \in {net \cup {cur[a].pages[m.page + 1]},
                                     (net \ {m}) \cup {cur[a].pages[m.page + 1]}}

-----------------------------------------------------------------------------
(* The Gateway. *)

\* Rows that take a place of the plan.
countsPrinter(k, r) == r[k] # NoRow /\ r[k].life # "retired" /\ r[k].shared /\ (r[k].mgmt # "agent" \/ r[k].present)
countPrinters(r) == Cardinality({k \in Keys : countsPrinter(k, r)})

\* inventoryVersionAllowsPage: a first page must be new, a later one must continue the version kept.
inventoryVersionAllowsPage(m) ==
  IF m.page = 1 THEN m.ver > mark[m.agent].ver ELSE m.ver = mark[m.agent].ver

\* A later page must continue the snapshot under way.
continuesSnapshot(m) ==
  LET s == mark[m.agent].snap IN
  m.page > 1 => s.id = m.id /\ s.count = m.count /\ s.next = m.page /\ s.complete = m.complete

DeniesAgentRows(m, r) ==
  [k \in Keys |-> IF k \in m.private /\ r[k] # NoRow /\ r[k].agent = m.agent /\ r[k].mgmt = "agent"
                  THEN [r[k] EXCEPT !.shared = FALSE, !.ver = m.ver] ELSE r[k]]

\* The local owner's refusal: the agent's own rows are no longer shared, unless a newer version said otherwise.
denyPrivate(m, r) ==
  [k \in Keys |-> IF k \in m.private /\ r[k] # NoRow /\ r[k].agent = m.agent /\ r[k].ver <= m.ver
                  THEN [r[k] EXCEPT !.shared = FALSE, !.ver = m.ver] ELSE r[k]]

BareIds(m, r) == m.printers \ m.private

\* Where the reported printers are stored: under an alias if another agent holds the id.
storedIds(m, r) ==
  {IF r[p] # NoRow /\ r[p].agent # m.agent THEN aliasPrinterIdForAgent(p, m.agent) ELSE p :
     p \in m.printers \ m.private} \ m.private

\* mayUpdateSharing: the report offers the printer and is newer than what the row knows.
mayUpdateSharing(m, e) == m.ver > e.ver

InsertsOnly(m, r, ids) == {k \in ids : r[k] = NoRow}

\* capacityCandidateIds: reports that would take a place: new rows, re-offered rows, rows that come back.
capacityCandidateIds(m, r, ids) ==
  {k \in ids :
     \/ r[k] = NoRow
     \/ /\ r[k].agent = m.agent /\ r[k].life # "retired"
        /\ IF ~r[k].shared THEN mayUpdateSharing(m, r[k]) ELSE r[k].mgmt = "agent" /\ ~r[k].present}

\* overLimitIds: candidates beyond the plan's free places; all of them while billing is unresolved.
overLimitIds(cand, r) ==
  LET free == IF Limit > countPrinters(r) THEN Limit - countPrinters(r) ELSE 0
  IN  IF ~billing THEN {cand}
      ELSE {over \in SUBSET cand : Cardinality(over) = IF Cardinality(cand) > free THEN Cardinality(cand) - free ELSE 0}

\* The update of a row the agent holds.
observed(m, e, over) ==
  LET update == mayUpdateSharing(m, e)
      reshareBlocked == ~e.shared /\ update /\ over
      reactivationBlocked == e.shared /\ e.mgmt = "agent" /\ e.life # "retired" /\ ~e.present /\ over
      share == update /\ ~reshareBlocked
  IN  [e EXCEPT !.present = ~reactivationBlocked, !.snap = m.id,
                !.shared = @ \/ share, !.ver = IF share THEN m.ver ELSE @]

ReleasesAnyReport(m, r, ids, over) == {k \in ids : r[k] # NoRow /\ r[k].agent = m.agent}

\* positivelySharedIds: rows whose held-back jobs this report releases.
positivelySharedIds(m, r, ids, over) ==
  {k \in ids : r[k] # NoRow /\ r[k].agent = m.agent /\ mayUpdateSharing(m, r[k])
     /\ ~(k \in over /\ (~r[k].shared \/ (r[k].mgmt = "agent" /\ r[k].life # "retired" /\ ~r[k].present)))}

inserted(m) == [agent |-> m.agent, mgmt |-> "agent", life |-> "active", shared |-> TRUE, ver |-> m.ver,
                present |-> TRUE, snap |-> m.id]

\* Rows of the page after its updates and inserts.
storePage(m, r, ids, over) ==
  [k \in Keys |-> IF k \notin ids THEN r[k]
                  ELSE IF r[k] = NoRow THEN (IF k \in over THEN NoRow ELSE inserted(m))
                  ELSE IF r[k].agent # m.agent THEN r[k]
                  ELSE observed(m, r[k], k \in over)]

pageHadErrors(m, r, ids) == m.bad \/ \E k \in ids : r[k] # NoRow /\ r[k].agent # m.agent
priorHadErrors(m) == m.page # 1 /\ mark[m.agent].snap.errors

ForgetsEarlierPages(m, errors) == m.page = m.count /\ m.complete /\ ~(m.bad /\ errors)

\* mayReconcileAbsence: the last page of a complete snapshot that had no error on any page.
mayReconcileAbsence(m, errors) == m.page = m.count /\ m.complete /\ ~priorHadErrors(m) /\ ~errors

\* Shared rows of the agent the snapshot did not name are absent.
reconcileAbsence(m, r) ==
  [k \in Keys |-> IF r[k] # NoRow /\ r[k].agent = m.agent /\ r[k].mgmt = "agent" /\ r[k].shared
                     /\ r[k].life # "retired" /\ r[k].snap # m.id
                  THEN [r[k] EXCEPT !.present = FALSE] ELSE r[k]]

ForgetsVersion(m, errors) ==
  [ver |-> IF m.page = m.count THEN 0 ELSE m.ver,
   snap |-> IF m.page = m.count THEN NoSnapshot
            ELSE [id |-> m.id, count |-> m.count, next |-> m.page + 1, complete |-> m.complete,
                  errors |-> priorHadErrors(m) \/ errors]]

\* The snapshot columns: progress of the snapshot under way, and the version for ever.
snapshotProgress(m, errors) ==
  [ver |-> m.ver,
   snap |-> IF m.page = m.count THEN NoSnapshot
            ELSE [id |-> m.id, count |-> m.count, next |-> m.page + 1, complete |-> m.complete,
                  errors |-> priorHadErrors(m) \/ errors]]

\* POST /api/agent/heartbeat, accepted.
heartbeatAccepted(m) ==
  LET deniedRows == denyPrivate(m, row)
      ids == storedIds(m, deniedRows)
      errors == pageHadErrors(m, deniedRows, ids)
  IN  /\ m \in net
      /\ inventoryVersionAllowsPage(m) /\ continuesSnapshot(m)
      /\ \E over \in overLimitIds(capacityCandidateIds(m, deniedRows, ids), deniedRows) :
           /\ row' = LET stored == storePage(m, deniedRows, ids, over)
                     IN  IF mayReconcileAbsence(m, errors) THEN reconcileAbsence(m, stored) ELSE stored
           /\ paused' = paused \ positivelySharedIds(m, deniedRows, ids, over)
      /\ mark' = [mark EXCEPT ![m.agent] = snapshotProgress(m, errors)]
      /\ seen' = [k \in Keys |-> IF k \in ids /\ m.ver > seen[k] THEN m.ver ELSE seen[k]]
      /\ denied' = [k \in Keys |-> IF k \in m.private /\ hasRow(k) /\ row[k].agent = m.agent /\ m.ver > denied[k]
                                   THEN m.ver ELSE denied[k]]
      /\ Answered(m, TRUE)
      /\ UNCHANGED <<loc, billing, bound>>

\* POST /api/agent/heartbeat, refused with 409 INVENTORY_SNAPSHOT_CONFLICT and the version kept.
heartbeatConflict(m) ==
  /\ m \in net
  /\ ~(inventoryVersionAllowsPage(m) /\ continuesSnapshot(m))
  /\ Answered(m, FALSE)
  /\ UNCHANGED <<loc, row, mark, billing, paused, seen, denied, bound>>

\* An agent hands a job back because its printer is not shared; the Gateway holds the job.
handBack(a, p) ==
  \E k \in {p, aliasPrinterIdForAgent(p, a)} :
    /\ hasRow(k) /\ row[k].agent = a /\ row[k].life = "active"
    /\ loc[a][p] = "private" /\ k \notin paused
    /\ paused' = paused \cup {k}
    /\ UNCHANGED <<loc, clk, cur, net, row, mark, billing, seen, denied, bound>>

\* The subscription lapses or is renewed.
billingChanges ==
  /\ "billing" \in ManagerOps /\ bound.changes < MaxChanges
  /\ bound' = [bound EXCEPT !.changes = @ + 1]
  /\ billing' = ~billing
  /\ UNCHANGED <<loc, clk, cur, net, row, mark, paused, seen, denied>>

-----------------------------------------------------------------------------
(* Managers. *)

\* getTenantEntitlementLimit and enforceTenantResourceEntitlement, under the workspace's printers lock.
enforceTenantResourceEntitlement(r) == billing /\ countPrinters(r) < Limit

\* POST /api/printers, by a manager or by the desktop of the agent.
registerPrinter(p, a, source) ==
  /\ "register" \in ManagerOps /\ row[p] = NoRow
  /\ enforceTenantResourceEntitlement(row)
  /\ row' = [row EXCEPT ![p] = [agent |-> a, mgmt |-> source, life |-> "active", shared |-> TRUE, ver |-> 0,
                                present |-> TRUE, snap |-> 0]]
  /\ UNCHANGED <<loc, clk, cur, net, mark, billing, paused, seen, denied, bound>>

\* PATCH /api/printers/[id]: an edit makes the printer the manager's.
patchPrinter(k) ==
  /\ "edit" \in ManagerOps /\ hasRow(k)
  /\ row' = [row EXCEPT ![k].mgmt = "manager"]
  /\ UNCHANGED <<loc, clk, cur, net, mark, billing, paused, seen, denied, bound>>

canTransitionLifecycle(current, next) == current # "retired" /\ next # current

\* setPrinterLifecycle
setPrinterLifecycle(k, next) ==
  /\ "lifecycle" \in ManagerOps /\ hasRow(k) /\ canTransitionLifecycle(row[k].life, next)
  /\ row' = [row EXCEPT ![k].life = next, ![k].mgmt = "manager"]
  /\ UNCHANGED <<loc, clk, cur, net, mark, billing, paused, seen, denied, bound>>

GatewayStep == \E m \in net : heartbeatAccepted(m)
RegisterStep == \E p \in Printers, a \in Agents, s \in {"manager", "agent"} : registerPrinter(p, a, s)

Next ==
  \/ \E a \in Agents, p \in Printers : LocalChange(a, p)
  \/ \E a \in Agents : sendHeartbeatContext(a)
  \/ \E a \in Agents : Timeout(a)
  \/ \E a \in Agents : Restart(a)
  \/ \E m \in net : heartbeatAccepted(m)
  \/ \E m \in net : heartbeatConflict(m)
  \/ \E a \in Agents, p \in Printers : handBack(a, p)
  \/ billingChanges
  \/ \E p \in Printers, a \in Agents, s \in {"manager", "agent"} : registerPrinter(p, a, s)
  \/ \E k \in Keys : patchPrinter(k)
  \/ \E k \in Keys, next \in {"active", "disabled", "retired"} : setPrinterLifecycle(k, next)

Spec == Init /\ [][Next]_vars

-----------------------------------------------------------------------------
(* Properties. *)

Rows == {NoRow} \cup [agent : Agents, mgmt : {"agent", "manager"}, life : {"active", "disabled", "retired"},
                      shared : BOOLEAN, ver : 0 .. MaxVer, present : BOOLEAN, snap : Nat]

\* Every row belongs to an agent, and no row knows a version its agent's high-water mark has not reached.
TypeOK ==
  /\ row \in [Keys -> Rows]
  /\ \A k \in Keys : hasRow(k) => row[k].ver <= mark[row[k].agent].ver
  /\ paused \subseteq {k \in Keys : hasRow(k)}

\* heartbeat/route.ts: a printer becomes absent only because a complete snapshot newer than
\* every report of the printer does not name it, whatever arrives late, twice or with errors.
AbsenceIsReported ==
  \A k \in Keys : hasRow(k) /\ row[k].present /\ ~row'[k].present =>
    \E m \in net : /\ m.agent = row[k].agent /\ m.complete /\ m.ver = mark'[m.agent].ver
                   /\ m.ver > seen[k]
                   /\ \A p \in m.all : k \notin {p, aliasPrinterIdForAgent(p, m.agent)}

\* privatePrinterIds: a printer its local owner withheld is not shared again
\* except by a snapshot newer than the refusal.
DenialSticks == \A k \in Keys : hasRow(k) /\ row[k].shared /\ denied[k] > 0 => row[k].ver > denied[k]

\* heartbeat/route.ts and printers/route.ts: neither a report nor a registration takes a place
\* the plan does not have, or any place while billing is unresolved.
AdmissionWithinLimit ==
  (GatewayStep \/ RegisterStep) /\ countPrinters(row') > countPrinters(row)
    => billing /\ countPrinters(row') <= Limit

\* aliasPrinterIdForAgent: a printer reported while there is a free place gets a row of the
\* reporting agent, also when another agent of the workspace has found one under the same id.
EveryReportHasARow ==
  \A m \in net : heartbeatAccepted(m) /\ billing /\ countPrinters(row') < Limit =>
    \A p \in m.printers : \E k \in {p, aliasPrinterIdForAgent(p, m.agent)} :
      row'[k] # NoRow /\ row'[k].agent = m.agent /\ row'[k].present

\* PRINTER_NOT_SHARED_PAUSE: a job held back for a printer is released only by
\* a report made after the row's last refusal or offer.
ReleaseNeedsNewEvidence ==
  \A k \in paused \ paused' : row'[k].ver > row[k].ver /\ row'[k].shared
=============================================================================
