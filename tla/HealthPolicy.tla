---------------------------- MODULE HealthPolicy ----------------------------
(***************************************************************************)
(* What the console says about agents and printers, next to what delivery  *)
(* would do: src/lib/agent-health.ts, printer-health.ts, system-health.ts  *)
(* and agent-availability.ts evaluated over the rows that registration,    *)
(* heartbeats, the presence sweep and lifecycle changes leave behind.      *)
(*                                                                         *)
(* A timestamp is kept as its age on the database clock, counted up to     *)
(* MaxAge.  Pages computed in the server process use a clock that is off   *)
(* by err (src/lib/database-clock.ts), SQL uses the database clock.        *)
(***************************************************************************)
EXTENDS Integers, FiniteSets

CONSTANTS
  Agents, Printers, Owner,  \* Owner[p]: the agent that reports printer p
  AgentStale,     \* agentStaleThresholdSeconds
  PrinterStale,   \* printerStaleThresholdSeconds
  DegradedAge,    \* DEGRADED_THRESHOLD_MS
  StartingAge,    \* STARTING_THRESHOLD_MS
  MaxAge,         \* ages are told apart up to here
  MaxDepth,       \* queue depths, counted in the steps the thresholds tell apart
  MaxErr          \* the most the server's clock is off

OwnersAreAgents == Owner \in [Printers -> Agents]
AgesReachThresholds ==
  \A t \in {AgentStale, PrinterStale, DegradedAge, StartingAge} : t \in 0 .. (MaxAge - 2)

VARIABLES
  agent,    \* [lifecycle, status, seen, created]: seen is an age or Never; created is kept until then
  printer,  \* [lifecycle, listed, status, seen, probe]
  depth     \* queued, claimed and printing jobs of each agent

vars == <<agent, printer, depth>>

Never == -9
Errs == -MaxErr .. MaxErr
QueueWarn == 0
QueueDegraded == 1
Lifecycles == {"active", "disabled", "retired"}
RawStatuses == {"online", "busy", "offline", "error", "unknown"}

Init ==
  /\ agent = [a \in Agents |-> [lifecycle |-> "active", status |-> "offline", seen |-> Never, created |-> 0]]
  /\ printer = [p \in Printers |-> [lifecycle |-> "active", listed |-> FALSE, status |-> "unknown",
                                    seen |-> Never, probe |-> "none"]]
  /\ depth = [a \in Agents |-> 0]

-----------------------------------------------------------------------------
(* The rows. *)

\* A registration or a heartbeat that reports no printer.
registered(a) ==
  /\ agent[a].lifecycle = "active"
  /\ agent' = [agent EXCEPT ![a].status = "online", ![a].seen = 0, ![a].created = 0]
  /\ UNCHANGED <<printer, depth>>

\* A heartbeat with an observation of one printer; the agent may announce that it stops.
heartbeat(p) ==
  LET a == Owner[p] IN
  /\ agent[a].lifecycle = "active" /\ agent[a].seen # Never
  /\ \E st \in {"online", "offline"}, raw \in {"online", "busy", "error"}, probe \in {"none", "ok"} :
       /\ agent' = [agent EXCEPT ![a].status = st, ![a].seen = 0]
       /\ printer' = [printer EXCEPT ![p].listed = TRUE, ![p].status = raw, ![p].seen = 0, ![p].probe = probe]
  /\ UNCHANGED depth

\* A complete snapshot without the printer.
absent(p) ==
  /\ printer[p].listed /\ agent[Owner[p]].lifecycle = "active"
  /\ agent' = [agent EXCEPT ![Owner[p]].status = "online", ![Owner[p]].seen = 0]
  /\ printer' = [printer EXCEPT ![p].listed = FALSE, ![p].status = "unknown"]
  /\ UNCHANGED depth

\* sweepStaleAgentPresence.
sweepStaleAgentPresence(a) ==
  /\ agent[a].lifecycle = "active" /\ agent[a].status = "online"
  /\ agent[a].seen = Never \/ agent[a].seen > AgentStale
  /\ agent' = [agent EXCEPT ![a].status = "offline"]
  /\ UNCHANGED <<printer, depth>>

\* transitionAgentLifecycle leaves last_seen_at alone.
transitionAgentLifecycle(a) ==
  /\ \E next \in Lifecycles \ {agent[a].lifecycle} :
       /\ agent[a].lifecycle # "retired"
       /\ agent' = [agent EXCEPT ![a].lifecycle = next, ![a].status = "offline"]
  /\ UNCHANGED <<printer, depth>>

printerLifecycle(p) ==
  /\ \E next \in {"active", "disabled"} \ {printer[p].lifecycle} :
       printer' = [printer EXCEPT ![p].lifecycle = next]
  /\ UNCHANGED <<agent, depth>>

jobsChange(a) ==
  /\ depth' \in {[depth EXCEPT ![a] = d] : d \in 0 .. MaxDepth}
  /\ UNCHANGED <<agent, printer>>

\* A variant of the code that the properties below must reject.
OlderForever(t) == t + 1

older(t) == IF t = Never \/ t = MaxAge THEN t ELSE t + 1

\* Time passes.
tick ==
  /\ agent' = [a \in Agents |-> [agent[a] EXCEPT !.seen = older(@),
                                           !.created = IF agent[a].seen = Never THEN older(@) ELSE @]]
  /\ printer' = [p \in Printers |-> [printer[p] EXCEPT !.seen = older(@)]]
  /\ UNCHANGED depth

Next ==
  \/ \E a \in Agents : registered(a) \/ sweepStaleAgentPresence(a) \/ transitionAgentLifecycle(a) \/ jobsChange(a)
  \/ \E p \in Printers : heartbeat(p) \/ absent(p) \/ printerLifecycle(p)
  \/ tick

Spec == Init /\ [][Next]_vars

-----------------------------------------------------------------------------
(* Freshness and availability. *)

\* A variant of the code that the properties below must reject.
FutureIsFresh(seen, limit, err) == seen # Never /\ seen + err <= limit

\* observationFreshness and isFresh: a timestamp in the future is not fresh.
isFresh(seen, limit, err) == seen # Never /\ seen + err >= 0 /\ seen + err <= limit

\* getAgentAvailability, the gate of job delivery.
getAgentAvailability(a, err) ==
  agent[a].lifecycle = "active" /\ agent[a].status = "online" /\ isFresh(agent[a].seen, AgentStale, err)

\* getEffectiveAgentStatus.
getEffectiveAgentStatus(a, err) ==
  IF agent[a].lifecycle # "active" THEN agent[a].lifecycle
  ELSE IF ~isFresh(agent[a].seen, AgentStale, err) THEN "unknown" ELSE agent[a].status

\* getEffectivePrinterStatus.
getEffectivePrinterStatus(p, err) ==
  IF printer[p].lifecycle # "active" THEN printer[p].lifecycle
  ELSE IF ~isFresh(printer[p].seen, PrinterStale, err) THEN "unknown" ELSE printer[p].status

-----------------------------------------------------------------------------
(* src/lib/agent-health.ts. *)

\* A variant of the code that the properties below must reject.
StatusFromAgeAlone(a, err) ==
  LET age == agent[a].seen + err IN
  IF agent[a].seen = Never THEN "OFFLINE"
  ELSE IF age <= AgentStale THEN "ONLINE"
  ELSE IF age <= DegradedAge THEN "DEGRADED" ELSE "OFFLINE"

\* computeAgentHealthStatus.
computeAgentHealthStatus(a, err) ==
  LET age == agent[a].seen + err
      createdAge == agent[a].created + err
  IN IF agent[a].status = "offline" /\ agent[a].seen # Never THEN "OFFLINE"
     ELSE IF agent[a].seen = Never
          THEN IF createdAge >= 0 /\ createdAge <= StartingAge THEN "STARTING" ELSE "OFFLINE"
     ELSE IF age < 0 THEN "OFFLINE"
     ELSE IF age <= AgentStale THEN "ONLINE"
     ELSE IF age <= DegradedAge THEN "DEGRADED" ELSE "OFFLINE"

baseStatus(a, err) ==
  IF agent[a].lifecycle # "active" \/ agent[a].status = "offline" THEN "OFFLINE"
  ELSE computeAgentHealthStatus(a, err)

\* The check called Gateway.
gatewayCheck(a, err) ==
  LET age == agent[a].seen + err IN
  IF agent[a].seen = Never \/ agent[a].lifecycle # "active" \/ agent[a].status # "online" THEN "error"
  ELSE IF age < 0 \/ age > DegradedAge THEN "error"
  ELSE IF age > AgentStale THEN "warn" ELSE "ok"

\* A variant of the code that the properties below must reject.
IgnoresLostReads(a, err, ev) ==
  [status |-> baseStatus(a, err), gateway |-> gatewayCheck(a, err), queue |-> "ok", printers |-> "ok"]

\* buildHealth: the checks, and the status, which evidence can only lower.
buildHealth(a, err, ev) ==
  LET base == baseStatus(a, err)
      degraded == \/ ~ev.queueRead \/ ~ev.printersRead \/ ev.depth > QueueDegraded
                  \/ (ev.online = 0 /\ ev.count > 0)
  IN [status |-> IF base = "ONLINE" /\ degraded THEN "DEGRADED" ELSE base,
      gateway |-> gatewayCheck(a, err),
      queue |-> IF ~ev.queueRead THEN "unknown" ELSE IF ev.depth > QueueWarn THEN "warn" ELSE "ok",
      printers |-> IF ~ev.printersRead THEN "unknown"
                   ELSE IF ev.count = 0 THEN "warn"
                   ELSE IF ev.online = 0 THEN "error"
                   ELSE IF ev.online < ev.count THEN "warn" ELSE "ok"]

counted(a) == {p \in Printers : Owner[p] = a /\ printer[p].listed /\ printer[p].lifecycle = "active"}

Evidence(a, online, queueRead, printersRead) ==
  [depth |-> IF queueRead THEN depth[a] ELSE 0,
   count |-> IF printersRead THEN Cardinality(counted(a)) ELSE 0,
   online |-> IF printersRead THEN Cardinality(online) ELSE 0,
   queueRead |-> queueRead, printersRead |-> printersRead]

\* getAgentHealth: the rows of the agent are filtered in the server process.
getAgentHealth(a, err, queueRead, printersRead) ==
  buildHealth(a, err, Evidence(a, {p \in counted(a) : printer[p].status \in {"online", "busy"}
                                                     /\ isFresh(printer[p].seen, PrinterStale, err)},
                               queueRead, printersRead))

\* A variant of the code that the properties below must reject.
FleetCountsOnlineOnly(a, err, queueRead, printersRead) ==
  buildHealth(a, err, Evidence(a, {p \in counted(a) : printer[p].status = "online" /\ printer[p].seen # Never
                                                     /\ printer[p].seen + err <= PrinterStale},
                               queueRead, printersRead))

\* getAllAgentsHealth: the same counts by a query with the two ends of the window, [now - stale, now].
getAllAgentsHealth(a, err, queueRead, printersRead) ==
  buildHealth(a, err, Evidence(a, {p \in counted(a) : /\ printer[p].status \in {"online", "busy"}
                                                     /\ printer[p].seen # Never
                                                     /\ -printer[p].seen >= err - PrinterStale
                                                     /\ -printer[p].seen <= err},
                               queueRead, printersRead))

-----------------------------------------------------------------------------
(* src/lib/printer-health.ts. *)

\* A variant of the code that the properties below must reject.
PrinterEvidenceAlone(p, err) == isFresh(printer[p].seen, PrinterStale, err)

\* The freshness of normalizePrinterStatus: printer, agent and both lifecycles.
matrixFresh(p, err) ==
  /\ isFresh(printer[p].seen, PrinterStale, err)
  /\ isFresh(agent[Owner[p]].seen, AgentStale, err)
  /\ agent[Owner[p]].status = "online"
  /\ printer[p].lifecycle = "active" /\ agent[Owner[p]].lifecycle = "active"

\* normalizePrinterStatus.
normalizePrinterStatus(p, err) ==
  IF ~matrixFresh(p, err) THEN "UNKNOWN"
  ELSE CASE printer[p].status = "online" -> "ONLINE"
         [] printer[p].status = "busy" -> "PRINTING"
         [] printer[p].status = "offline" -> "OFFLINE"
         [] printer[p].status = "error" -> "ERROR"
         [] OTHER -> "UNKNOWN"

\* A variant of the code that the properties below must reject.
SpoolerFromStatus(p, err) == IF printer[p].probe = "ok" \/ printer[p].status = "online" THEN "ok" ELSE "unknown"

\* buildPrinterCapabilityMatrix, for a queue of the spooler: only a fresh probe speaks for it.
spoolerStatus(p, err) == IF printer[p].probe # "none" /\ matrixFresh(p, err) THEN printer[p].probe ELSE "unknown"

-----------------------------------------------------------------------------
(* src/lib/system-health.ts; its queries run on the database clock. *)

activeAgents == {a \in Agents : agent[a].lifecycle = "active"}

checkAgents(read) ==
  LET online == {a \in activeAgents : agent[a].status = "online" /\ agent[a].seen # Never
                                      /\ agent[a].seen <= AgentStale}
  IN IF ~read THEN "unknown"
     ELSE IF activeAgents = {} THEN "warn"
     ELSE IF online = {} THEN "error"
     ELSE IF online # activeAgents THEN "warn" ELSE "ok"

\* A variant of the code that the properties below must reject.
RoutableByPrinterAlone ==
  {p \in Printers : printer[p].listed /\ printer[p].lifecycle = "active" /\ printer[p].status \in {"online", "busy"}}

\* The printers that checkPrinters counts as available for jobs.
routable ==
  {p \in Printers : LET a == agent[Owner[p]] IN
     /\ printer[p].listed /\ printer[p].lifecycle = "active" /\ printer[p].status \in {"online", "busy"}
     /\ printer[p].seen # Never /\ printer[p].seen <= PrinterStale
     /\ a.lifecycle = "active" /\ a.status = "online" /\ a.seen # Never /\ a.seen <= AgentStale}

checkPrinters(read) ==
  IF ~read THEN "unknown"
  ELSE IF {p \in Printers : printer[p].listed /\ printer[p].lifecycle = "active"} = {} THEN "warn"
  ELSE IF routable # {} THEN "ok" ELSE "warn"

\* A variant of the code that the properties below must reject.
ExternalsFirst(c) ==
  LET any(names, st) == \E n \in names : c[n] = st IN
  IF any({"gateway", "database"}, "error") THEN "error"
  ELSE IF any({"odoo", "billing"}, "unknown") THEN "warn"
  ELSE IF any({"queue", "agents", "printers"}, "error") THEN "error" ELSE "ok"

\* computeOverall.
computeOverall(c) ==
  LET any(names, st) == \E n \in names : c[n] = st
      critical == {"gateway", "database"}
      important == {"queue", "agents", "printers"}
      external == {"odoo", "billing"}
  IN IF any(critical, "error") THEN "error"
     ELSE IF any(critical, "unknown") THEN "unknown"
     ELSE IF any(important, "error") THEN "error"
     ELSE IF any(important, "unknown") THEN "unknown"
     ELSE IF any(important, "warn") THEN "warn"
     ELSE IF any(external, "error") THEN "error"
     ELSE IF any(external, "unknown") \/ any(external, "warn") THEN "warn"
     ELSE IF any(critical, "warn") THEN "warn" ELSE "ok"

\* getSystemHealth: four reads, each of which may fail, and the process's own heap.
getSystemHealth(dbUp, heapHigh, queueRead, stuck, agentsRead, printersRead) ==
  [gateway |-> IF heapHigh THEN "warn" ELSE "ok",
   database |-> IF dbUp THEN "ok" ELSE "error",
   queue |-> IF ~queueRead THEN "unknown" ELSE IF stuck THEN "warn" ELSE "ok",
   agents |-> checkAgents(agentsRead),
   printers |-> checkPrinters(printersRead),
   odoo |-> "unknown", billing |-> "unknown"]

-----------------------------------------------------------------------------
TypeOK ==
  /\ agent \in [Agents -> [lifecycle : Lifecycles, status : {"online", "offline"},
                           seen : {Never} \cup 0 .. MaxAge, created : 0 .. MaxAge]]
  /\ printer \in [Printers -> [lifecycle : Lifecycles, listed : BOOLEAN, status : RawStatuses,
                               seen : {Never} \cup 0 .. MaxAge, probe : {"none", "ok"}]]
  /\ depth \in [Agents -> 0 .. MaxDepth]

\* An agent shown ONLINE is one that delivery would use, judged by the same clock: the page never
\* advertises an agent that the availability gate (agent-availability.ts) would refuse.
OnlineIsAvailable ==
  \A a \in Agents, err \in Errs, q, pr \in BOOLEAN :
    getAgentHealth(a, err, q, pr).status = "ONLINE" => getAgentAvailability(a, err) /\ q /\ pr

\* A page computed in the server errs by its clock's error at most: an agent shown ONLINE was heard
\* of within the threshold plus that error on the database's own clock.
OnlineWithinClockError ==
  \A a \in Agents, err \in Errs :
    computeAgentHealthStatus(a, err) = "ONLINE" => agent[a].seen <= AgentStale - err /\ agent[a].seen + err >= 0

\* The fleet page and the detail page of an agent agree, whichever of their reads failed: the counts
\* of the grouped query are the counts of the filter.
FleetAgreesWithDetail ==
  \A a \in Agents, err \in Errs, q, pr \in BOOLEAN :
    getAllAgentsHealth(a, err, q, pr) = getAgentHealth(a, err, q, pr)

\* The capability matrix shows a printer as working only when both its own observation and its
\* agent's are current, so never after either went silent, was disabled or said goodbye.
WorkingIsReachable ==
  \A p \in Printers, err \in Errs :
    normalizePrinterStatus(p, err) \in {"ONLINE", "PRINTING"} =>
      /\ getAgentAvailability(Owner[p], err)
      /\ getEffectivePrinterStatus(p, err) \in {"online", "busy"}

\* "Do NOT report SPOOLER OK from only DB printer state" (printer-health.ts): the spooler is called
\* ok only while a probe reported by an available agent is current.
SpoolerOkIsProbed ==
  \A p \in Printers, err \in Errs :
    spoolerStatus(p, err) = "ok" => printer[p].probe = "ok" /\ getAgentAvailability(Owner[p], err)

\* The agent and printer pages agree with each other and with what delivery would do.
HealthPagesAgree ==
  OnlineIsAvailable /\ OnlineWithinClockError /\ FleetAgreesWithDetail /\ WorkingIsReachable /\ SpoolerOkIsProbed

\* The printers the system page counts as available for jobs are the ones the matrix shows as
\* working, and its Printers line is ok exactly when there is one; on one clock.
RoutableIsWorking ==
  /\ routable = {p \in Printers : printer[p].listed /\ normalizePrinterStatus(p, 0) \in {"ONLINE", "PRINTING"}}
  /\ (checkPrinters(TRUE) = "ok") => checkAgents(TRUE) \in {"ok", "warn"}

Severity == [ok |-> 0, warn |-> 1, unknown |-> 2, error |-> 3]

\* The overall verdict is the worst of what was measured, with the two services that are never
\* measured counted as a warning: no failed read or silent fleet hides behind another check.
OverallIsWorst ==
  \A dbUp, heap, q, stuck, ar, pr \in BOOLEAN :
    LET c == getSystemHealth(dbUp, heap, q, stuck, ar, pr)
        measured == {c[n] : n \in {"gateway", "database", "queue", "agents", "printers"}} \cup {"warn"}
        verdict == computeOverall(c)
    IN /\ verdict \in measured
       /\ \A s \in measured : Severity[s] <= Severity[verdict]

=============================================================================
