----------------------------- MODULE PagesProofs -----------------------------
(***************************************************************************)
(* What the browser's pages promise: documents printed from any of several *)
(* tabs (ClientPrints) and the kitchen's tickets (KitchenTickets).         *)
(***************************************************************************)
EXTENDS ClientPrints, KitchenTickets, TLAPS

(***************************************************************************)
(* A document is printed as one operation, for any number of tabs, ids,    *)
(* edits and reloads (operation_recovery.js and its three callers).        *)
(*                                                                         *)
(* The argument: an id is taken from the counter before anything is sent   *)
(* under it, and it is in the browser's storage from then on until its     *)
(* outcome is known.  A tab that is still rendering is therefore the only  *)
(* one, owns the stored id, and has sent nothing; a tab that sends an id   *)
(* again has the bytes that were sent the first time.                      *)
(***************************************************************************)

Mem == [id: 0..MaxPrints, bytes: 0..MaxVersion + 1, terminal: BOOLEAN, counted: BOOLEAN]
Tab == [pc: {"idle", "asking", "rendering", "sent", "counting"}, id: 0..MaxPrints,
        bytes: 0..MaxVersion + 1, fresh: BOOLEAN]

\* A tab's memory holds only bytes that were sent under its id.
Kept(m, S) == m \in Mem /\ (m.bytes # 0 => [id |-> m.id, bytes |-> m.bytes] \in S)

\* A tab that renders owns the stored id, under which nothing was sent; one that waits
\* for an answer has sent its id.
Handling(h, S, st) ==
  /\ h \in Tab
  /\ h.pc = "rendering" => h.fresh /\ h.id # 0 /\ st = h.id /\ \A w \in S : w.id # h.id
  /\ h.pc = "sent" => \E w \in S : w.id = h.id

\* What was sent: one content for an id, no id the counter has not reached, and for a
\* report always the same request.
SentInv(S, n) == /\ S \subseteq Requests /\ \A v, w \in S : v.id = w.id => v = w
                 /\ \A w \in S : w.id < n /\ (Kind = "report" => w.bytes = 1)

\* The inductive invariant.
ClientInv ==
  /\ store \in 0..MaxPrints /\ nextPrint \in 1..MaxPrints + 1 /\ version \in 1..MaxVersion + 1
  /\ reloads \in 0..MaxReloads /\ nb_print \in 0..MaxCount /\ store < nextPrint
  /\ wire \subseteq sent /\ job \in [Ids -> JobStates] /\ settled \subseteq Ids
  /\ SentInv(sent, nextPrint) /\ UnresolvedIsRecorded
  /\ mem = [t \in Tabs |-> mem[t]] /\ \A t \in Tabs : Kept(mem[t], sent)
  /\ tab = [t \in Tabs |-> tab[t]] /\ \A t \in Tabs : Handling(tab[t], sent, store)
  /\ \A t, u \in Tabs : tab[t].pc = "rendering" /\ tab[u].pc = "rendering" => t = u

-----------------------------------------------------------------------------
(* A step of one tab                                                       *)

\* The initial operation and handler are what a page that was just loaded has.
LEMMA LoadedFits ==
    ASSUME ClientAssumption, NEW S, NEW st
    PROVE  Kept(NoPrint, S) /\ Handling(Idle, S, st)
BY DEF ClientAssumption, Kept, Handling, Mem, Tab, NoPrint, Idle

\* An operation that ended keeps its id and forgets its bytes.
LEMMA EndedFits ==
    ASSUME ClientAssumption, NEW m \in Mem
    PROVE  LET k == [m EXCEPT !.bytes = 0, !.terminal = TRUE] IN k \in Mem /\ k.bytes = 0
<1> DEFINE k == [m EXCEPT !.bytes = 0]
<1>1. 0 \in 0..MaxVersion + 1
  BY DEF ClientAssumption
<1>2. k \in Mem /\ k.bytes = 0
  BY <1>1 DEF Mem
<1>3. [m EXCEPT !.bytes = 0, !.terminal = TRUE] = [k EXCEPT !.terminal = TRUE]
  OBVIOUS
<1> HIDE DEF k
<1>4. [k EXCEPT !.terminal = TRUE] \in Mem /\ [k EXCEPT !.terminal = TRUE].bytes = 0
  BY <1>2 DEF Mem
<1> QED
  BY <1>3, <1>4, Zenon

\* A step of tab t leaves the other tabs alone: it may not take the stored id from a tab
\* that renders, nor send anything under it.
LEMMA TabStep ==
    ASSUME ClientInv, NEW t \in Tabs, NEW m, NEW h,
           mem' = [mem EXCEPT ![t] = m], tab' = [tab EXCEPT ![t] = h],
           Kept(m, sent'), Handling(h, sent', store'),
           sent \subseteq sent', wire' \subseteq sent', SentInv(sent', nextPrint'),
           UnresolvedIsRecorded', store' < nextPrint',
           store' \in 0..MaxPrints, nextPrint' \in 1..MaxPrints + 1, version' = version,
           reloads' \in 0..MaxReloads, nb_print' \in 0..MaxCount, job' = job, settled' \subseteq Ids,
           \A u \in Tabs : (u # t /\ tab[u].pc = "rendering") =>
              /\ store' = store /\ h.pc # "rendering"
              /\ \A w \in sent' : w.id = tab[u].id => w \in sent
    PROVE  ClientInv'
<1>1. /\ mem'[t] = m /\ \A u \in Tabs : u # t => mem'[u] = mem[u]
      /\ tab'[t] = h /\ \A u \in Tabs : u # t => tab'[u] = tab[u]
      /\ mem' = [u \in Tabs |-> mem'[u]] /\ tab' = [u \in Tabs |-> tab'[u]]
  BY DEF ClientInv
<1>2. ASSUME NEW u \in Tabs
      PROVE  Kept(mem'[u], sent') /\ Handling(tab'[u], sent', store')
  <2>1. CASE u = t
    BY <1>1, <2>1
  <2>2. CASE u # t
    <3>1. mem'[u] = mem[u] /\ tab'[u] = tab[u] /\ Kept(mem[u], sent) /\ Handling(tab[u], sent, store)
      BY <1>1, <2>2, Zenon DEF ClientInv
    <3>2. Kept(mem[u], sent')
      BY <3>1, Zenon DEF Kept
    <3>3. Handling(tab[u], sent', store')
      BY <2>2, <3>1, Zenon DEF Handling
    <3> QED
      BY <3>1, <3>2, <3>3
  <2> QED
    BY <2>1, <2>2
<1>3. \A u, v \in Tabs : tab'[u].pc = "rendering" /\ tab'[v].pc = "rendering" => u = v
  BY <1>1, Zenon DEF ClientInv
<1> QED
  BY <1>1, <1>2, <1>3, Zenon DEF ClientInv

\* A step that only moves a tab's handler on, or clears its memory.
LEMMA QuietStep ==
    ASSUME ClientInv, NEW t \in Tabs, NEW m, NEW h,
           mem' = [mem EXCEPT ![t] = m], tab' = [tab EXCEPT ![t] = h],
           Kept(m, sent), h \in Tab, h.pc \notin {"rendering", "sent"},
           UNCHANGED <<store, nextPrint, version, wire, job, sent, settled>>,
           reloads' \in 0..MaxReloads, nb_print' \in 0..MaxCount
    PROVE  ClientInv'
<1>1. /\ store' = store /\ nextPrint' = nextPrint /\ version' = version /\ wire' = wire
      /\ job' = job /\ sent' = sent /\ settled' = settled
  OBVIOUS
<1>2. Handling(h, sent', store')
  BY DEF Handling
<1>3. /\ sent \subseteq sent' /\ wire' \subseteq sent' /\ SentInv(sent', nextPrint')
      /\ UnresolvedIsRecorded' /\ store' < nextPrint' /\ settled' \subseteq Ids
      /\ store' \in 0..MaxPrints /\ nextPrint' \in 1..MaxPrints + 1
  BY <1>1, Zenon DEF ClientInv, UnresolvedIsRecorded
<1>4. \A u \in Tabs : (u # t /\ tab[u].pc = "rendering") =>
              /\ store' = store /\ h.pc # "rendering"
              /\ \A w \in sent' : w.id = tab[u].id => w \in sent
  BY <1>1
<1>5. Kept(m, sent')
  BY <1>1
<1> QED
  BY <1>1, <1>2, <1>3, <1>4, <1>5, TabStep, Zenon

\* What a handler's claim can do: nothing, because another operation is unresolved; start
\* a new operation; or send again what the tab still holds.
Blocked(t) == /\ tab' = [tab EXCEPT ![t] = Idle]
              /\ UNCHANGED <<store, mem, nextPrint, wire, sent>>
Started(t) == /\ store = 0 /\ nextPrint <= MaxPrints /\ store' = nextPrint /\ nextPrint' = nextPrint + 1
              /\ ~memoryRetry(t)
              /\ IF Kind = "report" THEN Submit(t, nextPrint, TRUE)
                 ELSE /\ tab' = [tab EXCEPT ![t] = [pc |-> "rendering", id |-> nextPrint, bytes |-> 0,
                                                    fresh |-> TRUE]]
                      /\ UNCHANGED <<mem, wire, sent>>
Repeated(t) == /\ store \in {0, mem[t].id} /\ store' = mem[t].id /\ nextPrint' = nextPrint
               /\ memoryRetry(t) /\ Submit(t, mem[t].id, FALSE)

\* claimPrintOperation, for each of its callers.
LEMMA ClaimCases ==
    ASSUME ClientAssumption, ClientInv, NEW t \in Tabs, Claim(t)
    PROVE  Blocked(t) \/ Started(t) \/ Repeated(t)
<1> DEFINE p == IF memoryRetry(t) THEN mem[t].id ELSE 0
           c == claimPrintOperation(p, memoryRetry(t))
<1>1. memoryRetry(t) \in BOOLEAN /\ (memoryRetry(t) => mem[t].id # 0)
  BY DEF memoryRetry
<1>2. CASE memoryRetry(t)
  <2>1. p = mem[t].id /\ mem[t].id # 0
    BY <1>1, <1>2
  <2>2. c.blocked \/ (store \in {0, mem[t].id} /\ c.id = mem[t].id /\ c.fresh = FALSE)
    BY <1>2, <2>1 DEF claimPrintOperation
  <2> HIDE DEF p, c
  <2>3. Blocked(t) \/ Repeated(t)
    BY <1>2, <2>2 DEF Claim, Blocked, Repeated, p, c
  <2> QED
    BY <2>3
<1>3. CASE ~memoryRetry(t)
  <2>1. p = 0
    BY <1>3
  <2>2. c.blocked \/ (store = 0 /\ c.id = nextPrint /\ c.fresh = TRUE)
    BY <1>3, <2>1 DEF claimPrintOperation
  <2> HIDE DEF p, c
  <2>3. Blocked(t) \/ Started(t)
    BY <1>3, <2>2 DEF Claim, Blocked, Started, p, c
  <2> QED
    BY <2>3
<1> QED
  BY <1>2, <1>3

-----------------------------------------------------------------------------
(* Sending                                                                 *)

\* A submission: the id is in the storage, and its bytes are the ones of the first time.
LEMMA DocumentSubmitStep ==
    ASSUME ClientAssumption, ClientInv, NEW t \in Tabs, NEW id \in Ids, NEW f \in BOOLEAN,
           Submit(t, id, f), store' = id, nextPrint' \in 1..MaxPrints + 1, nextPrint <= nextPrint', id < nextPrint',
           (\A w \in sent : w.id # id) \/ [id |-> id, bytes |-> bytesFor(t, id)] \in sent,
           \A w \in sent : w.id \in settled \/ w.id = id,
           \A u \in Tabs : u # t => tab[u].pc # "rendering",
           UNCHANGED <<version, reloads, odoo, settled>>
    PROVE  ClientInv'
<1> DEFINE b == bytesFor(t, id)
           q == [id |-> id, bytes |-> b]
           m == [id |-> id, bytes |-> b, terminal |-> FALSE, counted |-> mem[t].id = id /\ mem[t].counted]
           h == [pc |-> "sent", id |-> id, bytes |-> b, fresh |-> f]
<1>1. /\ mem' = [mem EXCEPT ![t] = m] /\ tab' = [tab EXCEPT ![t] = h]
      /\ wire' = wire \cup {q} /\ sent' = sent \cup {q}
  BY Zenon DEF Submit
<1>2. b \in 1..MaxVersion + 1
  <2>1. mem[t] \in Mem /\ version \in 1..MaxVersion + 1
    BY Zenon DEF ClientInv, Kept
  <2>2. /\ 1 \in 1..MaxVersion + 1
        /\ memoryRetry(t) => mem[t].bytes \in 1..MaxVersion + 1
    BY <2>1 DEF memoryRetry, Mem, ClientAssumption
  <2> QED
    BY <2>1, <2>2 DEF bytesFor
<1>3. q \in Requests /\ q.id = id
  BY <1>2 DEF Requests
<1>4. /\ version' = version /\ reloads' = reloads /\ job' = job /\ nb_print' = nb_print /\ settled' = settled
  BY DEF odoo
<1>5. Kept(m, sent')
  <2>1. (mem[t].id = id /\ mem[t].counted) \in BOOLEAN /\ id \in 0..MaxPrints /\ b \in 0..MaxVersion + 1
    BY <1>2 DEF Ids, ClientAssumption
  <2>2. m \in Mem
    BY <2>1, Zenon DEF Mem
  <2> QED
    BY <1>1, <2>2 DEF Kept
<1>6. Handling(h, sent', store')
  <2>1. h \in Tab
    BY <1>2 DEF Tab, Ids, ClientAssumption
  <2> QED
    BY <1>1, <1>3, <2>1 DEF Handling
<1>7. SentInv(sent', nextPrint')
  <2>1. /\ sent \subseteq Requests /\ \A v, w \in sent : v.id = w.id => v = w
        /\ \A w \in sent : w.id < nextPrint /\ (Kind = "report" => w.bytes = 1)
        /\ Kind = "report" => q.bytes = 1
    <3>1. SentInv(sent, nextPrint)
      BY Zenon DEF ClientInv
    <3>2. Kind = "report" => b = 1
      BY DEF bytesFor
    <3> QED
      BY <3>1, <3>2 DEF SentInv
  <2>2. \A w \in sent : w.id < nextPrint'
    BY <2>1 DEF ClientInv, Requests, Ids, ClientAssumption
  <2>3. \A w \in sent : w.id = id => w = q
    BY <2>1, <1>3
  <2> HIDE DEF q
  <2> QED
    BY <1>1, <1>3, <2>1, <2>2, <2>3 DEF SentInv
<1>8. UnresolvedIsRecorded'
  BY <1>1, <1>3, <1>4, Zenon DEF UnresolvedIsRecorded
<1>9. /\ sent \subseteq sent' /\ wire' \subseteq sent' /\ store' \in 0..MaxPrints /\ store' < nextPrint'
      /\ settled' \subseteq Ids /\ reloads' \in 0..MaxReloads /\ nb_print' \in 0..MaxCount
  BY <1>1, <1>4 DEF ClientInv, Ids, ClientAssumption
<1> HIDE DEF m, h
<1> QED
  BY <1>1, <1>4, <1>5, <1>6, <1>7, <1>8, <1>9, TabStep, Zenon

\* A claim at the head of a handler.
LEMMA ClaimStep ==
    ASSUME ClientAssumption, ClientInv, NEW t \in Tabs, Claim(t), UNCHANGED <<version, reloads, odoo, settled>>
    PROVE  ClientInv'
<1>1. /\ version' = version /\ reloads' = reloads /\ job' = job /\ nb_print' = nb_print /\ settled' = settled
  BY DEF odoo
<1>2. CASE Blocked(t)
  <2>1. mem' = [mem EXCEPT ![t] = mem[t]] /\ Kept(mem[t], sent) /\ Idle \in Tab /\ Idle.pc = "idle"
    BY <1>2, LoadedFits DEF Blocked, ClientInv, Handling, Idle
  <2>2. /\ tab' = [tab EXCEPT ![t] = Idle]
        /\ UNCHANGED <<store, nextPrint, version, wire, job, sent, settled>>
        /\ reloads' \in 0..MaxReloads /\ nb_print' \in 0..MaxCount
    BY <1>1, <1>2, Zenon DEF Blocked, ClientInv
  <2> QED
    BY <2>1, <2>2, QuietStep
<1>3. CASE Started(t)
  <2>1. /\ nextPrint \in Ids /\ nextPrint' = nextPrint + 1 /\ nextPrint' \in 1..MaxPrints + 1 /\ nextPrint < nextPrint'
        /\ store' = nextPrint /\ store = 0 /\ nextPrint # 0
    BY <1>3 DEF Started, ClientInv, Ids, ClientAssumption
  <2>2. (\A w \in sent : w.id # nextPrint) /\ \A w \in sent : w.id \in settled
    <3>1. \A w \in sent : w.id \in Ids /\ w.id < nextPrint
      BY DEF ClientInv, SentInv, Requests
    <3> QED
      BY <2>1, <3>1 DEF ClientInv, UnresolvedIsRecorded, Ids
  <2>3. \A u \in Tabs : tab[u].pc # "rendering"
    BY <2>1, Zenon DEF ClientInv, Handling
  <2>4. CASE Kind = "report"
    <3>1. Submit(t, nextPrint, TRUE)
      BY <1>3, <2>4, Zenon DEF Started
    <3>2. nextPrint <= nextPrint'
      BY <2>1 DEF Ids
    <3> QED
      BY <2>1, <2>2, <2>3, <3>1, <3>2, DocumentSubmitStep
  <2>5. CASE Kind # "report"
    <3> DEFINE h == [pc |-> "rendering", id |-> nextPrint, bytes |-> 0, fresh |-> TRUE]
    <3>1. tab' = [tab EXCEPT ![t] = h] /\ mem' = mem /\ wire' = wire /\ sent' = sent
      BY <1>3, <2>5, Zenon DEF Started
    <3>2. mem' = [mem EXCEPT ![t] = mem[t]] /\ Kept(mem[t], sent')
      BY <3>1 DEF ClientInv
    <3>3. Handling(h, sent', store')
      <4>1. h \in Tab
        BY <2>1 DEF Tab, Ids, ClientAssumption
      <4> QED
        BY <2>1, <2>2, <3>1, <4>1 DEF Handling
    <3>4. SentInv(sent', nextPrint')
      <4>1. \A w \in sent : w.id < nextPrint'
        BY <2>1 DEF ClientInv, SentInv, Requests, Ids
      <4> QED
        BY <3>1, <4>1 DEF ClientInv, SentInv
    <3>5. UnresolvedIsRecorded'
      BY <1>1, <2>2, <3>1, Zenon DEF UnresolvedIsRecorded
    <3>6. /\ sent \subseteq sent' /\ wire' \subseteq sent' /\ store' \in 0..MaxPrints /\ store' < nextPrint'
          /\ settled' \subseteq Ids /\ reloads' \in 0..MaxReloads /\ nb_print' \in 0..MaxCount
      BY <1>1, <2>1, <3>1 DEF ClientInv, Ids, ClientAssumption
    <3> HIDE DEF h
    <3> QED
      BY <1>1, <2>1, <2>3, <3>1, <3>2, <3>3, <3>4, <3>5, <3>6, TabStep, Zenon
  <2> QED
    BY <2>4, <2>5
<1>4. CASE Repeated(t)
  <2> DEFINE i == mem[t].id
  <2>1. /\ store \in {0, i} /\ store' = i /\ nextPrint' = nextPrint /\ memoryRetry(t) /\ Submit(t, i, FALSE)
    BY <1>4, Zenon DEF Repeated
  <2>2. /\ i # 0 /\ mem[t].bytes # 0 /\ i \in 0..MaxPrints
    BY <2>1 DEF memoryRetry, ClientInv, Kept, Mem
  <2>3. [id |-> i, bytes |-> mem[t].bytes] \in sent
    BY <2>2, Zenon DEF ClientInv, Kept
  <2>4. PICK w \in sent : w.id = i /\ w.bytes = mem[t].bytes
    BY <2>3
  <2>5. i \in Ids /\ i < nextPrint /\ nextPrint \in 1..MaxPrints + 1
    BY <2>2, <2>4 DEF ClientInv, SentInv, Ids, ClientAssumption
  <2>6. [id |-> i, bytes |-> bytesFor(t, i)] \in sent
    <3>1. CASE Kind = "report"
      <4>1. mem[t].bytes = 1
        BY <3>1, <2>4 DEF ClientInv, SentInv
      <4> QED
        BY <2>3, <3>1, <4>1 DEF bytesFor
    <3>2. CASE Kind # "report"
      BY <2>1, <2>3, <3>2, Zenon DEF bytesFor
    <3> QED
      BY <3>1, <3>2
  <2>7. \A v \in sent : v.id \in settled \/ v.id = i
    BY <2>1, <2>2 DEF ClientInv, UnresolvedIsRecorded, SentInv, Requests, Ids
  <2>8. \A u \in Tabs : tab[u].pc # "rendering"
    BY <2>1, <2>4, Zenon DEF ClientInv, Handling
  <2>9. nextPrint <= nextPrint' /\ nextPrint' \in 1..MaxPrints + 1 /\ i < nextPrint'
    BY <2>1, <2>5
  <2> HIDE DEF i
  <2> QED
    BY <2>1, <2>5, <2>6, <2>7, <2>8, <2>9, DocumentSubmitStep
<1> QED
  BY <1>2, <1>3, <1>4, ClaimCases

\* The rendering is there: the first submission of a new operation.
LEMMA RenderedStep ==
    ASSUME ClientAssumption, ClientInv, NEW t \in Tabs, rendered(t)
    PROVE  ClientInv'
<1> DEFINE i == tab[t].id
<1>1. /\ tab[t].pc = "rendering" /\ Submit(t, i, tab[t].fresh) /\ store' = store /\ nextPrint' = nextPrint
      /\ UNCHANGED <<version, reloads, odoo, settled>>
  BY Zenon DEF rendered
<1>2. Handling(tab[t], sent, store)
  BY Zenon DEF ClientInv
<1>3. tab[t].fresh \in BOOLEAN /\ i \in 0..MaxPrints /\ i # 0 /\ store = i /\ \A w \in sent : w.id # i
  BY <1>1, <1>2 DEF Handling, Tab
<1>4. i \in Ids /\ nextPrint \in 1..MaxPrints + 1 /\ nextPrint <= nextPrint /\ i < nextPrint
  BY <1>3 DEF ClientInv, Ids, ClientAssumption
<1>5. \A w \in sent : w.id \in settled \/ w.id = i
  BY <1>3, Zenon DEF ClientInv, UnresolvedIsRecorded
<1>6. \A u \in Tabs : u # t => tab[u].pc # "rendering"
  BY <1>1, Zenon DEF ClientInv
<1> HIDE DEF i
<1> QED
  BY <1>1, <1>3, <1>4, <1>5, <1>6, DocumentSubmitStep

\* Nothing was rendered: the stored id, under which nothing was sent, is given back.
LEMMA RenderFailsStep ==
    ASSUME ClientAssumption, ClientInv, NEW t \in Tabs, renderFails(t)
    PROVE  ClientInv'
<1>1. /\ tab[t].pc = "rendering" /\ tab' = [tab EXCEPT ![t] = Idle]
      /\ nextPrint' = nextPrint /\ version' = version /\ reloads' = reloads /\ wire' = wire
      /\ job' = job /\ nb_print' = nb_print /\ sent' = sent /\ settled' = settled
  BY Zenon DEF renderFails, odoo
<1>2. tab[t].fresh /\ store = tab[t].id /\ \A w \in sent : w.id # tab[t].id
  BY <1>1, Zenon DEF ClientInv, Handling
<1>3. store' = 0 /\ mem' = IF mem[t].id = tab[t].id THEN [mem EXCEPT ![t] = NoPrint] ELSE mem
  BY <1>2, Zenon DEF renderFails, finishPrintOperation
<1>4. PICK m \in {NoPrint, mem[t]} : mem' = [mem EXCEPT ![t] = m]
  <2>1. mem = [mem EXCEPT ![t] = mem[t]]
    BY DEF ClientInv
  <2> QED
    BY <1>3, <2>1
<1>5. Kept(m, sent') /\ Handling(Idle, sent', store')
  <2>1. Kept(NoPrint, sent) /\ Handling(Idle, sent', store') /\ Kept(mem[t], sent)
    BY LoadedFits, Zenon DEF ClientInv
  <2> QED
    BY <1>1, <2>1
<1>6. UnresolvedIsRecorded'
  BY <1>1, <1>2, Zenon DEF UnresolvedIsRecorded, ClientInv
<1>7. /\ SentInv(sent', nextPrint') /\ sent \subseteq sent' /\ wire' \subseteq sent'
      /\ store' \in 0..MaxPrints /\ nextPrint' \in 1..MaxPrints + 1
      /\ settled' \subseteq Ids /\ reloads' \in 0..MaxReloads /\ nb_print' \in 0..MaxCount
  BY <1>1, <1>3 DEF ClientInv, ClientAssumption
<1>8. store' < nextPrint'
  BY <1>1, <1>3 DEF ClientInv
<1>9. \A u \in Tabs : u # t => tab[u].pc # "rendering"
  BY <1>1, Zenon DEF ClientInv
<1> QED
  BY <1>1, <1>4, <1>5, <1>6, <1>7, <1>8, <1>9, TabStep, Zenon

\* An outcome that ends the operation is known when the stored id is given back.
LEMMA DocumentAnswerStep ==
    ASSUME ClientAssumption, ClientInv, NEW t \in Tabs, rpcAnswers(t)
    PROVE  ClientInv'
<1> DEFINE i == tab[t].id
<1>1. PICK s \in Statuses(t) :
        /\ IF ends(s)
           THEN /\ finishPrintOperation(i)
                /\ mem' = [mem EXCEPT ![t] = IF Kind = "report" THEN NoPrint
                                             ELSE [mem[t] EXCEPT !.bytes = 0, !.terminal = TRUE]]
           ELSE UNCHANGED <<store, mem>>
        /\ settled' = IF s \in Definite THEN settled \cup {i} ELSE settled
        /\ \/ tab' = [tab EXCEPT ![t] = Idle]
           \/ tab' = [tab EXCEPT ![t].pc = "counting"]
  BY DEF rpcAnswers
<1>2. /\ tab[t].pc = "sent" /\ nextPrint' = nextPrint /\ version' = version /\ reloads' = reloads
      /\ wire' = wire /\ job' = job /\ nb_print' = nb_print /\ sent' = sent
  BY Zenon DEF rpcAnswers, odoo
<1>3. PICK w \in sent : w.id = i
  BY <1>2, Zenon DEF ClientInv, Handling
<1>4. i \in Ids
  BY <1>3 DEF ClientInv, SentInv, Requests
<1>5. ends(s) => s \in Definite
  BY DEF ends, reportEnds, terminalStatus, Definite
<1>6. /\ settled \subseteq settled' /\ settled' \subseteq Ids
      /\ store' = store \/ (store = i /\ store' = 0 /\ i \in settled')
  BY <1>1, <1>4, <1>5 DEF finishPrintOperation, ClientInv
<1>7. PICK m : mem' = [mem EXCEPT ![t] = m] /\ Kept(m, sent')
  <2>1. mem[t] \in Mem /\ Kept(mem[t], sent) /\ mem = [mem EXCEPT ![t] = mem[t]] /\ Kept(NoPrint, sent)
    BY LoadedFits DEF ClientInv, Kept
  <2> DEFINE k == [mem[t] EXCEPT !.bytes = 0, !.terminal = TRUE]
  <2>2. Kept(k, sent)
    <3>1. k \in Mem /\ k.bytes = 0
      BY <2>1, EndedFits, Zenon
    <3> QED
      BY <3>1 DEF Kept
  <2> HIDE DEF k
  <2>3. CASE ends(s) /\ Kind = "report"
    BY <1>1, <1>2, <2>1, <2>3, Zenon
  <2>4. CASE ends(s) /\ Kind # "report"
    BY <1>1, <1>2, <2>2, <2>4, Zenon DEF k
  <2>5. CASE ~ends(s)
    BY <1>1, <1>2, <2>1, <2>5
  <2> QED
    BY <2>3, <2>4, <2>5
<1>8. PICK h : tab' = [tab EXCEPT ![t] = h] /\ h \in Tab /\ h.pc \in {"idle", "counting"}
  <2>1. tab[t] \in Tab /\ Idle \in Tab /\ Idle.pc = "idle"
    BY LoadedFits DEF ClientInv, Handling, Idle
  <2> DEFINE k == [tab[t] EXCEPT !.pc = "counting"]
  <2>2. k \in Tab /\ k.pc = "counting"
    BY <2>1 DEF Tab
  <2>3. tab' = [tab EXCEPT ![t] = Idle] \/ tab' = [tab EXCEPT ![t] = k]
    BY <1>1
  <2> HIDE DEF k
  <2> QED
    BY <2>1, <2>2, <2>3
<1>9. Handling(h, sent', store') /\ h.pc # "rendering"
  BY <1>8 DEF Handling
<1>10. UnresolvedIsRecorded'
  BY <1>2, <1>6, Zenon DEF ClientInv, UnresolvedIsRecorded
<1>11. \A u \in Tabs : tab[u].pc = "rendering" => store' = store
  BY <1>3, <1>6, Zenon DEF ClientInv, Handling
<1>12. /\ SentInv(sent', nextPrint') /\ sent \subseteq sent' /\ wire' \subseteq sent'
       /\ nextPrint' \in 1..MaxPrints + 1 /\ reloads' \in 0..MaxReloads /\ nb_print' \in 0..MaxCount
  BY <1>2, Zenon DEF ClientInv
<1>13. store' \in 0..MaxPrints /\ store' < nextPrint'
  BY <1>2, <1>6 DEF ClientInv, ClientAssumption
<1> HIDE DEF i
<1> QED
  BY <1>2, <1>6, <1>7, <1>8, <1>9, <1>10, <1>11, <1>12, <1>13, TabStep, Zenon

-----------------------------------------------------------------------------
(* The other steps                                                         *)

\* A click, a call that fails, the counter, and a reload.
LEMMA OtherTabStep ==
    ASSUME ClientAssumption, ClientInv, NEW t \in Tabs,
           click(t) \/ routeMissing(t) \/ rpcFails(t) \/ countSaved(t) \/ countFails(t) \/ reload(t)
    PROVE  ClientInv'
<1>1. /\ Idle \in Tab /\ Idle.pc = "idle" /\ Kept(NoPrint, sent)
      /\ tab[t] \in Tab /\ mem[t] \in Mem /\ Kept(mem[t], sent) /\ mem = [mem EXCEPT ![t] = mem[t]]
  BY LoadedFits DEF ClientInv, Handling, Kept, Idle
<1>2. UNCHANGED <<store, nextPrint, version, wire, job, sent, settled>>
  BY Zenon DEF click, routeMissing, rpcFails, countSaved, countFails, reload, odoo
<1>3. reloads' \in 0..MaxReloads /\ nb_print' \in 0..MaxCount
  BY DEF click, routeMissing, rpcFails, countSaved, countFails, reload, odoo, ClientInv, ClientAssumption
<1>4. PICK h : tab' = [tab EXCEPT ![t] = h] /\ h \in Tab /\ h.pc \notin {"rendering", "sent"}
  <2> DEFINE k == [tab[t] EXCEPT !.pc = "asking"]
  <2>1. k \in Tab /\ k.pc = "asking"
    BY <1>1 DEF Tab
  <2>2. tab' = [tab EXCEPT ![t] = Idle] \/ tab' = [tab EXCEPT ![t] = k]
    BY DEF click, routeMissing, rpcFails, countSaved, countFails, reload
  <2> HIDE DEF k
  <2> QED
    BY <1>1, <2>1, <2>2
<1>5. PICK m : mem' = [mem EXCEPT ![t] = m] /\ Kept(m, sent)
  <2> DEFINE k(c) == [mem[t] EXCEPT !.counted = c]
  <2>1. \A c \in BOOLEAN : Kept(k(c), sent)
    BY <1>1 DEF Kept, Mem
  <2>2. \/ mem' = mem \/ mem' = [mem EXCEPT ![t] = NoPrint]
        \/ \E c \in BOOLEAN : mem' = [mem EXCEPT ![t] = k(c)]
    BY DEF click, routeMissing, rpcFails, countSaved, countFails, reload
  <2> HIDE DEF k
  <2> QED
    BY <1>1, <2>1, <2>2, Zenon
<1> QED
  BY <1>2, <1>3, <1>4, <1>5, QuietStep, Zenon

\* The order is edited, a request reaches Odoo, or the outbox goes on.
LEMMA OdooStep ==
    ASSUME ClientAssumption, ClientInv,
           documentChanges \/ (\E w \in wire : arrive(w)) \/ (\E i \in Ids : proceed(i))
    PROVE  ClientInv'
<1>1. /\ store' = store /\ mem' = mem /\ tab' = tab /\ nextPrint' = nextPrint /\ reloads' = reloads
      /\ nb_print' = nb_print /\ sent' = sent /\ settled' = settled
  BY Zenon DEF documentChanges, arrive, proceed, odoo
<1>2. wire' \subseteq wire
  BY DEF documentChanges, arrive, proceed
<1>3. version' \in 1..MaxVersion + 1
  BY DEF documentChanges, arrive, proceed, ClientInv, ClientAssumption
<1>4. job' \in [Ids -> JobStates]
  <2>1. job \in [Ids -> JobStates]
    BY DEF ClientInv
  <2>2. CASE documentChanges
    BY <2>1, <2>2, Zenon DEF documentChanges, odoo
  <2>3. ASSUME NEW w \in wire, arrive(w)
        PROVE  job' \in [Ids -> JobStates]
    <3>1. PICK s \in JobStates : job' = IF job[w.id] = "none" THEN [job EXCEPT ![w.id] = s] ELSE job
      BY <2>3 DEF arrive, JobStates
    <3> QED
      BY <2>1, <3>1
  <2>4. ASSUME NEW i \in Ids, proceed(i)
        PROVE  job' \in [Ids -> JobStates]
    <3>1. PICK s \in JobStates : job' = [job EXCEPT ![i] = s]
      BY <2>4 DEF proceed, JobStates
    <3> QED
      BY <2>1, <3>1
  <2> QED
    BY <2>2, <2>3, <2>4
<1>5. UnresolvedIsRecorded'
  BY <1>1, Zenon DEF ClientInv, UnresolvedIsRecorded
<1> QED
  BY <1>1, <1>2, <1>3, <1>4, <1>5, Zenon DEF ClientInv

\* The invariant is inductive.
LEMMA NextIInv ==
    ASSUME ClientAssumption, ClientInv, [ClientNext]_clientVars
    PROVE  ClientInv'
<1>1. ASSUME NEW t \in Tabs, printReceipt(t) \/ onClick(t) \/ silentPrintReportHandler(t) \/ reload(t)
      PROVE  ClientInv'
  <2>1. CASE routeFound(t)
    BY <2>1, ClaimStep, Zenon DEF routeFound
  <2>2. CASE printReport(t)
    BY <2>2, ClaimStep, Zenon DEF printReport
  <2> QED
    BY <1>1, <2>1, <2>2, RenderedStep, RenderFailsStep, DocumentAnswerStep, OtherTabStep, Zenon
    DEF printReceipt, onClick, silentPrintReportHandler
<1>2. CASE UNCHANGED clientVars
  BY <1>2, Zenon DEF clientVars, ClientInv, UnresolvedIsRecorded
<1> QED
  BY <1>1, <1>2, OdooStep, Zenon DEF ClientNext

\* A document is printed as one operation, whatever is reloaded, edited, lost or opened in
\* another tab: an id is submitted with one content, and while its outcome is unknown no
\* other id is (claimPrintOperation).
THEOREM OneOperation ==
    ASSUME ClientAssumption
    PROVE  ClientSpec => []OneOpenOperation
<1>1. ClientInit => ClientInv
  <2> SUFFICES ASSUME ClientInit
               PROVE  ClientInv
    OBVIOUS
  <2>1. /\ store = 0 /\ nextPrint = 1 /\ version = 1 /\ reloads = 0 /\ nb_print = 0 /\ wire = {} /\ sent = {}
        /\ settled = {} /\ mem = [t \in Tabs |-> NoPrint] /\ tab = [t \in Tabs |-> Idle]
        /\ job = [i \in Ids |-> "none"]
    BY Zenon DEF ClientInit
  <2>2. SentInv(sent, nextPrint) /\ UnresolvedIsRecorded /\ job \in [Ids -> JobStates]
    BY <2>1 DEF SentInv, UnresolvedIsRecorded, JobStates
  <2>3. \A t \in Tabs : mem[t] = NoPrint /\ tab[t] = Idle
    BY <2>1
  <2>4. \A t \in Tabs : Kept(mem[t], sent) /\ Handling(tab[t], sent, store) /\ tab[t].pc = "idle"
    <3>1. Kept(NoPrint, sent) /\ Handling(Idle, sent, store) /\ Idle.pc = "idle"
      BY LoadedFits DEF Idle
    <3> QED
      BY <2>3, <3>1
  <2>5. /\ store \in 0..MaxPrints /\ nextPrint \in 1..MaxPrints + 1 /\ version \in 1..MaxVersion + 1
        /\ reloads \in 0..MaxReloads /\ nb_print \in 0..MaxCount /\ store < nextPrint
    BY <2>1 DEF ClientAssumption
  <2>6. mem = [t \in Tabs |-> mem[t]] /\ tab = [t \in Tabs |-> tab[t]]
    BY <2>1
  <2> QED
    BY <2>1, <2>2, <2>4, <2>5, <2>6 DEF ClientInv
<1>2. ClientInv /\ [ClientNext]_clientVars => ClientInv'
  BY NextIInv
<1>3. ClientInv => OneOpenOperation
  <2> SUFFICES ASSUME ClientInv
               PROVE  OneOpenOperation
    OBVIOUS
  <2>1. \A t \in Tabs : mem[t] \in Mem /\ tab[t] \in Tab
    BY Zenon DEF ClientInv, Kept, Handling
  <2>2. mem \in [Tabs -> Mem] /\ tab \in [Tabs -> Tab]
    BY <2>1 DEF ClientInv
  <2>3. ClientTypeOK
    BY <2>2 DEF ClientInv, SentInv, ClientTypeOK, Mem, Tab
  <2>4. SameBytes /\ UnresolvedIsRecorded
    BY Zenon DEF ClientInv, SentInv, SameBytes
  <2> QED
    BY <2>3, <2>4 DEF OneOpenOperation
<1> QED
  BY <1>1, <1>2, <1>3, PTL DEF ClientSpec

-----------------------------------------------------------------------------
(***************************************************************************)
(* The kitchen's tickets, for any number of stations, quantities, edits    *)
(* and attempts (pos_print_router.js): no ticket that may be on paper is   *)
(* sent again as another operation, and the kitchen is taken to know only  *)
(* what an accepted ticket told it.                                        *)
(*                                                                         *)
(* The argument: within a round, the attempts map remembers every ticket   *)
(* that may be on paper, and the loop reuses such a result instead of      *)
(* submitting; an operation that may be consumed was made against the      *)
(* preparation change that still stands, and every station it concerns is  *)
(* still to do or pending.                                                 *)
(***************************************************************************)

\* Results under which a ticket may be on paper: they are kept.
Final == {"accepted", "unknown"}

Op == [st: {"idle", "asking", "routing", "printing", "waiting"}, change: Changes \cup {None},
       todo: SUBSET Stations, kind: {"send", "retry", "reprint"}, printed: BOOLEAN, all: BOOLEAN,
       retry: SUBSET Stations, at: (Stations \X Nat) \cup {None}]

\* Every station that a change concerns is in S or has a pending ticket.
Covered(c, S, P) == \A s \in Concerned(c) : s \in S \/ <<s, c>> \in P

\* What the maps of the page say about the tickets of round r, of which none is numbered n.
TicketInv(t, A, I, n, r) ==
  /\ t.id \in Nat /\ t.id < n /\ t.round \in Nat /\ t.round <= r
  /\ (~t.reprint /\ t.round = r) =>
       /\ t.key \in DOMAIN I /\ t.id <= I[t.key]
       /\ t.event \in MayBePrinted => t.key \in DOMAIN A /\ A[t.key] \in Final

AcceptedTicket(T, r, k) ==
  \E t \in T : t.round = r /\ t.event = "accepted" /\ ~t.reprint /\ t.key = k

Ledger(T, A, I, n, r) ==
  /\ n \in Nat /\ r \in Nat
  /\ \A t \in T : TicketInv(t, A, I, n, r)
  /\ \A k \in DOMAIN I : I[k] \in Nat /\ I[k] < n
  /\ \A k \in DOMAIN A : A[k] = "accepted" => AcceptedTicket(T, r, k)

\* The operation that owns the order: its change was captured against the preparation
\* change p, and the ticket it waits for has no result that must be kept.
Operation(o, p, P) ==
  /\ o \in Op /\ (o.all => o.retry = {})
  /\ o.st = "asking" => o.kind = "send" /\ o.todo = {}
  /\ o.st \in {"routing", "printing", "waiting"} =>
       /\ o.change \in Changes
       /\ o.kind # "reprint" => o.change[1] = p
  /\ o.st = "routing" /\ o.kind = "send" => o.todo = {}
  /\ o.st = "routing" /\ o.kind = "retry" => Covered(o.change, {}, P)
  /\ o.st \in {"printing", "waiting"} /\ o.kind # "reprint" => Covered(o.change, o.todo, P)

Waiting(o, A, I, n, P) ==
  o.st = "waiting" =>
    /\ o.at \in Stations \X Nat /\ o.at[2] < n
    /\ o.kind # "reprint" =>
         LET k == <<o.at[1], o.change>>
         IN  /\ k \in DOMAIN I /\ I[k] = o.at[2] /\ k \in P
             /\ k \in DOMAIN A => A[k] \notin Final

\* The popup: a retry goes on with a change against the preparation change that stands.
Popup(d, p, P) ==
  /\ d \in [change: Changes, printers: SUBSET Stations, kind: {"retry", "reprint"}]
  /\ d.kind = "retry" => d.change[1] = p /\ Covered(d.change, {}, P)

\* The inductive invariant.
IInv ==
  /\ qty \in Orders /\ prep \in Orders /\ (last = None \/ last \in Changes)
  /\ Ledger(tickets, attempts, ids, nextId, round) /\ NoSecondTicket
  /\ Operation(op, prep, pending) /\ Waiting(op, attempts, ids, nextId, pending)
  /\ dialog = None \/ Popup(dialog, prep, pending)

-----------------------------------------------------------------------------
(* The records and maps                                                    *)

\* An operation that does nothing yet.
LEMMA NoOpFits ==
    ASSUME NEW p, NEW P, NEW A, NEW I, NEW n
    PROVE  /\ Operation(NoOp, p, P) /\ Waiting(NoOp, A, I, n, P)
           /\ NoOp \in Op /\ NoOp.kind = "send" /\ NoOp.todo = {} /\ NoOp.all /\ NoOp.retry = {}
<1>1. /\ NoOp \in Op /\ NoOp.kind = "send" /\ NoOp.todo = {} /\ NoOp.all = TRUE /\ NoOp.retry = {}
      /\ NoOp.st = "idle"
  BY DEF Op, NoOp
<1> QED
  BY <1>1 DEF Operation, Waiting

\* What setting the state, the stations and the ticket waited for leaves of an operation.
LEMMA MovedFields ==
    ASSUME NEW o \in Op, NEW x \in {"asking", "routing", "printing", "waiting"},
           NEW S \in SUBSET Stations, NEW a \in (Stations \X Nat) \cup {None}
    PROVE  LET q == [o EXCEPT !.st = x, !.todo = S, !.at = a]
           IN  /\ q \in Op /\ q.st = x /\ q.todo = S /\ q.at = a /\ q.change = o.change
               /\ q.kind = o.kind /\ q.printed = o.printed /\ q.all = o.all /\ q.retry = o.retry
BY DEF Op

\* A change is told apart by its two orders.
LEMMA ChangeIs ==
    ASSUME NEW p \in Orders, NEW q \in Orders
    PROVE  <<p, q>> \in Changes /\ <<p, q>>[1] = p /\ <<p, q>>[2] = q
BY DEF Changes

\* More pending tickets cover more.
LEMMA CoveredMore ==
    ASSUME NEW c, NEW S, NEW T, NEW P, NEW Q, Covered(c, S, P), S \subseteq T, P \subseteq Q
    PROVE  Covered(c, T, Q)
BY Zenon DEF Covered

\* The popup stays right while further tickets become pending.
LEMMA PopupMore ==
    ASSUME NEW d, NEW p, NEW P, NEW Q, Popup(d, p, P), P \subseteq Q
    PROVE  Popup(d, p, Q)
<1>1. Covered(d.change, {}, P) => Covered(d.change, {}, Q)
  BY Zenon DEF Covered
<1> QED
  BY <1>1, Zenon DEF Popup

-----------------------------------------------------------------------------
(* Steps that send nothing                                                 *)

\* A step of the operation or the popup that leaves the maps and the tickets alone.
LEMMA OpStep ==
    ASSUME IInv, NEW o, op' = o, UNCHANGED <<prep, uiState, nextId, round, tickets>>, qty' \in Orders,
           Operation(o, prep, pending), Waiting(o, attempts, ids, nextId, pending),
           dialog' = None \/ Popup(dialog', prep, pending)
    PROVE  IInv'
<1>1. /\ prep' = prep /\ attempts' = attempts /\ ids' = ids /\ pending' = pending /\ last' = last
      /\ nextId' = nextId /\ round' = round /\ tickets' = tickets
  BY DEF uiState
<1> QED
  BY <1>1, Zenon DEF IInv, NoSecondTicket

\* The cashier edits, closes the popup, or asks; or nothing comes of it.
LEMMA CashierStep ==
    ASSUME IInv,
           \/ \E s \in Stations : edit(s)
           \/ send \/ sendStops \/ closeDialog \/ notRouted
    PROVE  IInv'
<1>1. UNCHANGED <<prep, uiState, nextId, round, tickets>>
  BY Zenon DEF edit, send, sendStops, closeDialog, notRouted
<1>2. qty' \in Orders
  BY DEF edit, send, sendStops, closeDialog, notRouted, IInv, Orders
<1>3. dialog' = None \/ Popup(dialog', prep, pending)
  BY Zenon DEF edit, send, sendStops, closeDialog, notRouted, IInv
<1>4. Operation(op', prep, pending) /\ Waiting(op', attempts, ids, nextId, pending)
  <2>1. CASE op' = op
    BY <2>1, Zenon DEF IInv
  <2>2. CASE op' = NoOp
    BY <2>2, NoOpFits, Zenon
  <2>3. CASE op' = [NoOp EXCEPT !.st = "asking"]
    <3> DEFINE o == [NoOp EXCEPT !.st = "asking"]
    <3>1. o \in Op /\ o.st = "asking" /\ o.kind = "send" /\ o.todo = {} /\ o.retry = {}
      BY DEF NoOp, Op
    <3> HIDE DEF o
    <3>2. Operation(o, prep, pending) /\ Waiting(o, attempts, ids, nextId, pending)
      BY <3>1 DEF Operation, Waiting
    <3> QED
      BY <2>3, <3>2, Zenon DEF o
  <2> QED
    BY <2>1, <2>2, <2>3, Zenon DEF edit, send, sendStops, closeDialog, notRouted
<1> QED
  BY <1>1, <1>2, <1>3, <1>4, OpStep, Zenon

\* A change is captured against the preparation change that stands, or the last one is
\* taken for a reprint.
LEMMA CaptureStep ==
    ASSUME IInv, capture \/ captureReprint
    PROVE  IInv'
<1>1. UNCHANGED <<prep, uiState, nextId, round, tickets>> /\ qty' = qty /\ dialog' = dialog
  BY Zenon DEF capture, captureReprint
<1>2. op \in Op /\ op.st = "asking" /\ op.kind = "send" /\ op.todo = {} /\ (op.all => op.retry = {})
  BY DEF capture, captureReprint, IInv, Operation
<1>3. CASE capture
  <2> DEFINE c == <<prep, qty>>
             o == [op EXCEPT !.st = "routing", !.change = c]
  <2>1. c \in Changes /\ c[1] = prep
    BY ChangeIs, Zenon DEF IInv
  <2> HIDE DEF c
  <2>2. /\ o \in Op /\ o.st = "routing" /\ o.kind = "send" /\ o.change = c /\ o.todo = {}
        /\ o.all = op.all /\ o.retry = op.retry
    BY <1>2, <2>1 DEF Op
  <2>3. op' = o
    BY <1>3, Zenon DEF capture, c
  <2> HIDE DEF o
  <2>4. Operation(o, prep, pending) /\ Waiting(o, attempts, ids, nextId, pending)
    BY <1>2, <2>1, <2>2 DEF Operation, Waiting
  <2> QED
    BY <1>1, <2>3, <2>4, OpStep, Zenon DEF IInv
<1>4. CASE captureReprint
  <2> DEFINE o == [op EXCEPT !.st = "routing", !.kind = "reprint", !.change = last]
  <2>1. last \in Changes
    BY <1>4 DEF captureReprint, IInv
  <2>2. /\ o \in Op /\ o.st = "routing" /\ o.kind = "reprint" /\ o.change = last
        /\ o.all = op.all /\ o.retry = op.retry
    BY <1>2, <2>1 DEF Op
  <2>3. op' = o
    BY <1>4, Zenon DEF captureReprint
  <2> HIDE DEF o
  <2>4. Operation(o, prep, pending) /\ Waiting(o, attempts, ids, nextId, pending)
    BY <1>2, <2>1, <2>2 DEF Operation, Waiting
  <2> QED
    BY <1>1, <2>3, <2>4, OpStep, Zenon DEF IInv
<1> QED
  BY <1>3, <1>4

\* The popup's retry takes its change over.
LEMMA RetryStep ==
    ASSUME IInv, retryDialog
    PROVE  IInv'
<1> DEFINE o == [NoOp EXCEPT !.st = "routing", !.kind = dialog.kind, !.change = dialog.change,
                             !.todo = dialog.printers]
<1>1. /\ UNCHANGED <<prep, uiState, nextId, round, tickets>> /\ qty' = qty /\ dialog' = None /\ op' = o
  BY Zenon DEF retryDialog
<1>2. Popup(dialog, prep, pending)
  BY Zenon DEF IInv, retryDialog
<1>3. /\ dialog.change \in Changes /\ dialog.printers \in SUBSET Stations
      /\ dialog.kind \in {"retry", "reprint"}
  BY <1>2 DEF Popup
<1>4. /\ o \in Op /\ o.st = "routing" /\ o.kind = dialog.kind /\ o.change = dialog.change /\ o.retry = {}
  BY <1>3 DEF Op, NoOp
<1> HIDE DEF o
<1>5. Operation(o, prep, pending) /\ Waiting(o, attempts, ids, nextId, pending)
  BY <1>2, <1>3, <1>4 DEF Operation, Waiting, Popup
<1> QED
  BY <1>1, <1>5, OpStep, Zenon DEF IInv

\* The stations to print at are the ones the change concerns; a retry has fewer, and the
\* others are pending.
LEMMA RoutedStep ==
    ASSUME IInv, routed
    PROVE  IInv'
<1> DEFINE c == op.change
           S == IF op.todo # {} THEN op.todo \cap Concerned(c) ELSE Concerned(c)
           o == [op EXCEPT !.st = "printing", !.todo = S]
<1>1. /\ UNCHANGED <<prep, uiState, nextId, round, tickets>> /\ qty' = qty /\ dialog' = dialog /\ op' = o
      /\ op.st = "routing" /\ Operation(op, prep, pending)
  BY Zenon DEF routed, IInv
<1>2. S \in SUBSET Stations /\ op \in Op
  BY <1>1 DEF Operation, Op, Concerned
<1>3. op.kind # "reprint" => Covered(c, S, pending)
  <2>1. CASE op.kind = "send"
    BY <1>1, <2>1 DEF Operation, Covered
  <2>2. CASE op.kind = "retry"
    <3>1. Covered(c, {}, pending)
      BY <1>1, <2>2 DEF Operation
    <3> QED
      BY <3>1, CoveredMore
  <2> QED
    BY <1>2, <2>1, <2>2 DEF Op
<1> HIDE DEF S
<1>4. /\ o \in Op /\ o.st = "printing" /\ o.todo = S /\ o.change = c /\ o.kind = op.kind
      /\ o.all = op.all /\ o.retry = op.retry
  BY <1>2 DEF Op
<1> HIDE DEF o
<1>5. Operation(o, prep, pending) /\ Waiting(o, attempts, ids, nextId, pending)
  BY <1>1, <1>3, <1>4 DEF Operation, Waiting
<1> QED
  BY <1>1, <1>5, OpStep, Zenon DEF IInv

-----------------------------------------------------------------------------
(* The loop over the stations                                              *)

\* What the loop makes of a result.
LEMMA CountedIs ==
    ASSUME op \in Op, op.all => op.retry = {}, NEW s \in Stations, NEW r
    PROVE  LET q == Counted(s, r)
           IN  /\ q \in Op /\ q.st = "printing" /\ q.todo = op.todo \ {s} /\ q.change = op.change
               /\ q.kind = op.kind /\ (q.all => q.retry = {})
<1> DEFINE a == op.all /\ r = "accepted"
           b == op.printed \/ r = "accepted"
           S == IF r \in {"failed", "unasked"} THEN op.retry \cup {s} ELSE op.retry
           T == op.todo \ {s}
           q == [op EXCEPT !.st = "printing", !.todo = T, !.at = None, !.printed = b, !.all = a, !.retry = S]
<1>1. Counted(s, r) = q
  BY Zenon DEF Counted
<1>2. a \in BOOLEAN /\ b \in BOOLEAN /\ S \in SUBSET Stations /\ T \in SUBSET Stations /\ (a => S = {})
  BY DEF Op
<1> HIDE DEF a, b, S, T
<1>3. /\ q \in Op /\ q.st = "printing" /\ q.todo = T /\ q.change = op.change /\ q.kind = op.kind
      /\ q.all = a /\ q.retry = S
  BY <1>2 DEF Op
<1> QED
  BY <1>1, <1>2, <1>3 DEF T

\* The ticket is settled for this operation, and pending or answered.
LEMMA CountedFits ==
    ASSUME NEW p, NEW P, NEW Q, Operation(op, p, P), op.st \in {"printing", "waiting"},
           NEW s \in Stations, NEW r, P \subseteq Q, op.kind # "reprint" => Key(s) \in Q,
           NEW A, NEW I, NEW n
    PROVE  Operation(Counted(s, r), p, Q) /\ Waiting(Counted(s, r), A, I, n, Q)
<1> DEFINE q == Counted(s, r)
<1>1. op \in Op /\ (op.all => op.retry = {})
  BY Zenon DEF Operation
<1>2. /\ q \in Op /\ q.st = "printing" /\ q.todo = op.todo \ {s} /\ q.change = op.change
      /\ q.kind = op.kind /\ (q.all => q.retry = {})
  BY <1>1, CountedIs, Zenon
<1> HIDE DEF q
<1>3. op.kind # "reprint" => Covered(op.change, op.todo \ {s}, Q)
  BY DEF Operation, Covered, Key
<1>4. op.change \in Changes /\ (op.kind # "reprint" => op.change[1] = p)
  BY DEF Operation
<1>5. Operation(q, p, Q) /\ Waiting(q, A, I, n, Q)
  BY <1>2, <1>3, <1>4 DEF Operation, Waiting
<1> QED
  BY <1>5 DEF q

\* A known outcome is used again.
LEMMA ReuseStep ==
    ASSUME IInv, NEW s \in Stations, reuse(s)
    PROVE  IInv'
<1>1. /\ op.st = "printing" /\ op' = Counted(s, prior(s)) /\ pending' = pending \cup {Key(s)}
      /\ qty' = qty /\ prep' = prep /\ attempts' = attempts /\ ids' = ids /\ last' = last /\ dialog' = dialog
      /\ nextId' = nextId /\ round' = round /\ tickets' = tickets
  BY Zenon DEF reuse
<1>2. /\ Operation(op', prep, pending') /\ Waiting(op', attempts, ids, nextId, pending')
  BY <1>1, CountedFits DEF IInv
<1>3. dialog = None \/ Popup(dialog, prep, pending')
  BY <1>1, PopupMore DEF IInv
<1> QED
  BY <1>1, <1>2, <1>3, Zenon DEF IInv, NoSecondTicket

\* A ticket gets its operation id: a new one, or the one it has.
LEMMA NewIdLedger ==
    ASSUME NEW T, NEW A, NEW I, NEW n, NEW r, Ledger(T, A, I, n, r), NEW k, NEW id, NEW m,
           (id = n /\ m = n + 1) \/ (k \in DOMAIN I /\ id = I[k] /\ m = n)
    PROVE  /\ Ledger(T, A, I, m, r) /\ Ledger(T, A, With(I, k, id), m, r)
           /\ id \in Nat /\ id < m
<1> DEFINE J == With(I, k, id)
<1>1. /\ DOMAIN J = DOMAIN I \cup {k} /\ J[k] = id /\ \A x \in DOMAIN I : x # k => J[x] = I[x]
  BY DEF With
<1> HIDE DEF J
<1>2. /\ n \in Nat /\ m \in Nat /\ r \in Nat /\ id \in Nat /\ id < m /\ n <= m
  BY DEF Ledger
<1>3. \A x \in DOMAIN I : I[x] \in Nat /\ I[x] < m
  BY <1>2 DEF Ledger
<1>4. ASSUME NEW t \in T
      PROVE  TicketInv(t, A, I, m, r) /\ TicketInv(t, A, J, m, r)
  <2>1. TicketInv(t, A, I, n, r)
    BY Zenon DEF Ledger
  <2>2. t.id \in Nat /\ t.id < n /\ t.id < m
    BY <1>2, <2>1 DEF TicketInv
  <2>3. t.key \in DOMAIN I /\ t.id <= I[t.key] => t.key \in DOMAIN J /\ t.id <= J[t.key]
    BY <1>1, <1>2, <2>2
  <2> QED
    BY <2>1, <2>2, <2>3, Zenon DEF TicketInv
<1>5. \A x \in DOMAIN J : J[x] \in Nat /\ J[x] < m
  BY <1>1, <1>2, <1>3
<1> QED
  BY <1>2, <1>3, <1>4, <1>5, Zenon DEF Ledger, J

\* The ticket is submitted: none that may be on paper has its key.
LEMMA SubmitStep ==
    ASSUME IInv, NEW s \in Stations, submit(s)
    PROVE  IInv'
<1> DEFINE k == Key(s)
           id == IF fresh(s) THEN nextId ELSE ids[k]
           o == [op EXCEPT !.st = "waiting", !.at = <<s, id>>]
<1>1. /\ op.st = "printing" /\ ~reusable(s) /\ op' = o
      /\ nextId' = IF fresh(s) THEN nextId + 1 ELSE nextId
      /\ IF op.kind = "reprint" THEN ids' = ids /\ pending' = pending
         ELSE ids' = With(ids, k, id) /\ pending' = pending \cup {k}
      /\ qty' = qty /\ prep' = prep /\ attempts' = attempts /\ last' = last /\ dialog' = dialog
      /\ round' = round /\ tickets' = tickets
  BY Zenon DEF submit
<1>2. (id = nextId /\ nextId' = nextId + 1) \/ (k \in DOMAIN ids /\ id = ids[k] /\ nextId' = nextId)
  BY <1>1, Zenon DEF fresh
<1>3. Ledger(tickets, attempts, ids, nextId, round) /\ op \in Op /\ Operation(op, prep, pending)
  BY Zenon DEF IInv, Operation
<1> HIDE DEF id
<1>4. /\ Ledger(tickets, attempts, ids, nextId', round)
      /\ Ledger(tickets, attempts, With(ids, k, id), nextId', round)
      /\ id \in Nat /\ id < nextId'
  BY <1>2, <1>3, NewIdLedger
<1>5. Ledger(tickets, attempts, ids', nextId', round)
  BY <1>1, <1>4, Zenon
<1>6. /\ o \in Op /\ o.st = "waiting" /\ o.at = <<s, id>> /\ o.change = op.change /\ o.kind = op.kind
      /\ o.todo = op.todo /\ o.all = op.all /\ o.retry = op.retry
  BY <1>3, <1>4 DEF Op
<1> HIDE DEF o
<1>7. pending \subseteq pending' /\ (op.kind # "reprint" => k \in pending')
  BY <1>1
<1>8. Operation(o, prep, pending')
  <2>1. op.kind # "reprint" => Covered(op.change, op.todo, pending')
    BY <1>1, <1>3, <1>7, CoveredMore DEF Operation
  <2>2. op.change \in Changes /\ (op.kind # "reprint" => op.change[1] = prep) /\ (op.all => op.retry = {})
    BY <1>1, <1>3 DEF Operation
  <2> QED
    BY <1>6, <2>1, <2>2 DEF Operation
<1>9. Waiting(o, attempts, ids', nextId', pending')
  <2>1. o.at \in Stations \X Nat /\ o.at[1] = s /\ o.at[2] = id
    BY <1>4, <1>6
  <2>2. k = <<o.at[1], o.change>>
    BY <1>6, <2>1 DEF Key
  <2>3. ASSUME op.kind # "reprint"
        PROVE  /\ k \in DOMAIN ids' /\ ids'[k] = id /\ k \in pending'
               /\ k \in DOMAIN attempts => attempts[k] \notin Final
    <3>1. ids' = With(ids, k, id) /\ k \in pending'
      BY <1>1, <1>7, <2>3, Zenon
    <3>2. k \in DOMAIN With(ids, k, id) /\ With(ids, k, id)[k] = id
      BY DEF With
    <3>3. k \in DOMAIN attempts => attempts[k] \notin Final
      BY <1>1, <2>3 DEF reusable, prior, At, Final
    <3> QED
      BY <3>1, <3>2, <3>3, Zenon
  <2> HIDE DEF k
  <2> QED
    BY <1>4, <1>6, <2>1, <2>2, <2>3 DEF Waiting
<1>10. dialog = None \/ Popup(dialog, prep, pending')
  BY <1>7, PopupMore DEF IInv
<1> QED
  BY <1>1, <1>5, <1>8, <1>9, <1>10, Zenon DEF IInv, NoSecondTicket

-----------------------------------------------------------------------------
(* Answers and the end of the loop                                         *)

\* A ticket t with number id is answered. The numbers of its key do not grow after it, and
\* nothing with its key may be on paper.
LEMMA AnsweredLedger ==
    ASSUME NEW T, NEW A, NEW I, NEW n, NEW r, Ledger(T, A, I, n, r), NEW t, NEW v,
           t.round = r, t.id \in Nat, t.id < n, ~t.reprint, t.key \in DOMAIN I, t.id = I[t.key],
           t.key \in DOMAIN A => A[t.key] \notin Final,
           t.event \in MayBePrinted => v \in Final, v = "accepted" => t.event = "accepted"
    PROVE  /\ Ledger(T \cup {t}, With(A, t.key, v), I, n, r)
           /\ \A u \in T : u.key = t.key /\ u.round = t.round /\ ~u.reprint
                           => u.event \notin MayBePrinted /\ u.id <= t.id
<1> DEFINE B == With(A, t.key, v)
           U == T \cup {t}
<1>1. /\ DOMAIN B = DOMAIN A \cup {t.key} /\ B[t.key] = v
      /\ \A x \in DOMAIN A : x # t.key => B[x] = A[x]
  BY DEF With
<1> HIDE DEF B
<1>2. \A u \in T : u.key = t.key /\ u.round = t.round /\ ~u.reprint
                   => u.event \notin MayBePrinted /\ u.id <= t.id
  BY Zenon DEF Ledger, TicketInv
<1>3. ASSUME NEW u \in T
      PROVE  TicketInv(u, B, I, n, r)
  <2>1. TicketInv(u, A, I, n, r)
    BY Zenon DEF Ledger
  <2>2. (~u.reprint /\ u.round = r /\ u.event \in MayBePrinted) => u.key \in DOMAIN B /\ B[u.key] \in Final
    BY <1>1, <1>2, <2>1, Zenon DEF TicketInv
  <2> QED
    BY <2>1, <2>2, Zenon DEF TicketInv
<1>4. TicketInv(t, B, I, n, r)
  BY <1>1 DEF TicketInv, Ledger
<1>5. ASSUME NEW x \in DOMAIN B, B[x] = "accepted"
      PROVE  AcceptedTicket(U, r, x)
  <2>1. CASE x = t.key
    BY <1>1, <1>5, <2>1 DEF AcceptedTicket
  <2>2. CASE x # t.key
    <3>1. AcceptedTicket(T, r, x)
      BY <1>1, <1>5, <2>2 DEF Ledger
    <3> QED
      BY <3>1, Zenon DEF AcceptedTicket
  <2> QED
    BY <2>1, <2>2
<1>6. \A u \in U : TicketInv(u, B, I, n, r)
  BY <1>3, <1>4
<1> HIDE DEF U
<1>7. Ledger(U, B, I, n, r)
  BY <1>5, <1>6, Zenon DEF Ledger
<1> QED
  BY <1>2, <1>7 DEF U, B

\* The fate of a reprint is recorded nowhere in the page.
LEMMA ReprintedLedger ==
    ASSUME NEW T, NEW A, NEW I, NEW n, NEW r, Ledger(T, A, I, n, r), NEW t,
           t.round = r, t.id \in Nat, t.id < n, t.reprint
    PROVE  Ledger(T \cup {t}, A, I, n, r)
<1>1. TicketInv(t, A, I, n, r)
  BY DEF TicketInv, Ledger
<1>2. \A k : AcceptedTicket(T, r, k) => AcceptedTicket(T \cup {t}, r, k)
  BY Zenon DEF AcceptedTicket
<1> QED
  BY <1>1, <1>2, Zenon DEF Ledger

\* A ticket's result says "accepted" only when it was, and is kept when it may be on paper.
LEMMA ClassifiedIs ==
    ASSUME NEW e \in Events
    PROVE  /\ e \in MayBePrinted => classified(e) \in Final
           /\ classified(e) = "accepted" => e = "accepted"
BY DEF classified, Events, MayBePrinted, Final

\* printOrderChanges returns.
LEMMA AnswerStep ==
    ASSUME IInv, NEW e \in Events, answer(e)
    PROVE  IInv'
<1> DEFINE s == op.at[1]
           v == classified(e)
           t == [round |-> round, key |-> Key(s), id |-> op.at[2], reprint |-> op.kind = "reprint", event |-> e]
<1>1. /\ op.st = "waiting" /\ tickets' = tickets \cup {t} /\ op' = Counted(s, v)
      /\ attempts' = IF op.kind = "reprint" THEN attempts ELSE With(attempts, Key(s), v)
      /\ qty' = qty /\ prep' = prep /\ ids' = ids /\ pending' = pending /\ last' = last
      /\ dialog' = dialog /\ nextId' = nextId /\ round' = round
  BY Zenon DEF answer
<1>2. /\ Operation(op, prep, pending) /\ Waiting(op, attempts, ids, nextId, pending)
      /\ Ledger(tickets, attempts, ids, nextId, round) /\ NoSecondTicket
  BY Zenon DEF IInv
<1>3. op.at \in Stations \X Nat /\ op.at[2] < nextId
  BY <1>1, <1>2 DEF Waiting
<1>4. s \in Stations /\ op.at[2] \in Nat
  BY <1>3
<1>5. /\ t.round = round /\ t.key = Key(s) /\ t.id = op.at[2] /\ t.event = e
      /\ t.reprint = (op.kind = "reprint")
  OBVIOUS
<1>6. op.kind # "reprint" =>
        /\ Key(s) \in DOMAIN ids /\ ids[Key(s)] = t.id /\ Key(s) \in pending
        /\ Key(s) \in DOMAIN attempts => attempts[Key(s)] \notin Final
  BY <1>1, <1>2, <1>5, Zenon DEF Waiting, Key
<1>7. (e \in MayBePrinted => v \in Final) /\ (v = "accepted" => e = "accepted")
  BY ClassifiedIs, Zenon
<1> HIDE DEF s, v, t
<1>8. Operation(op', prep, pending) /\ Waiting(op', attempts', ids, nextId, pending)
  BY <1>1, <1>2, <1>4, <1>6, CountedFits
<1>9. CASE op.kind = "reprint"
  <2>1. t.reprint
    BY <1>5, <1>9
  <2>2. Ledger(tickets', attempts', ids, nextId, round)
    BY <1>1, <1>2, <1>3, <1>4, <1>5, <1>9, <2>1, ReprintedLedger
  <2>3. NoSecondTicket'
    BY <1>1, <1>2, <2>1, Zenon DEF NoSecondTicket
  <2> QED
    BY <1>1, <1>8, <2>2, <2>3, Zenon DEF IInv
<1>10. CASE op.kind # "reprint"
  <2>1. ~t.reprint
    BY <1>5, <1>10
  <2>2. /\ Ledger(tickets \cup {t}, With(attempts, t.key, v), ids, nextId, round)
        /\ \A u \in tickets : u.key = t.key /\ u.round = t.round /\ ~u.reprint
                              => u.event \notin MayBePrinted /\ u.id <= t.id
    <3>1. /\ t.round = round /\ t.id \in Nat /\ t.id < nextId /\ t.key \in DOMAIN ids /\ t.id = ids[t.key]
          /\ t.key \in DOMAIN attempts => attempts[t.key] \notin Final
          /\ t.event \in MayBePrinted => v \in Final
          /\ v = "accepted" => t.event = "accepted"
      BY <1>3, <1>4, <1>5, <1>6, <1>7, <1>10
    <3> QED
      BY <1>2, <2>1, <3>1, AnsweredLedger
  <2>3. Ledger(tickets', attempts', ids, nextId, round)
    BY <1>1, <1>5, <1>10, <2>2
  <2>4. NoSecondTicket'
    <3> SUFFICES ASSUME NEW a \in tickets \cup {t}, NEW b \in tickets \cup {t}, a.key = b.key,
                        a.round = b.round, ~a.reprint, ~b.reprint, a.id < b.id
                 PROVE  a.event \notin MayBePrinted
      BY <1>1, Zenon DEF NoSecondTicket
    <3>1. CASE a \in tickets /\ b \in tickets
      BY <1>2, <3>1, Zenon DEF NoSecondTicket
    <3>2. CASE a \in tickets /\ b = t
      BY <2>2, <3>2, Zenon
    <3>3. CASE a = t
      <4>1. \A u \in tickets \cup {t} : u.id \in Nat
        BY <2>2, Zenon DEF Ledger, TicketInv
      <4>2. CASE b \in tickets
        <5>1. b.id <= t.id
          BY <2>2, <3>3, <4>2, Zenon
        <5> QED
          BY <3>3, <4>1, <5>1
      <4>3. CASE b = t
        BY <3>3, <4>1, <4>3
      <4> QED
        BY <4>2, <4>3
    <3> QED
      BY <3>1, <3>2, <3>3
  <2> QED
    BY <1>1, <1>8, <2>3, <2>4, Zenon DEF IInv
<1> QED
  BY <1>9, <1>10

\* A new round has no tickets yet.
LEMMA NextRound ==
    ASSUME NEW T, NEW A, NEW I, NEW n, NEW r, Ledger(T, A, I, n, r)
    PROVE  Ledger(T, << >>, << >>, n, r + 1)
<1>1. DOMAIN << >> = {}
  OBVIOUS
<1>2. ASSUME NEW t \in T
      PROVE  TicketInv(t, << >>, << >>, n, r + 1)
  <2>1. TicketInv(t, A, I, n, r) /\ r \in Nat
    BY Zenon DEF Ledger
  <2>2. t.id \in Nat /\ t.id < n /\ t.round \in Nat /\ t.round <= r + 1 /\ t.round # r + 1
    BY <2>1 DEF TicketInv
  <2> QED
    BY <2>2 DEF TicketInv
<1>3. n \in Nat /\ r + 1 \in Nat
  BY DEF Ledger
<1> QED
  BY <1>1, <1>2, <1>3 DEF Ledger

\* What a complete operation was made against, and which tickets it rests on.
LEMMA CompleteIs ==
    ASSUME IInv, op.st = "printing", op.todo = {}, op.kind # "reprint"
    PROVE  /\ op.change \in Changes /\ op.change[1] = prep /\ op.change[2] \in Orders
           /\ Covered(op.change, {}, pending)
           /\ complete => op.retry = {} /\ \A s \in Concerned(op.change) :
                            AcceptedTicket(tickets, round, <<s, op.change>>)
<1>1. /\ op \in Op /\ op.change \in Changes /\ op.change[1] = prep /\ Covered(op.change, {}, pending)
      /\ op.all => op.retry = {}
  BY DEF IInv, Operation
<1>2. op.change[2] \in Orders
  BY <1>1 DEF Changes
<1>3. ASSUME complete, NEW s \in Concerned(op.change)
      PROVE  AcceptedTicket(tickets, round, <<s, op.change>>)
  <2> DEFINE k == <<s, op.change>>
  <2>1. k \in pending
    BY <1>1, <1>3, Zenon DEF Covered
  <2>2. At(attempts, k, "none") = "accepted"
    BY <1>3, <2>1, Zenon DEF complete, batchAccepted
  <2>3. k \in DOMAIN attempts /\ attempts[k] = "accepted"
    BY <2>2 DEF At
  <2> QED
    BY <2>3, Zenon DEF IInv, Ledger
<1>4. complete => op.retry = {}
  BY <1>1, Zenon DEF complete
<1> QED
  BY <1>1, <1>2, <1>3, <1>4, Zenon

\* The popup that the loop opens.
LEMMA PopupIs ==
    ASSUME NEW c \in Changes, NEW S \in SUBSET Stations, NEW k \in {"retry", "reprint"}, NEW p, NEW P,
           k = "retry" => c[1] = p /\ Covered(c, {}, P)
    PROVE  Popup([change |-> c, printers |-> S, kind |-> k], p, P)
BY DEF Popup

\* The loop is over: a complete change is consumed, failures open the popup.
LEMMA FinishStep ==
    ASSUME IInv, finish
    PROVE  IInv'
<1> DEFINE k == IF op.kind = "reprint" THEN "reprint" ELSE "retry"
           d == [change |-> op.change, printers |-> op.retry, kind |-> k]
<1>1. /\ op.st = "printing" /\ op.todo = {} /\ op' = NoOp
      /\ qty' = qty /\ nextId' = nextId /\ tickets' = tickets
      /\ dialog' = IF op.retry = {} THEN None ELSE d
  BY Zenon DEF finish
<1>2. Operation(op', prep', pending') /\ Waiting(op', attempts', ids', nextId', pending')
  BY <1>1, NoOpFits, Zenon
<1>3. op.change \in Changes /\ op.retry \in SUBSET Stations /\ op \in Op
  BY <1>1 DEF IInv, Operation, Op
<1>4. CASE complete /\ op.kind # "reprint"
  <2>1. /\ prep' = op.change[2] /\ round' = round + 1 /\ attempts' = << >> /\ ids' = << >>
        /\ last' = op.change
    BY <1>4, Zenon DEF finish, consumed
  <2>2. prep' \in Orders /\ dialog' = None
    BY <1>1, <1>4, <2>1, CompleteIs, Zenon
  <2>3. Ledger(tickets', attempts', ids', nextId', round')
    BY <1>1, <2>1, NextRound, Zenon DEF IInv
  <2>4. NoSecondTicket'
    BY <1>1, Zenon DEF IInv, NoSecondTicket
  <2> QED
    BY <1>1, <1>2, <1>3, <2>1, <2>2, <2>3, <2>4, Zenon DEF IInv
<1>5. CASE ~(complete /\ op.kind # "reprint")
  <2>1. /\ prep' = prep /\ round' = round /\ attempts' = attempts /\ ids' = ids /\ pending' = pending
        /\ last' = last
    BY <1>5, Zenon DEF finish, uiState
  <2>2. op.kind # "reprint" => op.change[1] = prep /\ Covered(op.change, {}, pending)
    BY <1>1, CompleteIs, Zenon
  <2>3. k \in {"retry", "reprint"} /\ (k = "retry" => op.kind # "reprint")
    OBVIOUS
  <2> HIDE DEF k
  <2>4. Popup(d, prep, pending)
    BY <1>3, <2>2, <2>3, PopupIs
  <2>5. dialog' = None \/ Popup(dialog', prep', pending')
    BY <1>1, <2>1, <2>4, Zenon
  <2> QED
    BY <1>1, <1>2, <2>1, <2>5, Zenon DEF IInv, NoSecondTicket
<1> QED
  BY <1>4, <1>5

-----------------------------------------------------------------------------
(* The theorems                                                            *)

\* The invariant holds at the start and is inductive.
LEMMA KitchenInvariance ==
    ASSUME KitchenAssumption
    PROVE  Spec => []IInv
<1>1. Init => IInv
  <2> SUFFICES ASSUME Init
               PROVE  IInv
    OBVIOUS
  <2>1. /\ prep = qty /\ attempts = << >> /\ ids = << >> /\ last = None /\ op = NoOp /\ dialog = None
        /\ nextId = 1 /\ round = 0 /\ tickets = {} /\ qty = [s \in Stations |-> 0]
    BY Zenon DEF Init
  <2>2. qty \in Orders
    BY <2>1 DEF Orders, KitchenAssumption
  <2>3. Ledger(tickets, attempts, ids, nextId, round) /\ NoSecondTicket
    BY <2>1 DEF Ledger, NoSecondTicket
  <2>4. Operation(op, prep, pending) /\ Waiting(op, attempts, ids, nextId, pending)
    BY <2>1, NoOpFits, Zenon
  <2> QED
    BY <2>1, <2>2, <2>3, <2>4, Zenon DEF IInv
<1>2. IInv /\ [Next]_vars => IInv'
  <2> SUFFICES ASSUME IInv, [Next]_vars
               PROVE  IInv'
    OBVIOUS
  <2>1. CASE UNCHANGED vars
    BY <2>1, Zenon DEF vars, IInv, NoSecondTicket
  <2> QED
    BY <2>1, CashierStep, CaptureStep, RetryStep, RoutedStep, ReuseStep, SubmitStep, AnswerStep,
       FinishStep, Zenon DEF Next
<1> QED
  BY <1>1, <1>2, PTL DEF Spec

\* A ticket that may be on paper is not sent again as another operation, unless the cashier
\* asked for a reprint, however answers are lost and popups retried (printOrderChanges).
THEOREM TicketsAreSingle ==
    ASSUME KitchenAssumption
    PROVE  Spec => []NoSecondTicket
<1>1. IInv => NoSecondTicket
  BY DEF IInv
<1> QED
  BY <1>1, KitchenInvariance, PTL

\* The kitchen is taken to know a quantity only when the station's ticket with exactly that
\* change was accepted in this round (consumeAcceptedKitchenSnapshot).
THEOREM KitchenIsTold ==
    ASSUME KitchenAssumption
    PROVE  Spec => ToldByTicket
<1>1. IInv /\ [Next]_vars => [ToldStep]_vars
  <2> SUFFICES ASSUME IInv, Next, NEW s \in Stations, prep'[s] # prep[s]
               PROVE  \E t \in tickets : /\ t.round = round /\ t.event = "accepted" /\ ~t.reprint
                                         /\ t.key[1] = s /\ t.key[2][1][s] = prep[s]
                                         /\ t.key[2][2][s] = prep'[s]
    BY Zenon DEF ToldStep
  <2>1. prep' # prep
    OBVIOUS
  <2>2. finish
    BY <2>1, Zenon DEF Next, send, sendStops, capture, captureReprint, retryDialog, closeDialog,
       routed, notRouted, edit, reuse, submit, answer
  <2>3. /\ op.st = "printing" /\ op.todo = {} /\ complete /\ op.kind # "reprint" /\ prep' = op.change[2]
    BY <2>1, <2>2, Zenon DEF finish, consumed
  <2>4. op.change[1] = prep /\ s \in Concerned(op.change)
    BY <2>3, CompleteIs, Zenon DEF Concerned
  <2>5. AcceptedTicket(tickets, round, <<s, op.change>>)
    BY <2>3, <2>4, CompleteIs, Zenon
  <2>6. PICK t \in tickets : t.round = round /\ t.event = "accepted" /\ ~t.reprint /\ t.key = <<s, op.change>>
    BY <2>5, Zenon DEF AcceptedTicket
  <2>7. t.key[1] = s /\ t.key[2] = op.change
    BY <2>6
  <2> QED
    BY <2>3, <2>4, <2>6, <2>7, Zenon
<1> QED
  BY <1>1, KitchenInvariance, PTL DEF Spec, ToldByTicket
=============================================================================
