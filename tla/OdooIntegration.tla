--------------------------- MODULE OdooIntegration ---------------------------
(***************************************************************************)
(* The activation switch of one Odoo Gateway configuration and its copies  *)
(* on the Gateway.  Odoo keeps a record with the current credential, the   *)
(* desired state and a revision; the Gateway keeps the state and the       *)
(* revision it last accepted with each API key.  Every change is           *)
(* replicated after the commit by PATCH /api/odoo/configuration, by the    *)
(* request that made it, by the retry cron or by the operator; a change of *)
(* URL or key leaves a fence behind: the old credential, to be shut down   *)
(* before the new one is activated.                                        *)
(*                                                                         *)
(* A credential stands for the pair (Gateway URL, API key).  The row locks *)
(* of the code make each action on the record one step; the HTTP requests  *)
(* between them are steps of their own, and a request whose answer is lost *)
(* may still reach the Gateway later.                                      *)
(***************************************************************************)
EXTENDS Integers, FiniteSets, TLC

CONSTANTS Ids,          \* credentials
          Workers,      \* post-commit hooks, cron runs and operator requests
          None,
          MaxRev,       \* bound on revisions
          MaxWrites,    \* bound on administrator operations
          MaxLost,      \* bound on requests whose answer is lost
          Ops,          \* the operations of the instance
          SameUrl,      \* TRUE: the credentials are keys of one Gateway URL
          Faults        \* Gateway-side events: "suspend", "revoke", "rotate", "crash"

VARIABLES cfg,     \* the configuration record of Odoo
          gw,      \* the api_keys rows of the Gateway
          susp,    \* credentials whose workspace is suspended
          worker,  \* the synchronisation each worker is executing
          late,    \* PATCHes whose sender no longer waits for the answer
          known,   \* history: the credentials Odoo has been given
          writes, lost

vars == <<cfg, gw, susp, worker, late, known, writes, lost>>

\* Without a key the record still has its URL; a removed key is followed here
\* only by a key of the same Gateway.
RemovalKeepsUrl == "remove" \in Ops => SameUrl

NoFence == [id |-> None, rev |-> -1]
Idle == [pc |-> "idle"]

Init ==
    /\ \E i \in Ids, e \in BOOLEAN :
          /\ cfg = [there |-> TRUE, id |-> i, en |-> e, rev |-> 0, ack |-> -1,
                    err |-> FALSE, test |-> "draft", fence |-> NoFence, merr |-> FALSE]
          /\ known = {i}
    /\ gw \in [Ids -> {[status |-> "live", en |-> FALSE, rev |-> -1],
                       [status |-> "live", en |-> TRUE, rev |-> 0]}]
    /\ susp = {}
    /\ worker = [w \in Workers |-> Idle]
    /\ late = {}
    /\ writes = 0
    /\ lost = 0

-----------------------------------------------------------------------------
(* The Gateway.                                                            *)

Authorized(i) == gw[i].status # "revoked" /\ i \notin susp

\* What PATCH answers for credential i.
Answer(i, en, rev) ==
    LET row == gw[i] IN
    IF ~Authorized(i) THEN [kind |-> "unauthorized"]
    ELSE IF row.status = "grace" THEN [kind |-> "readonly"]
    ELSE IF rev > row.rev THEN [kind |-> "ok", en |-> en, rev |-> rev]
    ELSE IF rev = row.rev /\ en # row.en
         THEN [kind |-> "conflict", en |-> row.en, rev |-> row.rev]
         ELSE [kind |-> "ok", en |-> row.en, rev |-> row.rev]

\* ... and what it does to the row: only a strictly newer revision applies.
AnyRevision(i, en, rev) ==
    IF Authorized(i) /\ gw[i].status = "live"
    THEN [gw EXCEPT ![i].en = en, ![i].rev = rev] ELSE gw

PATCH(i, en, rev) ==
    IF Authorized(i) /\ gw[i].status = "live" /\ rev > gw[i].rev
    THEN [gw EXCEPT ![i].en = en, ![i].rev = rev] ELSE gw

\* POST /api/odoo/keys/[id]/rotate: a copy of the row under a new key, the old
\* one read-only for the grace period.
rotate(i, j) ==
    /\ "rotate" \in Faults /\ SameUrl
    /\ gw[i].status = "live" /\ j # i /\ j \notin known
    /\ gw' = [gw EXCEPT ![j] = gw[i], ![i].status = "grace"]
    /\ UNCHANGED <<cfg, susp, worker, late, known, writes, lost>>

graceExpires(i) ==
    /\ gw[i].status = "grace"
    /\ gw' = [gw EXCEPT ![i].status = "revoked"]
    /\ UNCHANGED <<cfg, susp, worker, late, known, writes, lost>>

\* DELETE /api/odoo/keys.
revoke(i) ==
    /\ "revoke" \in Faults
    /\ gw[i].status # "revoked"
    /\ gw' = [gw EXCEPT ![i] = [status |-> "revoked", en |-> FALSE, rev |-> @.rev + 1]]
    /\ UNCHANGED <<cfg, susp, worker, late, known, writes, lost>>

suspend(i) ==
    /\ "suspend" \in Faults
    /\ susp' = IF i \in susp THEN susp \ {i} ELSE susp \union {i}
    /\ UNCHANGED <<cfg, gw, worker, late, known, writes, lost>>

\* A request that was given up by its sender is executed after all.
deliverLate ==
    \E p \in late :
        /\ late' = late \ {p}
        /\ gw' = PATCH(p.id, p.en, p.rev)
        /\ UNCHANGED <<cfg, susp, worker, known, writes, lost>>

-----------------------------------------------------------------------------
(* The record of Odoo.                                                     *)

\* The Gateway may still have the credential switched on.
EnabledOnly(c) == c.en

MayBeOn(c) == c.en \/ c.err \/ c.ack # c.rev

\* The fence left by a write that changes the credential from c.id to i.  A
\* key replaced or removed after the Gateway refused it leaves none; a change
\* of URL always does.  The fence of a removal is recorded only together with
\* a change of the switch.
Fence(c, i, en) ==
    LET urlChanged == i # None /\ ~SameUrl
    IN  IF i = c.id THEN c.fence
        ELSE IF /\ c.id # None /\ MayBeOn(c)
                /\ urlChanged \/ c.test # "revoked"
                /\ i = None => en # c.en
             THEN [id |-> c.id, rev |-> c.rev + 1]
             ELSE c.fence

\* _queue_enabled_state_sync and action_retry_enabled_sync: what a
\* synchronisation started on record c with credential i carries, and where
\* _run_postcommit_enabled_sync begins.
Sync(c, i) ==
    LET same == c.id # None /\ c.fence.id = i
    IN [pc |-> IF c.fence.id # None /\ ~same THEN "shutdown" ELSE "sync",
        kind |-> "post", id |-> i, en |-> c.en, rev |-> c.rev, tries |-> 0,
        fence |-> c.fence,
        clears |-> IF same THEN c.fence.rev
                   ELSE IF c.fence.id # None THEN c.rev ELSE -1]

\* write(): a new switch value and a new credential, with its post-commit
\* synchronisation.  A removed key is still used for the last PATCH.
write(w, i, en) ==
    LET c == cfg
        changed == en # c.en \/ i # c.id
        keyUnconfirmed == i = None /\ MayBeOn(c) /\ c.test = "revoked"
        next == [c EXCEPT !.id = i, !.en = en, !.rev = c.rev + 1,
                          !.err = keyUnconfirmed /\ en # c.en,
                          !.test = IF i # c.id THEN "draft" ELSE c.test,
                          !.fence = Fence(c, i, en),
                          !.merr = IF i # c.id THEN FALSE ELSE c.merr]
        via == IF i = None /\ ~keyUnconfirmed THEN c.id ELSE i
    IN  /\ c.there /\ changed /\ writes < MaxWrites /\ c.rev < MaxRev
        /\ en # c.en => "toggle" \in Ops
        /\ i # c.id /\ c.id # None =>
              /\ c.fence.id = None
              /\ IF i = None THEN "remove" \in Ops ELSE "move" \in Ops
        /\ i = None => ~en
        /\ worker[w] = Idle
        /\ cfg' = next
        /\ known' = known \union ({i} \ {None})
        /\ worker' = [worker EXCEPT ![w] = IF via = None THEN Idle ELSE Sync(next, via)]
        /\ writes' = writes + 1
        /\ UNCHANGED <<gw, susp, late, lost>>

\* action_retry_enabled_sync.
action_retry(w) ==
    /\ cfg.there /\ worker[w] = Idle
    /\ "retry" \in Ops
    /\ cfg.id # None \/ cfg.fence.id # None
    /\ worker' = [worker EXCEPT ![w] = Sync(cfg, cfg.id)]
    /\ UNCHANGED <<cfg, gw, susp, late, known, writes, lost>>

\* action_reset_stale_sync_state: the operator gives the old endpoint up.
action_reset ==
    /\ cfg.there /\ "reset" \in Ops /\ writes < MaxWrites
    /\ cfg' = [cfg EXCEPT !.fence = NoFence, !.merr = FALSE, !.err = FALSE]
    /\ writes' = writes + 1
    /\ UNCHANGED <<gw, susp, worker, late, known, lost>>

\* _disable_gateway_for_unlink: the credential is off after the request and one
\* follow-up at the revision the Gateway reported.
Disabled(g, i, rev) ==
    [g EXCEPT ![i].en = FALSE,
              ![i].rev = IF rev > g[i].rev THEN rev ELSE IF g[i].en THEN g[i].rev + 1 ELSE g[i].rev]

CanDisable(i) == gw[i].status = "live" /\ i \notin susp

\* unlink(): the previous endpoint and the current one are both switched off,
\* or the record stays.
unlink ==
    LET c == cfg
        old == IF c.fence.id = None THEN gw ELSE Disabled(gw, c.fence.id, c.fence.rev)
    IN  /\ c.there /\ "unlink" \in Ops
        /\ c.fence.id # None => CanDisable(c.fence.id)
        /\ \/ /\ c.id = None
              /\ ~c.en /\ ~c.err /\ c.ack = c.rev
              /\ gw' = old
              /\ cfg' = [c EXCEPT !.there = FALSE]
              /\ UNCHANGED lost
           \/ /\ c.id # None /\ CanDisable(c.id)
              /\ gw' = Disabled(old, c.id, c.rev + 1)
              /\ \/ cfg' = [c EXCEPT !.there = FALSE] /\ UNCHANGED lost
                 \/ lost < MaxLost /\ lost' = lost + 1 /\ UNCHANGED cfg
        /\ UNCHANGED <<susp, worker, late, known, writes>>

-----------------------------------------------------------------------------
(* Synchronisation.                                                        *)

Stop(w) == worker' = [worker EXCEPT ![w] = Idle]

\* _persist_enabled_sync_result: the outcome of revision r counts only while r
\* is the revision of the record.
AnyOutcome(r) == cfg.there

Current(r) == cfg.there /\ cfg.rev = r

Confirmed(r) ==
    IF Current(r) THEN [cfg EXCEPT !.ack = r, !.err = FALSE, !.test = "success"] ELSE cfg

FailedAsTest(r) == IF Current(r) THEN [cfg EXCEPT !.test = "error"] ELSE cfg

Failed(r) == IF Current(r) THEN [cfg EXCEPT !.err = TRUE] ELSE cfg

Lose(p) ==
    /\ lost < MaxLost /\ lost' = lost + 1
    /\ late' = late \union {p}

\* _sync_pending_gateway_disable with the credential of the fence.  An
\* unauthorized credential counts as shut down.
shutdown(w) ==
    LET s == worker[w]
        a == Answer(s.fence.id, FALSE, s.fence.rev)
        done == a.kind = "unauthorized" \/ (a.kind = "ok" /\ ~a.en)
        noted == [cfg EXCEPT !.merr = IF a.kind = "unauthorized" THEN cfg.merr ELSE ~done]
    IN  /\ s.pc = "shutdown"
        /\ \/ /\ gw' = PATCH(s.fence.id, FALSE, s.fence.rev)
              /\ cfg' = IF cfg.there THEN noted ELSE cfg
              /\ worker' = [worker EXCEPT ![w] =
                    IF ~done THEN Idle
                    ELSE [s EXCEPT !.pc = IF s.id = None \/ cfg.id = None THEN "proven"
                                          ELSE IF s.kind = "cron" THEN "probe" ELSE "sync"]]
              /\ UNCHANGED <<late, lost>>
           \/ /\ Lose([id |-> s.fence.id, en |-> FALSE, rev |-> s.fence.rev])
              /\ cfg' = IF cfg.there THEN [cfg EXCEPT !.merr = TRUE] ELSE cfg
              /\ Stop(w)
              /\ UNCHANGED gw
        /\ UNCHANGED <<susp, known, writes>>

\* With no key left, the shutdown itself proves the revision.
proven(w) ==
    LET s == worker[w] IN
    /\ s.pc = "proven"
    /\ cfg' = Confirmed(s.fence.rev)
    /\ worker' = [worker EXCEPT ![w] = [s EXCEPT !.pc = "complete", !.clears = s.fence.rev]]
    /\ UNCHANGED <<gw, susp, late, known, writes, lost>>

\* _sync_enabled_state_to_gateway: the request ...
sync(w) ==
    LET s == worker[w] IN
    /\ s.pc = "sync"
    /\ \/ /\ gw' = PATCH(s.id, s.en, s.rev)
          /\ worker' = [worker EXCEPT ![w] = [pc |-> "answered", answer |-> Answer(s.id, s.en, s.rev)] @@ s]
          /\ UNCHANGED <<cfg, late, lost>>
       \/ /\ Lose([id |-> s.id, en |-> s.en, rev |-> s.rev])
          /\ cfg' = Failed(s.rev)
          /\ Stop(w)
          /\ UNCHANGED gw
    /\ UNCHANGED <<susp, known, writes>>

MaxTries == 3

Retry(s, r) ==
    [pc |-> "sync", kind |-> s.kind, id |-> s.id, en |-> s.en, rev |-> r,
     tries |-> s.tries + 1, fence |-> s.fence, clears |-> s.clears]

\* A Gateway ahead of the record is followed when it agrees with it, and passed
\* by one revision when it does not.
Reconciled(a, agrees) ==
    IF agrees THEN [cfg EXCEPT !.rev = a.rev, !.ack = a.rev, !.err = FALSE]
              ELSE [cfg EXCEPT !.rev = a.rev + 1, !.err = FALSE]

\* ... and its answer: confirmed, reconciled, overtaken or failed.
answered(w) ==
    LET s == worker[w]
        a == s.answer
        knows == a.kind \in {"ok", "conflict"}
        agrees == knows /\ a.en = s.en
        owner == Current(s.rev) /\ cfg.en = s.en
        exact == a.kind = "ok" /\ a.rev = s.rev /\ agrees
        done == [worker EXCEPT ![w] = IF s.clears >= 0 THEN [s EXCEPT !.pc = "complete"] ELSE Idle]
    IN  /\ s.pc = "answered"
        /\ \/ /\ exact
              /\ cfg' = Confirmed(s.rev)
              /\ worker' = done
           \/ /\ knows /\ ~exact /\ owner /\ agrees
              /\ cfg' = Reconciled(a, TRUE)
              /\ worker' = done
           \/ /\ knows /\ owner /\ ~agrees /\ a.rev < MaxRev
              /\ cfg' = [Reconciled(a, FALSE) EXCEPT !.err = s.tries + 1 = MaxTries]
              /\ worker' = [worker EXCEPT ![w] =
                    IF s.tries + 1 = MaxTries THEN Idle ELSE Retry(s, a.rev + 1)]
           \/ /\ knows /\ ~owner /\ ~exact
              /\ Stop(w) /\ UNCHANGED cfg
           \/ /\ ~knows
              /\ cfg' = Failed(s.rev)
              /\ Stop(w)
        /\ UNCHANGED <<gw, susp, late, known, writes, lost>>

\* _complete_gateway_migration.
CompletesByHook(s) == cfg.there /\ s.kind # "cron" /\ cfg.fence.rev = s.clears

Completes(s) == cfg.there /\ cfg.fence.rev = s.clears

complete(w) ==
    LET s == worker[w] IN
    /\ s.pc = "complete"
    /\ cfg' = IF Completes(s) THEN [cfg EXCEPT !.fence = NoFence, !.merr = FALSE] ELSE cfg
    /\ Stop(w)
    /\ UNCHANGED <<gw, susp, late, known, writes, lost>>

\* cron_sync_enabled_state: the old endpoint first ...
cron(w) ==
    /\ cfg.there /\ worker[w] = Idle /\ "cron" \in Ops
    /\ cfg.id # None \/ cfg.fence.id # None
    /\ LET s == Sync(cfg, cfg.id)
       IN  worker' = [worker EXCEPT ![w] =
                [s EXCEPT !.kind = "cron", !.pc = IF @ = "sync" THEN "probe" ELSE @]]
    /\ UNCHANGED <<cfg, gw, susp, late, known, writes, lost>>

\* action_test_connection begins with the same health request.
action_test(w) ==
    /\ cfg.there /\ worker[w] = Idle /\ cfg.id # None /\ "test" \in Ops
    /\ worker' = [worker EXCEPT ![w] = [Sync(cfg, cfg.id) EXCEPT !.kind = "test", !.pc = "probe"]]
    /\ UNCHANGED <<cfg, gw, susp, late, known, writes, lost>>

\* The current revision is not confirmed.
Due == cfg.ack # cfg.rev \/ cfg.err

\* ... then _probe_gateway_connection, then the activation when it is not
\* confirmed.  A refused key switches the record off; a suspended workspace
\* or a Gateway that does not answer is a failed test.
probe(w) ==
    LET s == worker[w]
        healthy == Authorized(cfg.id)
        fresh == Sync(cfg, cfg.id)
        then == IF s.kind = "cron"
                THEN IF Due THEN [fresh EXCEPT !.pc = "sync", !.kind = "cron"] ELSE Idle
                ELSE fresh
        asked == cfg.there /\ cfg.id # None /\ (s.kind = "test" => cfg.rev = s.rev)
    IN  /\ s.pc = "probe"
        /\ \/ /\ asked /\ healthy
              /\ cfg' = [cfg EXCEPT !.test = "success"]
              /\ worker' = [worker EXCEPT ![w] = then]
              /\ UNCHANGED lost
           \/ /\ asked /\ gw[cfg.id].status = "revoked"
              /\ cfg' = [cfg EXCEPT !.test = "revoked", !.en = FALSE]
              /\ Stop(w)
              /\ UNCHANGED lost
           \/ /\ asked
              /\ cfg.id \in susp \/ lost < MaxLost
              /\ cfg' = [cfg EXCEPT !.test = "failed"]
              /\ lost' = IF cfg.id \in susp THEN lost ELSE lost + 1
              /\ Stop(w)
           \/ /\ ~cfg.there \/ cfg.id = None \/ cfg.rev # s.rev
              /\ Stop(w)
              /\ UNCHANGED <<cfg, lost>>
        /\ UNCHANGED <<gw, susp, late, known, writes>>

\* The Odoo process dies: its post-commit work is gone.
crash(w) ==
    /\ "crash" \in Faults /\ worker[w] # Idle
    /\ Stop(w)
    /\ UNCHANGED <<cfg, gw, susp, late, known, writes, lost>>

Step(w) == shutdown(w) \/ proven(w) \/ sync(w) \/ answered(w) \/ complete(w) \/ probe(w)

Next ==
    \/ \E i, j \in Ids : rotate(i, j)
    \/ \E i \in Ids : graceExpires(i) \/ revoke(i) \/ suspend(i)
    \/ deliverLate \/ action_reset \/ unlink
    \/ \E w \in Workers :
          \/ \E i \in Ids \union {None}, en \in BOOLEAN : write(w, i, en)
          \/ action_retry(w) \/ action_test(w) \/ cron(w) \/ crash(w)
          \/ shutdown(w) \/ proven(w) \/ sync(w) \/ answered(w) \/ complete(w) \/ probe(w)

Spec == Init /\ [][Next]_vars

-----------------------------------------------------------------------------
Revisions == -1..(MaxRev + 2)
Patches == [id : Ids, en : BOOLEAN, rev : Revisions]

TypeOK ==
    /\ cfg \in [there : BOOLEAN, id : Ids \union {None}, en : BOOLEAN, rev : Revisions,
                ack : Revisions, err : BOOLEAN, test : {"draft", "success", "failed", "revoked"},
                fence : [id : Ids \union {None}, rev : Revisions], merr : BOOLEAN]
    /\ gw \in [Ids -> [status : {"live", "grace", "revoked"}, en : BOOLEAN, rev : Revisions]]
    /\ susp \subseteq Ids
    /\ late \subseteq Patches
    /\ \A w \in Workers : worker[w] = Idle \/ worker[w].tries < MaxTries

\* A credential that Odoo has been given and no longer uses can print only
\* while the record still holds the fence that will shut it down, or a
\* synchronisation with it is still running: neither a move, nor a rotation, nor a removal, nor the deletion of the record leaves
\* an old endpoint switched on for good (write, _run_postcommit_enabled_sync,
\* unlink).
OldShutDown ==
    \A i \in known :
        gw[i].status = "live" /\ gw[i].en /\ ~(cfg.there /\ cfg.id = i)
            => \/ cfg.there /\ cfg.fence.id = i
               \/ \E w \in Workers : worker[w] # Idle /\ i \in {worker[w].id, worker[w].fence.id}

\* A record that shows its state as confirmed shows the state of the Gateway:
\* no late request and no overtaken synchronisation may have left them apart
\* (_persist_enabled_sync_result, _reconcile_remote_enabled_revision).
ShownIsReal ==
    /\ cfg.there /\ cfg.id # None
    /\ ~cfg.err /\ cfg.ack = cfg.rev /\ cfg.test # "revoked"
    /\ gw[cfg.id].status = "live"
    => gw[cfg.id].en = cfg.en

\* A fence is eventually cleared, so that the URL and the key can be changed
\* again, unless the new key is itself refused (_complete_gateway_migration).
FenceClears ==
    cfg.fence # NoFence ~>
        cfg.fence = NoFence \/ ~cfg.there \/ (cfg.id # None /\ gw[cfg.id].status # "live")

Symmetry == Permutations(Workers) \union Permutations(Ids)
=============================================================================
