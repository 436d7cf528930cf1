--------------------------- MODULE SessionTokens ---------------------------
(***************************************************************************)
(* Sessions of one person: refresh token families, rotation with grace     *)
(* and reuse detection, and everything that ends a session (logout,        *)
(* password reset, change of role, suspension of the workspace).           *)
(*                                                                         *)
(* Every request is one PostgreSQL transaction at READ COMMITTED.  A       *)
(* transaction takes its row and advisory locks one by one in the order of *)
(* the code, then runs its statements on what is committed at that moment, *)
(* and its writes become visible when it commits and releases its locks.   *)
(* So an UPDATE that revokes sessions does not see a row another           *)
(* transaction has inserted and not committed.                             *)
(***************************************************************************)
EXTENDS Naturals, Sequences, FiniteSets, TLC

CONSTANTS
    Procs,        \* concurrent requests
    Tenants,      \* workspaces the person is a member of at the start
    Platform,     \* stands in place of a workspace in a platform owner's session
    Roles,
    NoRole,       \* no membership
    Ops,          \* the operations of this instance
    MaxTokens,    \* bound: refresh tokens ever issued
    MaxPassword,  \* bound: password changes
    MaxGen,       \* bound: suspensions of a workspace
    OwnerIsUser,  \* the platform owner is the same person as the workspace's user
    PromptRequests \* a request is answered before the grace of its token ends

SessionAssumption ==
    /\ Platform \notin Tenants /\ NoRole \notin Roles
    /\ {MaxTokens, MaxPassword, MaxGen} \subseteq Nat
    /\ {PromptRequests, OwnerIsUser} \subseteq BOOLEAN
    /\ OwnerIsUser \/ MaxPassword = 0  \* password is then the workspace user's alone

VARIABLES
    password,   \* users.password_hash, as a version
    lifecycle,  \* tenants.lifecycle
    role,       \* tenant_users.role
    rows,       \* refresh_tokens
    expired,    \* families past their absolute lifetime
    last,       \* tokens handed out so far
    jar,        \* the refresh cookie of the browser
    tx,         \* the open transactions
    gen,        \* history: how often each workspace was suspended or deleted
    closed      \* history: families that were ended as a whole

vars == <<password, lifecycle, role, rows, expired, last, jar, tx, gen, closed>>

Lock(on, mode) == [on |-> on, mode |-> mode]
UserLock == Lock(<<"user">>, "exclusive")
\* The row of the person whose session is for t.
PersonLock(t) ==
    IF t = Platform /\ ~OwnerIsUser THEN Lock(<<"owner">>, "exclusive") ELSE UserLock
FamilyLock(f) == Lock(<<"family", f>>, "exclusive")

\* A variant of the code that the properties below must reject.
NoFence(t) == <<>>

\* requireActiveTenantInTransaction: the lifecycle fence, and its condition.
TenantFence(t) ==
    IF t = Platform THEN <<>> ELSE <<Lock(<<"tenant", t>>, "active")>>

Conflict(a, b) == a.on = b.on /\ "exclusive" \in {a.mode, b.mode}

Idle == [op |-> "none"]
NoToken == 0
Nothing == [token |-> NoToken, row |-> Idle, mark |-> NoToken, kill |-> {}, scope |-> <<"none">>,
            password |-> FALSE, role |-> NoRole, tenant |-> Platform, life |-> "active"]

Begin(p, op, arg, need) ==
    /\ tx[p] = Idle
    /\ tx' = [tx EXCEPT ![p] = [op |-> op, arg |-> arg, need |-> need, held |-> {}, write |-> Idle]]

Live(t) == t \in DOMAIN rows /\ rows[t].revoked = "no" /\ rows[t].fam \notin expired

\* isSessionFamilyActive
FamilyActive(f) == \E t \in DOMAIN rows : rows[t].fam = f /\ Live(t)

\* The family's principal still is who the token says.
refreshPrincipalStillValid(r) ==
    r.tenant # Platform => lifecycle[r.tenant] = "active" /\ role[r.tenant] = r.role

\* validateManagerClaims, validatePlatformClaims: the access token of a row.
ValidClaims(t) ==
    /\ t \in DOMAIN rows
    /\ FamilyActive(rows[t].fam)
    /\ refreshPrincipalStillValid(rows[t])

InScope(r, scope) ==
    CASE scope[1] = "family" -> r.fam = scope[2]
      [] scope[1] = "user"   -> TRUE
      [] scope[1] = "tenant" -> r.tenant = scope[2]
      [] OTHER -> FALSE

\* The revoking UPDATEs: every row the statement can see.
Revoke(scope) ==
    [Nothing EXCEPT !.scope = scope,
                    !.kill = {t \in DOMAIN rows : Live(t) /\ InScope(rows[t], scope)}]

Row(fam, tenant, r, cred) ==
    [fam |-> fam, tenant |-> tenant, role |-> r, cred |-> cred,
     gen |-> IF tenant = Platform THEN 0 ELSE gen[tenant],
     revoked |-> "no", replaced |-> "no"]

Init ==
    /\ password = 0
    /\ lifecycle = [t \in Tenants |-> "active"]
    /\ role \in [Tenants -> Roles]
    /\ rows = <<>>
    /\ expired = {}
    /\ last = 0
    /\ jar = NoToken
    /\ tx = [p \in Procs |-> Idle]
    /\ gen = [t \in Tenants |-> 0]
    /\ closed = {}

-----------------------------------------------------------------------------
\* Requests.  What they read before their transaction is in arg.

\* Password verified; the credential is compared again under the user lock.
login(p) ==
    /\ "login" \in Ops
    /\ \E t \in Tenants \cup (IF "platform" \in Ops THEN {Platform} ELSE {}) :
          /\ t # Platform => role[t] # NoRole /\ lifecycle[t] = "active"
          /\ Begin(p, "login",
                   [tenant |-> t, role |-> IF t = Platform THEN NoRole ELSE role[t], cred |-> password],
                   TenantFence(t) \o <<PersonLock(t)>>)
    /\ UNCHANGED <<password, lifecycle, role, rows, expired, last, jar, gen, closed>>

\* Variants of the code that the properties below must reject.
RotationWithoutUser(r) == TenantFence(r.tenant) \o <<FamilyLock(r.fam)>>

RotationWithoutFamily(r) == TenantFence(r.tenant) \o <<PersonLock(r.tenant)>>

\* The lock order of a rotation: tenant, principal, family.
RotationLocks(r) == TenantFence(r.tenant) \o <<PersonLock(r.tenant), FamilyLock(r.fam)>>

\* Any token a client ever received may be presented.
refresh(p) ==
    /\ "refresh" \in Ops
    /\ \E t \in DOMAIN rows :
          /\ PromptRequests => t = jar
          /\ Begin(p, "refresh", [token |-> t], RotationLocks(rows[t]))
    /\ UNCHANGED <<password, lifecycle, role, rows, expired, last, jar, gen, closed>>

\* By the access token's family or by the refresh token's.
logout(p) ==
    /\ "logout" \in Ops
    /\ \E t \in DOMAIN rows : Begin(p, "logout", [fam |-> rows[t].fam], <<FamilyLock(rows[t].fam)>>)
    /\ UNCHANGED <<password, lifecycle, role, rows, expired, last, jar, gen, closed>>

ResetUserFirst(t) == <<UserLock, Lock(<<"tenant", t>>, "share")>>

ResetLocks(t) == <<Lock(<<"tenant", t>>, "share"), UserLock>>

\* The tenant of the audit record is locked first, whatever its lifecycle.
resetPassword(p) ==
    /\ "reset" \in Ops
    /\ \E t \in Tenants : Begin(p, "reset", [tenant |-> t], ResetLocks(t))
    /\ UNCHANGED <<password, lifecycle, role, rows, expired, last, jar, gen, closed>>

\* Another workspace, from a valid session ...
selectTenant(p) ==
    /\ "select" \in Ops
    /\ \E s \in DOMAIN rows, t \in Tenants :
          /\ ValidClaims(s)
          /\ rows[s].tenant # Platform
          /\ Begin(p, "select", [source |-> rows[s].fam, cred |-> 0, tenant |-> t],
                   TenantFence(t) \o <<UserLock, FamilyLock(rows[s].fam)>>)
    /\ UNCHANGED <<password, lifecycle, role, rows, expired, last, jar, gen, closed>>

\* ... or from the selection token a sign-in with several workspaces returns.
selectByToken(p) ==
    /\ "chooser" \in Ops
    /\ \E t \in Tenants :
          Begin(p, "select", [source |-> NoToken, cred |-> password, tenant |-> t],
                TenantFence(t) \o <<UserLock>>)
    /\ UNCHANGED <<password, lifecycle, role, rows, expired, last, jar, gen, closed>>

\* An administrator changes or removes the membership.
changeMember(p) ==
    /\ "member" \in Ops
    /\ \E t \in Tenants, r \in Roles \cup {NoRole} :
          Begin(p, "member", [tenant |-> t, role |-> r], TenantFence(t) \o <<UserLock>>)
    /\ UNCHANGED <<password, lifecycle, role, rows, expired, last, jar, gen, closed>>

\* transitionTenantLifecycle: the tenant, then the acting platform owner.
transition(p) ==
    /\ "lifecycle" \in Ops
    /\ \E s \in DOMAIN rows, t \in Tenants, next \in {"active", "suspended", "deleted"} :
          /\ rows[s].tenant = Platform
          /\ ValidClaims(s)
          /\ Begin(p, "lifecycle", [actor |-> rows[s].fam, tenant |-> t, next |-> next],
                   <<Lock(<<"tenant", t>>, "exclusive"), PersonLock(Platform), FamilyLock(rows[s].fam)>>)
    /\ UNCHANGED <<password, lifecycle, role, rows, expired, last, jar, gen, closed>>

-----------------------------------------------------------------------------
\* Transactions.

Waiting(p) == tx[p] # Idle /\ tx[p].need # <<>>

Blocks(q, p) ==
    /\ p # q /\ tx[q] # Idle /\ Waiting(p)
    /\ \E l \in tx[q].held : Conflict(l, Head(tx[p].need))

\* Take the next lock; the lifecycle fence is checked once it is held.
acquire(p) ==
    /\ Waiting(p)
    /\ \A q \in Procs : ~Blocks(q, p)
    /\ LET l == Head(tx[p].need) IN
       tx' = [tx EXCEPT ![p] =
                IF l.mode = "active" /\ lifecycle[l.on[2]] # "active" THEN Idle
                ELSE [@ EXCEPT !.need = Tail(@), !.held = @ \cup {l}]]
    /\ UNCHANGED <<password, lifecycle, role, rows, expired, last, jar, gen, closed>>

Ready(p, op) == tx[p] # Idle /\ tx[p].op = op /\ tx[p].need = <<>> /\ tx[p].write = Idle

Write(p, w) == tx' = [tx EXCEPT ![p].write = w]

Refuse(p) == tx' = [tx EXCEPT ![p] = Idle] /\ UNCHANGED last

CredentialIgnored(cred) == TRUE

\* assertSessionCredentialInTransaction: the password is the one verified.
CredentialHolds(cred) == cred = password

\* insertInitialPair
insertInitialPair(p) ==
    /\ Ready(p, "login")
    /\ LET a == tx[p].arg IN
       IF CredentialHolds(a.cred)
       THEN /\ last < MaxTokens
            /\ last' = last + 1
            /\ Write(p, [Nothing EXCEPT !.token = last', !.row = Row(last', a.tenant, a.role, a.cred)])
       ELSE Refuse(p)
    /\ UNCHANGED <<password, lifecycle, role, rows, expired, jar, gen, closed>>

NoGrace(r) == r.replaced # "no"

\* The last test of rotateRefreshToken: replaced longer ago than the grace.
Reused(r) == r.replaced = "late"

\* rotateRefreshToken below its locks.
rotate(p) ==
    /\ Ready(p, "refresh")
    /\ LET t == tx[p].arg.token IN
       IF t \notin DOMAIN rows \/ (t \in DOMAIN rows /\ rows[t].revoked # "no")
       THEN Refuse(p)
       ELSE IF \/ rows[t].fam \in expired
               \/ ~refreshPrincipalStillValid(rows[t])
               \/ Reused(rows[t])
       THEN /\ Write(p, Revoke(<<"family", rows[t].fam>>))
            /\ UNCHANGED last
       ELSE /\ last < MaxTokens
            /\ last' = last + 1
            /\ Write(p, [Nothing EXCEPT
                 !.token = last',
                 !.row = Row(rows[t].fam, rows[t].tenant, rows[t].role, rows[t].cred),
                 !.mark = IF rows[t].replaced = "no" THEN t ELSE NoToken])
    /\ UNCHANGED <<password, lifecycle, role, rows, expired, jar, gen, closed>>

revokeSessionFamily(p) ==
    /\ Ready(p, "logout")
    /\ Write(p, Revoke(<<"family", tx[p].arg.fam>>))
    /\ UNCHANGED <<password, lifecycle, role, rows, expired, last, jar, gen, closed>>

revokeUserRefreshFamilies(p) ==
    /\ Ready(p, "reset")
    /\ password < MaxPassword
    /\ Write(p, [Revoke(<<"user">>) EXCEPT !.password = TRUE])
    /\ UNCHANGED <<password, lifecycle, role, rows, expired, last, jar, gen, closed>>

MembershipUnchecked(a) == IF a.source # NoToken THEN FamilyActive(a.source) ELSE CredentialHolds(a.cred)

SourceUnchecked(a) == role[a.tenant] # NoRole

\* The source session is still alive, or the selection token's credential
\* still holds; the membership is read under the locks.
MaySelect(a) ==
    /\ IF a.source # NoToken THEN FamilyActive(a.source) ELSE CredentialHolds(a.cred)
    /\ role[a.tenant] # NoRole

issueSelected(p) ==
    /\ Ready(p, "select")
    /\ LET a == tx[p].arg IN
       IF MaySelect(a)
       THEN /\ last < MaxTokens
            /\ last' = last + 1
            /\ Write(p, [(IF a.source = NoToken THEN Nothing ELSE Revoke(<<"family", a.source>>)) EXCEPT
                 !.token = last',
                 !.row = Row(last', a.tenant, role[a.tenant],
                             IF a.source = NoToken THEN a.cred
                             ELSE LET s == CHOOSE t \in DOMAIN rows : rows[t].fam = a.source IN rows[s].cred)])
       ELSE Refuse(p)
    /\ UNCHANGED <<password, lifecycle, role, rows, expired, jar, gen, closed>>

revokeUserTenantRefreshFamilies(p) ==
    /\ Ready(p, "member")
    /\ LET a == tx[p].arg IN
       IF role[a.tenant] # NoRole
       THEN Write(p, [Revoke(<<"tenant", a.tenant>>) EXCEPT !.tenant = a.tenant, !.role = a.role])
            /\ UNCHANGED last
       ELSE Refuse(p)
    /\ UNCHANGED <<password, lifecycle, role, rows, expired, jar, gen, closed>>

Allowed(from, to) ==
    <<from, to>> \in {<<"active", "suspended">>, <<"active", "deleted">>,
                      <<"suspended", "active">>, <<"suspended", "deleted">>}

AdmittedActor(a) == TRUE

\* requirePlatformActorInTransaction, then the transition and its revocation.
PlatformActor(a) == FamilyActive(a.actor)

revokeTenantRefreshFamilies(p) ==
    /\ Ready(p, "lifecycle")
    /\ LET a == tx[p].arg IN
       IF PlatformActor(a) /\ Allowed(lifecycle[a.tenant], a.next)
       THEN /\ a.next # "active" => gen[a.tenant] < MaxGen
            /\ Write(p, [(IF a.next = "active" THEN Nothing ELSE Revoke(<<"tenant", a.tenant>>))
                          EXCEPT !.tenant = a.tenant, !.life = a.next])
            /\ UNCHANGED last
       ELSE Refuse(p)
    /\ UNCHANGED <<password, lifecycle, role, rows, expired, jar, gen, closed>>

\* COMMIT: the writes become visible and the locks are released.
commit(p) ==
    /\ tx[p] # Idle /\ tx[p].write # Idle
    /\ LET w == tx[p].write
           op == tx[p].op
           new == w.token
       IN
       /\ rows' = [t \in DOMAIN rows \cup ({new} \ {NoToken}) |->
                     IF t = new THEN w.row
                     ELSE [rows[t] EXCEPT
                             !.revoked = IF t \in w.kill THEN IF op = "refresh" THEN op ELSE "ended" ELSE @,
                             !.replaced = IF t = w.mark THEN "grace" ELSE @]]
       /\ jar' = IF new # NoToken THEN new ELSE jar
       /\ closed' = closed \cup {rows[t].fam : t \in {s \in DOMAIN rows : InScope(rows[s], w.scope)}}
       /\ password' = IF w.password THEN password + 1 ELSE password
       /\ role' = IF op = "member" THEN [role EXCEPT ![w.tenant] = w.role] ELSE role
       /\ lifecycle' = IF op = "lifecycle" THEN [lifecycle EXCEPT ![w.tenant] = w.life] ELSE lifecycle
       /\ gen' = IF op = "lifecycle" /\ w.life # "active" THEN [gen EXCEPT ![w.tenant] = @ + 1] ELSE gen
    /\ tx' = [tx EXCEPT ![p] = Idle]
    /\ UNCHANGED <<expired, last>>

-----------------------------------------------------------------------------
\* Time.

\* REFRESH_ROTATION_GRACE_MS after a token was replaced.
graceEnds(t) ==
    /\ t \in DOMAIN rows /\ rows[t].replaced = "grace"
    /\ PromptRequests => \A p \in Procs : tx[p] # Idle /\ tx[p].op = "refresh" => tx[p].arg.token # t
    /\ rows' = [rows EXCEPT ![t].replaced = "late"]
    /\ UNCHANGED <<password, lifecycle, role, expired, last, jar, tx, gen, closed>>

\* REFRESH_FAMILY_TTL_MS after the family began.
familyExpires(f) ==
    /\ "expiry" \in Ops
    /\ f \in {rows[t].fam : t \in DOMAIN rows} \ expired
    /\ expired' = expired \cup {f}
    /\ UNCHANGED <<password, lifecycle, role, rows, last, jar, tx, gen, closed>>

cleanupExpiredRefreshTokens ==
    /\ \E t \in DOMAIN rows : rows[t].fam \in expired
    /\ rows' = [t \in {s \in DOMAIN rows : rows[s].fam \notin expired} |-> rows[t]]
    /\ UNCHANGED <<password, lifecycle, role, expired, last, jar, tx, gen, closed>>

Next ==
    \/ \E p \in Procs :
         \/ login(p) \/ refresh(p) \/ logout(p) \/ resetPassword(p) \/ selectTenant(p)
         \/ selectByToken(p) \/ changeMember(p) \/ transition(p)
         \/ acquire(p) \/ commit(p)
         \/ insertInitialPair(p) \/ rotate(p) \/ revokeSessionFamily(p)
         \/ revokeUserRefreshFamilies(p) \/ issueSelected(p)
         \/ revokeUserTenantRefreshFamilies(p) \/ revokeTenantRefreshFamilies(p)
    \/ \E t \in 1..MaxTokens : graceEnds(t) \/ familyExpires(t)
    \/ cleanupExpiredRefreshTokens

Spec == Init /\ [][Next]_vars

\* Requests are interchangeable, and so are workspaces and roles.
Symmetry == Permutations(Procs) \cup Permutations(Tenants) \cup Permutations(Roles)

-----------------------------------------------------------------------------
TypeOK ==
    /\ password \in 0..MaxPassword
    /\ lifecycle \in [Tenants -> {"active", "suspended", "deleted"}]
    /\ role \in [Tenants -> Roles \cup {NoRole}]
    /\ DOMAIN rows \subseteq 1..last /\ last <= MaxTokens
    /\ \A t \in DOMAIN rows :
          /\ rows[t].fam \in 1..t
          /\ rows[t].role \in (IF rows[t].tenant = Platform THEN {NoRole} ELSE Roles)
          /\ rows[t].replaced \in {"no", "grace", "late"}
    /\ expired \subseteq 1..MaxTokens

(***************************************************************************)
(* A family that was ended as a whole (logout, reuse, an invalid           *)
(* principal, a changed membership, a reset, a suspension) has no live     *)
(* token left and never gets one again: no rotation in flight slips a new  *)
(* token past the UPDATE that revokes (session-tokens.ts:572, 780-830).    *)
(***************************************************************************)
ClosedStaysClosed == \A t \in DOMAIN rows : rows[t].fam \in closed => ~Live(t)

(***************************************************************************)
(* A live session was obtained with the current password, and after the    *)
(* last suspension of its workspace: no sign-in, selection or rotation     *)
(* that began before the boundary survives it (session-tokens.ts:134,      *)
(* tenant-lifecycle.ts:130).                                               *)
(***************************************************************************)
LiveIsCurrent ==
    \A t \in DOMAIN rows : Live(t) =>
        /\ rows[t].cred = password
        /\ rows[t].tenant # Platform => rows[t].gen = gen[rows[t].tenant]

(***************************************************************************)
(* No two requests wait for each other: tenant, user, family is one order  *)
(* for all transactions (reset-password/route.ts:62, session-tokens.ts:602,*)
(* tenant-lifecycle.ts:63).                                                *)
(***************************************************************************)
NoLockCycle == \A p, q \in Procs : ~(Blocks(p, q) /\ Blocks(q, p))

(***************************************************************************)
(* A browser that refreshes from several tabs at once, always with the     *)
(* cookie it holds and answered within the grace, is never taken for a     *)
(* thief and keeps its session (session-tokens.ts:666).                    *)
(***************************************************************************)
TabsKeepSession == PromptRequests => \A t \in DOMAIN rows : rows[t].revoked # "refresh"

(***************************************************************************)
(* A workspace changes its lifecycle only while the session of the         *)
(* platform owner who asked for it is alive at the moment of the commit    *)
(* (platform-auth.ts:75, tenant-lifecycle.ts:75).                          *)
(***************************************************************************)
TransitionUnderAuthority ==
    \A p \in Procs : tx[p] # Idle /\ tx[p].op = "lifecycle" /\ lifecycle' # lifecycle /\ tx'[p] = Idle
       => FamilyActive(tx[p].arg.actor)
=============================================================================
