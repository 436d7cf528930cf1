------------------------------ MODULE Accounts ------------------------------
(***************************************************************************)
(* One e-mail address and the two people who use it: the owner of the      *)
(* mailbox, and a stranger who enters the same address into the forms.     *)
(* Registration, verification, recovery, sign-in and workspace selection.  *)
(*                                                                         *)
(* A request reads without a lock (Begin), hashes a password, and then     *)
(* runs one transaction under the lock of the users row (the other         *)
(* actions).  Links and passwords are identities that are used again once  *)
(* nothing refers to them, so that requests can go on for ever.            *)
(***************************************************************************)
EXTENDS Naturals, FiniteSets

CONSTANTS
  Procs,       \* requests under way
  Ids,         \* identities of links, passwords and selection tokens
  Ops,         \* the operations of this instance
  Strangers,   \* bound on the stranger's requests
  MaxSpaces    \* bound on memberships

VARIABLES
  user,      \* the users row: [there, verified, by, pw, old, spaces]
  links,     \* links[i]: "none", or the kind of the open link i
  mail,      \* links the owner holds
  chooser,   \* tenant selection tokens, and the marks of those used
  sess,      \* live sessions: who began them and under which password hash
  req,       \* the requests
  strange    \* requests of the stranger so far

vars == <<user, links, mail, chooser, sess, req, strange>>

Idle == [op |-> "none"]
NoToken == [pw |-> 0, live |-> FALSE, used |-> FALSE, minted |-> 0]
Nobody == [there |-> FALSE, verified |-> FALSE, by |-> "none", pw |-> 0, old |-> FALSE, spaces |-> 0]

\* No account, or one whose hash predates argon2id.
Init ==
  /\ user \in {Nobody, [there |-> TRUE, verified |-> TRUE, by |-> "owner", pw |-> 0,
                        old |-> TRUE, spaces |-> 1]}
  /\ links = [i \in Ids |-> "none"] /\ mail = {}
  /\ chooser = [i \in Ids |-> NoToken]
  /\ sess = {} /\ strange = 0
  /\ req = [p \in Procs |-> Idle]

\* generateOpaqueToken, nanoid: an identity nothing refers to.
First(S) == {i \in S : \A j \in S : i <= j}
Named(i) == \E p \in Procs : req[p] # Idle /\ req[p].link = i
FreshLink == First({i \in Ids : links[i] = "none" /\ ~Named(i)})
FreshPassword ==
  First({n \in Ids : /\ n \notin {user.pw} \cup {s.pw : s \in sess} \cup {chooser[i].pw : i \in Ids}
                    /\ \A p \in Procs : req[p] # Idle => req[p].pw # n})
FreshToken == First({i \in Ids : ~chooser[i].live /\ ~Named(i)})

\* credentialVersionFor: the version of the stored hash.
Version == <<user.pw, user.old>>

Ask(p, op, who, link, pw, old) ==
  /\ op \in Ops /\ req[p] = Idle
  /\ who = "stranger" => strange < Strangers
  /\ strange' = IF who = "stranger" THEN strange + 1 ELSE strange
  /\ req' = [req EXCEPT ![p] = [op |-> op, who |-> who, link |-> link, pw |-> pw, old |-> old]]
  /\ UNCHANGED <<user, links, mail, chooser, sess>>

Done(p) == req' = [req EXCEPT ![p] = Idle] /\ UNCHANGED strange

Running(p, op) == req[p] # Idle /\ req[p].op = op

-----------------------------------------------------------------------------
\* What the routes read before their transaction, and refuse at once.

registers(p) == ~user.there /\ \E w \in {"owner", "stranger"} : Ask(p, "register", w, 0, 0, FALSE)
resends(p) == user.there /\ ~user.verified /\ \E w \in {"owner", "stranger"} : Ask(p, "resend", w, 0, 0, FALSE)
forgets(p) == user.there /\ \E w \in {"owner", "stranger"} : Ask(p, "forgot", w, 0, 0, FALSE)
follows(p) == \E i \in mail : links[i] # "none" /\ Ask(p, links[i], "owner", i, 0, FALSE)

\* authenticateCustomer: a verified account and its present password.
signsIn(p) ==
  /\ user.there /\ user.verified /\ user.by \in {"owner", "stranger"}
  /\ Ask(p, "login", user.by, 0, user.pw, user.old)

\* verifyTenantSelectionToken: signed and not expired.
chooses(p) == \E i \in Ids :
  chooser[i].live /\ Ask(p, "select", user.by, i, chooser[i].pw, FALSE)

-----------------------------------------------------------------------------
\* The transactions.

Close(kind) == [i \in Ids |-> IF links[i] = kind THEN "none" ELSE links[i]]
AllOpen(kind) == links

\* Every open link of a kind is consumed before a new one is inserted.
Consumed(kind) == Close(kind)

\* sendTransactionalEmail may fail; the answer does not say so.
Mailed(i) == mail' \in {mail \ {j \in Ids : links'[j] = "none"},
                        (mail \ {j \in Ids : links'[j] = "none"}) \cup {i}}

register(p) ==
  /\ Running(p, "register") /\ Done(p)
  /\ IF user.there THEN UNCHANGED <<user, links, mail>>
     ELSE \E i \in FreshLink, n \in FreshPassword :
            /\ user' = [Nobody EXCEPT !.there = TRUE, !.by = req[p].who, !.pw = n]
            /\ links' = [links EXCEPT ![i] = "verify"]
            /\ Mailed(i)
  /\ UNCHANGED <<chooser, sess>>

resendUnlessOpen(p) ==
  /\ Running(p, "resend") /\ Done(p)
  /\ IF user.verified \/ \E i \in Ids : links[i] = "verify" THEN UNCHANGED <<links, mail>>
     ELSE \E i \in FreshLink : links' = [links EXCEPT ![i] = "verify"] /\ Mailed(i)
  /\ UNCHANGED <<user, chooser, sess>>

resend(p) ==
  /\ Running(p, "resend") /\ Done(p)
  /\ IF user.verified THEN UNCHANGED <<links, mail>>
     ELSE \E i \in FreshLink : /\ links' = [Close("verify") EXCEPT ![i] = "verify"]
                               /\ Mailed(i)
  /\ UNCHANGED <<user, chooser, sess>>

forgot(p) ==
  /\ Running(p, "forgot") /\ Done(p)
  /\ \E i \in FreshLink : /\ links' = [Consumed("reset") EXCEPT ![i] = "reset"]
                          /\ Mailed(i)
  /\ UNCHANGED <<user, chooser, sess>>

PasswordKept(n) == [user EXCEPT !.verified = TRUE, !.spaces = 1]

\* Mail proves the owner: the password of whoever registered is replaced by a
\* random one, and the first workspace is made.
Verified(n) == [user EXCEPT !.verified = TRUE, !.by = "nobody", !.pw = n, !.old = FALSE,
                            !.spaces = IF @ = 0 THEN 1 ELSE @]

\* The answer carries a reset link; it may be lost on its way to the browser.
verifyEmail(p) ==
  /\ Running(p, "verify") /\ Done(p)
  /\ LET i == req[p].link IN
     IF links[i] # "verify" THEN UNCHANGED <<user, links, mail, sess>>
     ELSE IF user.verified
     THEN /\ links' = [links EXCEPT ![i] = "none"] /\ mail' = mail \ {i}
          /\ UNCHANGED <<user, sess>>
     ELSE \E j \in FreshLink, n \in FreshPassword :
            /\ user' = Verified(n) /\ sess' = {}
            /\ links' = [Close("reset") EXCEPT ![i] = "none", ![j] = "reset"]
            /\ Mailed(j)
  /\ UNCHANGED chooser

LinkReadBefore(i) == TRUE

\* The consuming UPDATE finds the link open.
LinkOpen(i) == links[i] = "reset"

resetPassword(p) ==
  /\ Running(p, "reset") /\ Done(p)
  /\ LET i == req[p].link IN
     IF ~LinkOpen(i) THEN UNCHANGED <<user, links, mail, sess>>
     ELSE \E n \in FreshPassword :
            /\ user' = [user EXCEPT !.by = "owner", !.pw = n, !.old = FALSE]
            /\ links' = [links EXCEPT ![i] = "none"] /\ mail' = mail \ {i}
            /\ sess' = {}
  /\ UNCHANGED chooser

HashOverwritten(r) == [user EXCEPT !.pw = r.pw, !.by = r.who, !.old = FALSE]

\* The login upgrades a legacy hash if it still is the one it verified.
Upgraded(r) == IF Version = <<r.pw, r.old>> THEN [user EXCEPT !.old = FALSE] ELSE user

upgradeHash(p) ==
  /\ Running(p, "login") /\ req[p].old
  /\ user' = Upgraded(req[p])
  /\ req' = [req EXCEPT ![p] = IF user'.pw = req[p].pw /\ user' # user THEN [@ EXCEPT !.old = FALSE] ELSE Idle]
  /\ UNCHANGED <<links, mail, chooser, sess, strange>>

Credential(r) == Version = <<r.pw, r.old>>
AnyCredential(r) == TRUE

\* assertSessionCredentialInTransaction
CredentialHolds(r) == Credential(r)

Session(r) == [who |-> r.who, pw |-> r.pw]

\* One workspace: a session.  Several: a selection token.
login(p) ==
  /\ Running(p, "login") /\ ~req[p].old /\ Done(p)
  /\ \/ /\ user.spaces = 1
        /\ sess' = IF CredentialHolds(req[p]) THEN sess \cup {Session(req[p])} ELSE sess
        /\ UNCHANGED chooser
     \/ /\ user.spaces > 1 /\ UNCHANGED sess
        /\ \E i \in FreshToken :
             chooser' = [chooser EXCEPT ![i] = [NoToken EXCEPT !.pw = req[p].pw, !.live = TRUE]]
  /\ UNCHANGED <<user, links, mail>>

MarkForgotten(i) == TRUE

\* INSERT ... ON CONFLICT DO NOTHING: the token has not been used.
Unused(i) == ~chooser[i].used

selectTenant(p) ==
  /\ Running(p, "select") /\ Done(p)
  /\ LET i == req[p].link IN
     IF Unused(i) /\ CredentialHolds(req[p])
     THEN /\ chooser' = [chooser EXCEPT ![i].used = TRUE, ![i].minted = @ + 1]
          /\ sess' = sess \cup {Session(req[p])}
     ELSE UNCHANGED <<chooser, sess>>
  /\ UNCHANGED <<user, links, mail>>

-----------------------------------------------------------------------------
\* Time, and what other parts do to the account.

expires(i) ==
  /\ "expiry" \in Ops /\ links[i] # "none"
  /\ links' = [links EXCEPT ![i] = "none"] /\ mail' = mail \ {i}
  /\ UNCHANGED <<user, chooser, sess, req, strange>>

\* The token is too old; the mark of its use outlives it by a day.
chooserExpires(i) ==
  /\ chooser[i].live
  /\ chooser' = [chooser EXCEPT ![i].live = FALSE]
  /\ UNCHANGED <<user, links, mail, sess, req, strange>>

\* An invitation to another workspace is accepted.
joins ==
  /\ "join" \in Ops /\ user.verified /\ user.spaces < MaxSpaces
  /\ user' = [user EXCEPT !.spaces = @ + 1]
  /\ UNCHANGED <<links, mail, chooser, sess, req, strange>>

\* A request that was read goes on with its transaction.
Working(p) == register(p) \/ resend(p) \/ forgot(p) \/ verifyEmail(p) \/ resetPassword(p)
              \/ upgradeHash(p) \/ login(p) \/ selectTenant(p)

Next ==
  \/ \E p \in Procs :
       \/ registers(p) \/ resends(p) \/ forgets(p) \/ follows(p) \/ signsIn(p) \/ chooses(p)
       \/ Working(p)
  \/ \E i \in Ids : expires(i) \/ chooserExpires(i)
  \/ joins

Spec == Init /\ [][Next]_vars

\* The mail with the new link arrives.
Delivered == mail' # {} /\ \E i \in mail' : links'[i] # links[i]

-----------------------------------------------------------------------------
TypeOK ==
  /\ links \in [Ids -> {"none", "verify", "reset"}] /\ mail \subseteq Ids
  /\ user.by \in {"none", "nobody", "owner", "stranger"} /\ user.pw \in Ids \cup {0}
  /\ user.there \in BOOLEAN /\ user.verified \in BOOLEAN /\ user.spaces \in 0..MaxSpaces
  /\ \A s \in sess : s.pw \in Ids \cup {0}
  /\ strange \in 0..Strangers

(***************************************************************************)
(* Whoever registers somebody else's address never gets a session of that  *)
(* account, however verification, recovery and sign-in interleave          *)
(* (verify-email/route.ts:52).                                             *)
(***************************************************************************)
StrangerLockedOut == \A s \in sess : s.who = "owner"

(***************************************************************************)
(* The password of an account changes only in a step that consumes an open *)
(* link: no link works twice, and the hash upgrade of a slow sign-in never *)
(* brings a replaced password back (reset-password/route.ts:72,            *)
(* manager-auth.ts:447).                                                   *)
(***************************************************************************)
PasswordNeedsLink ==
  user.there /\ user'.pw # user.pw => \E i \in Ids : links[i] # "none" /\ links'[i] = "none"

(***************************************************************************)
(* Of all recovery links of an account at most one is open                 *)
(* (forgot-password/route.ts:40, verify-email/route.ts:110).               *)
(***************************************************************************)
OneOpenReset == Cardinality({i \in Ids : links[i] = "reset"}) <= 1

(***************************************************************************)
(* Every session was obtained with the present password, although it was   *)
(* verified before the transaction that inserts the session                *)
(* (session-tokens.ts:134, login/route.ts:68).                             *)
(***************************************************************************)
SessionsCurrent == \A s \in sess : s.pw = user.pw

(***************************************************************************)
(* A workspace selection token yields one session, also when it is         *)
(* presented twice at once or expires meanwhile                            *)
(* (select-tenant/route.ts:71).                                            *)
(***************************************************************************)
SelectionOnce == \A i \in Ids : chooser[i].minted <= 1

(***************************************************************************)
(* An owner who persists gets in, whoever registered the address and       *)
(* whatever mail and answers were lost                                     *)
(* (resend-verification/route.ts, forgot-password/route.ts).               *)
(***************************************************************************)
OwnerGetsIn == user.there ~> \E s \in sess : s.who = "owner"
=============================================================================
