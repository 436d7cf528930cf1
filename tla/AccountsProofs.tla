--------------------------- MODULE AccountsProofs ---------------------------
(***************************************************************************)
(* One address, its owner and a stranger, for any number of requests under *)
(* way, of links, passwords and selection tokens, and of attempts of the   *)
(* stranger: registration, verification, recovery, sign-in and workspace   *)
(* selection in any order.                                                 *)
(*                                                                         *)
(* The argument: a verified account is never under the stranger's          *)
(* password, because verification replaces it; whoever holds a token or a  *)
(* request with the present password is the owner, because every new       *)
(* password is one that no request, token or session knows; and a session  *)
(* is inserted only if the password it was obtained with is still the      *)
(* present one.                                                            *)
(***************************************************************************)
EXTENDS Accounts, FiniteSetTheorems, TLAPS

\* Identities are numbered from 1, 0 is the password nobody chose here, and an account may
\* have a workspace.
ConstantsFit ==
  /\ Ids \subseteq Nat \ {0}
  /\ Strangers \in Nat /\ MaxSpaces \in Nat \ {0}

People == {"none", "nobody", "owner", "stranger"}
Kinds == {"none", "verify", "reset"}
Passwords == Ids \cup {0}
Spaces == 0..MaxSpaces

Account == [there: BOOLEAN, verified: BOOLEAN, by: People, pw: Passwords, old: BOOLEAN,
            spaces: Spaces]
Request == [op: {"register", "resend", "forgot", "verify", "reset", "login", "select"},
            who: People, link: Ids \cup {0}, pw: Passwords, old: BOOLEAN]
Token == [pw: Passwords, live: BOOLEAN, used: BOOLEAN, minted: {0, 1}]

\* Before the address is registered nothing can be done with it but that.
Unregistered(u, L, C, S, R) ==
  ~u.there =>
    /\ ~u.verified /\ S = {}
    /\ \A i \in Ids : L[i] = "none" /\ ~C[i].live
    /\ \A p \in Procs : R[p] # Idle => R[p].op = "register"

\* Who holds the present password.
Holders(u, C, R) ==
  /\ \A i \in Ids : C[i].live /\ C[i].pw = u.pw => u.by = "owner"
  /\ \A p \in Procs : R[p] # Idle =>
       /\ R[p].op = "login" => R[p].who = "owner" /\ (R[p].pw = u.pw => u.by = "owner")
       /\ R[p].op = "select" /\ R[p].pw = u.pw => R[p].who = "owner"
       /\ R[p].op \in {"verify", "reset", "select"} => R[p].link \in Ids

OneReset(L) == \A i, j \in Ids : L[i] = "reset" /\ L[j] = "reset" => i = j

SessionInv(S, u) == \A s \in S : s.who = "owner" /\ s.pw = u.pw

\* The inductive invariant.
IInv ==
  /\ user \in Account /\ links \in [Ids -> Kinds] /\ mail \subseteq Ids
  /\ chooser \in [Ids -> Token] /\ strange \in 0..Strangers
  /\ req \in [Procs -> Request \cup {Idle}]
  /\ user.verified => user.by # "stranger"
  /\ \A i \in Ids : chooser[i].used \/ chooser[i].minted = 0
  /\ Unregistered(user, links, chooser, sess, req)
  /\ Holders(user, chooser, req)
  /\ OneReset(links)
  /\ SessionInv(sess, user)

-----------------------------------------------------------------------------
(* The requests                                                            *)

\* How many workspaces an account may have.
LEMMA SpacesFit ==
    ASSUME ConstantsFit
    PROVE  /\ 0 \in Spaces /\ 1 \in Spaces
           /\ \A k \in Spaces : k < MaxSpaces => k + 1 \in Spaces
BY DEF ConstantsFit, Spaces

\* Asking changes only the asker's slot.
LEMMA AskFrame ==
    ASSUME ConstantsFit, IInv, NEW p \in Procs, NEW op, NEW who, NEW link, NEW pw, NEW old,
           Ask(p, op, who, link, pw, old),
           [op |-> op, who |-> who, link |-> link, pw |-> pw, old |-> old] \in Request,
           op # "register" => user.there,
           op = "login" => who = "owner" /\ (pw = user.pw => user.by = "owner"),
           op = "select" /\ pw = user.pw => who = "owner",
           op \in {"verify", "reset", "select"} => link \in Ids
    PROVE  IInv'
<1> DEFINE r == [op |-> op, who |-> who, link |-> link, pw |-> pw, old |-> old]
<1>1. /\ r.op = op /\ r.who = who /\ r.link = link /\ r.pw = pw /\ r \in Request
      /\ req' = [req EXCEPT ![p] = r]
      /\ UNCHANGED <<user, links, mail, chooser, sess>>
  BY DEF Ask
<1> HIDE DEF r
<1>2. strange' \in 0..Strangers
  BY DEF Ask, IInv, ConstantsFit
<1>3. /\ req' \in [Procs -> Request \cup {Idle}]
      /\ \A q \in Procs : req'[q] = IF q = p THEN r ELSE req[q]
  BY <1>1 DEF IInv
<1>4. Unregistered(user, links, chooser, sess, req')
  BY <1>1, <1>3 DEF IInv, Unregistered
<1>5. Holders(user, chooser, req')
  BY <1>1, <1>3 DEF IInv, Holders
<1> QED
  BY <1>1, <1>2, <1>3, <1>4, <1>5 DEF IInv

\* What the routes read before their transaction keeps the invariant.
LEMMA BeginHolds ==
    ASSUME ConstantsFit, IInv, NEW p \in Procs,
           registers(p) \/ resends(p) \/ forgets(p) \/ follows(p) \/ signsIn(p) \/ chooses(p)
    PROVE  IInv'
<1>1. CASE registers(p)
  <2>1. PICK w \in {"owner", "stranger"} : Ask(p, "register", w, 0, 0, FALSE)
    BY <1>1 DEF registers
  <2>2. [op |-> "register", who |-> w, link |-> 0, pw |-> 0, old |-> FALSE] \in Request
    BY DEF Request, People, Passwords
  <2> QED
    BY <2>1, <2>2, AskFrame
<1>2. CASE resends(p)
  <2>1. PICK w \in {"owner", "stranger"} : Ask(p, "resend", w, 0, 0, FALSE) /\ user.there
    BY <1>2 DEF resends
  <2>2. [op |-> "resend", who |-> w, link |-> 0, pw |-> 0, old |-> FALSE] \in Request
    BY DEF Request, People, Passwords
  <2> QED
    BY <2>1, <2>2, AskFrame
<1>3. CASE forgets(p)
  <2>1. PICK w \in {"owner", "stranger"} : Ask(p, "forgot", w, 0, 0, FALSE) /\ user.there
    BY <1>3 DEF forgets
  <2>2. [op |-> "forgot", who |-> w, link |-> 0, pw |-> 0, old |-> FALSE] \in Request
    BY DEF Request, People, Passwords
  <2> QED
    BY <2>1, <2>2, AskFrame
<1>4. CASE follows(p)
  <2>1. PICK i \in mail : links[i] # "none" /\ Ask(p, links[i], "owner", i, 0, FALSE)
    BY <1>4 DEF follows
  <2>2. i \in Ids /\ links[i] \in {"verify", "reset"} /\ user.there
    BY <2>1 DEF IInv, Kinds, Unregistered
  <2>3. [op |-> links[i], who |-> "owner", link |-> i, pw |-> 0, old |-> FALSE] \in Request
    BY <2>2 DEF Request, People, Passwords
  <2> QED
    BY <2>1, <2>2, <2>3, AskFrame
<1>5. CASE signsIn(p)
  <2>1. /\ user.there /\ user.by = "owner" /\ user.pw \in Passwords /\ user.old \in BOOLEAN
        /\ Ask(p, "login", user.by, 0, user.pw, user.old)
    BY <1>5 DEF signsIn, IInv, Account
  <2>2. [op |-> "login", who |-> user.by, link |-> 0, pw |-> user.pw, old |-> user.old] \in Request
    BY <2>1 DEF Request, People
  <2> QED
    BY <2>1, <2>2, AskFrame
<1>6. CASE chooses(p)
  <2>1. PICK i \in Ids : chooser[i].live /\ Ask(p, "select", user.by, i, chooser[i].pw, FALSE)
    BY <1>6 DEF chooses
  <2>2. /\ chooser[i].pw \in Passwords /\ user.by \in People /\ user.there
        /\ chooser[i].pw = user.pw => user.by = "owner"
    BY <2>1 DEF IInv, Token, Account, Holders, Unregistered
  <2>3. [op |-> "select", who |-> user.by, link |-> i, pw |-> chooser[i].pw, old |-> FALSE] \in Request
    BY <2>2 DEF Request
  <2> QED
    BY <2>1, <2>2, <2>3, AskFrame
<1> QED
  BY <1>1, <1>2, <1>3, <1>4, <1>5, <1>6

\* A running request is one of the account, and its slot is free afterwards.
LEMMA DoneFrame ==
    ASSUME ConstantsFit, IInv, NEW p \in Procs, NEW op, Running(p, op), Done(p)
    PROVE  /\ req[p] \in Request /\ req[p].op = op /\ (op # "register" => user.there)
           /\ req' \in [Procs -> Request \cup {Idle}] /\ strange' = strange
           /\ \A q \in Procs : req'[q] # Idle => req'[q] = req[q] /\ req[q] # Idle
BY DEF Running, Done, IInv, Unregistered

-----------------------------------------------------------------------------
(* The passwords                                                           *)

\* A new password is known to no request, token or session.
LEMMA Fresh ==
    ASSUME ConstantsFit, NEW n \in FreshPassword
    PROVE  /\ n \in Ids /\ n # 0 /\ n # user.pw
           /\ \A i \in Ids : chooser[i].pw # n
           /\ \A p \in Procs : req[p] # Idle => req[p].pw # n
BY DEF FreshPassword, First, ConstantsFit

\* A new link is one that is not open.
LEMMA FreshLinkIsClosed ==
    ASSUME NEW i \in FreshLink
    PROVE  i \in Ids /\ links[i] = "none"
BY DEF FreshLink, First

\* With a new password nobody but the holder of the request that set it knows it.
LEMMA NewPassword ==
    ASSUME ConstantsFit, IInv, NEW n \in FreshPassword, NEW u, u.pw = n,
           NEW R, \A q \in Procs : R[q] # Idle => R[q] = req[q] /\ req[q] # Idle
    PROVE  Holders(u, chooser, R)
BY Fresh DEF IInv, Holders

\* The same password: requests that end take nothing with them.
LEMMA SamePassword ==
    ASSUME IInv, NEW u, u.pw = user.pw, u.by = user.by,
           NEW R, \A q \in Procs : R[q] # Idle => R[q] = req[q] /\ req[q] # Idle
    PROVE  Holders(u, chooser, R)
BY DEF IInv, Holders

\* A registered account stays registered, whatever is done with it.
LEMMA StaysRegistered ==
    ASSUME NEW u, u.there, NEW L, NEW C, NEW S, NEW R
    PROVE  Unregistered(u, L, C, S, R)
BY DEF Unregistered

\* The mailbox holds links.
LEMMA MailIsTyped ==
    ASSUME IInv, NEW i \in Ids, Mailed(i)
    PROVE  mail' \subseteq Ids
BY DEF Mailed, IInv

-----------------------------------------------------------------------------
(* The transactions                                                        *)

\* Registration gives the address to whoever asked, once (register/route.ts).
LEMMA RegisterHolds ==
    ASSUME ConstantsFit, IInv, NEW p \in Procs, register(p)
    PROVE  IInv'
<1>0. /\ Running(p, "register") /\ Done(p) /\ UNCHANGED <<chooser, sess>>
  BY DEF register
<1>1. /\ req[p] \in Request /\ req' \in [Procs -> Request \cup {Idle}] /\ strange' = strange
      /\ \A q \in Procs : req'[q] # Idle => req'[q] = req[q] /\ req[q] # Idle
  BY <1>0, DoneFrame, Zenon
<1>2. CASE user.there
  <2>1. UNCHANGED <<user, links, mail>>
    BY <1>2 DEF register
  <2>2. Holders(user, chooser, req') /\ Unregistered(user, links, chooser, sess, req')
    BY <1>1, <1>2, SamePassword, StaysRegistered
  <2> QED
    BY <1>0, <1>1, <2>1, <2>2 DEF IInv
<1>3. CASE ~user.there
  <2>1. PICK i \in FreshLink, n \in FreshPassword :
          /\ user' = [Nobody EXCEPT !.there = TRUE, !.by = req[p].who, !.pw = n]
          /\ links' = [links EXCEPT ![i] = "verify"] /\ Mailed(i)
    BY <1>3 DEF register
  <2>2. /\ i \in Ids /\ links[i] = "none" /\ n \in Ids /\ mail' \subseteq Ids /\ sess = {}
    BY <1>3, <2>1, Fresh, FreshLinkIsClosed, MailIsTyped DEF IInv, Unregistered
  <2>3. /\ user' \in Account /\ user'.pw = n /\ user'.there /\ ~user'.verified
    BY <1>1, <2>1, <2>2, SpacesFit DEF Nobody, Account, Request, Passwords
  <2>4. links' \in [Ids -> Kinds] /\ OneReset(links')
    BY <2>1, <2>2 DEF IInv, Kinds, OneReset
  <2>5. Holders(user', chooser, req') /\ Unregistered(user', links', chooser, sess, req')
    BY <1>1, <2>1, <2>3, NewPassword, StaysRegistered
  <2>6. SessionInv(sess, user')
    BY <2>2 DEF SessionInv
  <2> QED
    BY <1>0, <1>1, <2>2, <2>3, <2>4, <2>5, <2>6 DEF IInv
<1> QED
  BY <1>2, <1>3

\* A transaction that touches only the links and the mail.
LEMMA LinksFrame ==
    ASSUME ConstantsFit, IInv, NEW p \in Procs, NEW op, op # "register",
           Running(p, op), Done(p), UNCHANGED <<user, chooser, sess>>,
           links' \in [Ids -> Kinds], OneReset(links'), mail' \subseteq Ids
    PROVE  IInv'
<1>1. /\ user.there /\ req' \in [Procs -> Request \cup {Idle}] /\ strange' = strange
      /\ \A q \in Procs : req'[q] # Idle => req'[q] = req[q] /\ req[q] # Idle
  BY DoneFrame, Zenon
<1>2. Holders(user, chooser, req') /\ Unregistered(user, links', chooser, sess, req')
  BY <1>1, SamePassword, StaysRegistered
<1> QED
  BY <1>1, <1>2 DEF IInv

\* A transaction that sets a new password and ends every session.
LEMMA PasswordFrame ==
    ASSUME ConstantsFit, IInv, NEW p \in Procs, NEW op, op # "register",
           Running(p, op), Done(p), UNCHANGED chooser, sess' = {},
           NEW n \in FreshPassword, user' \in Account, user'.pw = n, user'.there,
           user'.by # "stranger",
           links' \in [Ids -> Kinds], OneReset(links'), mail' \subseteq Ids
    PROVE  IInv'
<1>1. /\ req' \in [Procs -> Request \cup {Idle}] /\ strange' = strange
      /\ \A q \in Procs : req'[q] # Idle => req'[q] = req[q] /\ req[q] # Idle
  BY DoneFrame, Zenon
<1>2. Holders(user', chooser, req') /\ Unregistered(user', links', chooser, sess', req')
  BY <1>1, NewPassword, StaysRegistered
<1>3. SessionInv(sess', user')
  BY DEF SessionInv
<1> QED
  BY <1>1, <1>2, <1>3 DEF IInv

\* A new verification link closes the earlier ones (resend-verification/route.ts).
LEMMA ResendHolds ==
    ASSUME ConstantsFit, IInv, NEW p \in Procs, resend(p)
    PROVE  IInv'
<1>1. Running(p, "resend") /\ Done(p) /\ UNCHANGED <<user, chooser, sess>>
  BY DEF resend
<1>2. CASE user.verified
  BY <1>1, <1>2, LinksFrame DEF resend, IInv
<1>3. CASE ~user.verified
  <2>1. PICK i \in FreshLink : links' = [Close("verify") EXCEPT ![i] = "verify"] /\ Mailed(i)
    BY <1>3 DEF resend
  <2>2. i \in Ids /\ mail' \subseteq Ids
    BY <2>1, FreshLinkIsClosed, MailIsTyped
  <2>3. links' \in [Ids -> Kinds] /\ OneReset(links')
    BY <2>1, <2>2 DEF Close, IInv, Kinds, OneReset
  <2> QED
    BY <1>1, <2>2, <2>3, LinksFrame
<1> QED
  BY <1>2, <1>3

\* A new recovery link closes the earlier ones (forgot-password/route.ts).
LEMMA ForgotHolds ==
    ASSUME ConstantsFit, IInv, NEW p \in Procs, forgot(p)
    PROVE  IInv'
<1>1. Running(p, "forgot") /\ Done(p) /\ UNCHANGED <<user, chooser, sess>>
  BY DEF forgot
<1>2. PICK i \in FreshLink : links' = [Consumed("reset") EXCEPT ![i] = "reset"] /\ Mailed(i)
  BY DEF forgot
<1>3. i \in Ids /\ mail' \subseteq Ids
  BY <1>2, FreshLinkIsClosed, MailIsTyped
<1>4. links' \in [Ids -> Kinds] /\ OneReset(links')
  BY <1>2, <1>3 DEF Consumed, Close, IInv, Kinds, OneReset
<1> QED
  BY <1>1, <1>3, <1>4, LinksFrame

\* Verification replaces the password and ends every session (verify-email/route.ts).
LEMMA VerifyHolds ==
    ASSUME ConstantsFit, IInv, NEW p \in Procs, verifyEmail(p)
    PROVE  IInv'
<1> DEFINE i == req[p].link
<1>1. Running(p, "verify") /\ Done(p) /\ UNCHANGED chooser
  BY DEF verifyEmail
<1>2. i \in Ids /\ user.there
  BY <1>1 DEF IInv, Holders, Unregistered, Running
<1>3. CASE links[i] # "verify"
  BY <1>1, <1>3, LinksFrame DEF verifyEmail, IInv
<1>4. CASE links[i] = "verify" /\ user.verified
  <2>1. /\ links' = [links EXCEPT ![i] = "none"] /\ mail' = mail \ {i} /\ UNCHANGED <<user, sess>>
    BY <1>4 DEF verifyEmail
  <2>2. links' \in [Ids -> Kinds] /\ OneReset(links') /\ mail' \subseteq Ids
    BY <1>2, <2>1 DEF IInv, Kinds, OneReset
  <2> QED
    BY <1>1, <2>1, <2>2, LinksFrame
<1>5. CASE links[i] = "verify" /\ ~user.verified
  <2>1. PICK j \in FreshLink, n \in FreshPassword :
          /\ user' = Verified(n) /\ sess' = {} /\ Mailed(j)
          /\ links' = [Close("reset") EXCEPT ![i] = "none", ![j] = "reset"]
    BY <1>5 DEF verifyEmail
  <2>2. j \in Ids /\ n \in Ids /\ mail' \subseteq Ids
    BY <2>1, Fresh, FreshLinkIsClosed, MailIsTyped
  <2>3. user' \in Account /\ user'.pw = n /\ user'.there /\ user'.by # "stranger"
    BY <1>2, <2>1, <2>2, SpacesFit DEF Verified, IInv, Account, Passwords, People
  <2>4. links' \in [Ids -> Kinds] /\ OneReset(links')
    BY <1>2, <2>1, <2>2 DEF Close, IInv, Kinds, OneReset
  <2> QED
    BY <1>1, <2>1, <2>2, <2>3, <2>4, PasswordFrame
<1> QED
  BY <1>3, <1>4, <1>5

\* A recovery makes the password the owner's and ends every session (reset-password/route.ts).
LEMMA ResetHolds ==
    ASSUME ConstantsFit, IInv, NEW p \in Procs, resetPassword(p)
    PROVE  IInv'
<1> DEFINE i == req[p].link
<1>1. Running(p, "reset") /\ Done(p) /\ UNCHANGED chooser
  BY DEF resetPassword
<1>2. i \in Ids /\ user.there
  BY <1>1 DEF IInv, Holders, Unregistered, Running
<1>3. CASE ~LinkOpen(i)
  BY <1>1, <1>3, LinksFrame DEF resetPassword, IInv
<1>4. CASE LinkOpen(i)
  <2>1. PICK n \in FreshPassword :
          /\ user' = [user EXCEPT !.by = "owner", !.pw = n, !.old = FALSE] /\ sess' = {}
          /\ links' = [links EXCEPT ![i] = "none"] /\ mail' = mail \ {i}
    BY <1>4 DEF resetPassword
  <2>2. n \in Ids /\ mail' \subseteq Ids
    BY <2>1, Fresh DEF IInv
  <2>3. user' \in Account /\ user'.pw = n /\ user'.there /\ user'.by # "stranger"
    BY <1>2, <2>1, <2>2 DEF IInv, Account, Passwords, People
  <2>4. links' \in [Ids -> Kinds] /\ OneReset(links')
    BY <1>2, <2>1 DEF IInv, Kinds, OneReset
  <2> QED
    BY <1>1, <2>1, <2>2, <2>3, <2>4, PasswordFrame
<1> QED
  BY <1>3, <1>4

\* The upgrade of a legacy hash keeps the password and its holder.
LEMMA UpgradeHolds ==
    ASSUME ConstantsFit, IInv, NEW p \in Procs, upgradeHash(p)
    PROVE  IInv'
<1> DEFINE r == req[p]
           s == IF user'.pw = r.pw /\ user' # user THEN [r EXCEPT !.old = FALSE] ELSE Idle
<1>1. /\ r # Idle /\ r.op = "login" /\ r \in Request /\ user.there
      /\ user' = Upgraded(r) /\ req' = [req EXCEPT ![p] = s]
      /\ UNCHANGED <<links, mail, chooser, sess, strange>>
  BY DEF upgradeHash, Running, IInv, Unregistered
<1>2. /\ user' \in Account /\ user'.pw = user.pw /\ user'.by = user.by /\ user'.there
      /\ user'.verified = user.verified
  BY <1>1 DEF Upgraded, IInv, Account
<1>3. s = Idle \/ (s \in Request /\ s.op = r.op /\ s.who = r.who /\ s.pw = r.pw)
  BY <1>1 DEF Request
<1> HIDE DEF s
<1>4. /\ req' \in [Procs -> Request \cup {Idle}]
      /\ \A q \in Procs : req'[q] = IF q = p THEN s ELSE req[q]
  BY <1>1, <1>3 DEF IInv
<1>5. Holders(user', chooser, req')
  BY <1>1, <1>2, <1>3, <1>4 DEF IInv, Holders
<1>6. Unregistered(user', links, chooser, sess, req')
  BY <1>2, StaysRegistered
<1>7. SessionInv(sess, user')
  BY <1>2 DEF IInv, SessionInv
<1> QED
  BY <1>1, <1>2, <1>4, <1>5, <1>6, <1>7 DEF IInv

\* A session or a selection token is the owner's, or none is made.
LEMMA LoginHolds ==
    ASSUME ConstantsFit, IInv, NEW p \in Procs, login(p)
    PROVE  IInv'
<1> DEFINE r == req[p]
<1>1. Running(p, "login") /\ Done(p) /\ UNCHANGED <<user, links, mail>>
  BY DEF login
<1>2. /\ r \in Request /\ r # Idle /\ r.op = "login" /\ user.there
      /\ req' \in [Procs -> Request \cup {Idle}] /\ strange' = strange
      /\ \A q \in Procs : req'[q] # Idle => req'[q] = req[q] /\ req[q] # Idle
  BY <1>1, DoneFrame, Zenon DEF Running
<1>3. r.who = "owner" /\ (r.pw = user.pw => user.by = "owner") /\ r.pw \in Passwords
  BY <1>2 DEF IInv, Holders, Request
<1>4. Holders(user, chooser, req')
  BY <1>2, SamePassword
<1>5. Unregistered(user, links, chooser', sess', req')
  BY <1>2, StaysRegistered
<1>6. CASE /\ sess' = IF CredentialHolds(r) THEN sess \cup {Session(r)} ELSE sess
           /\ UNCHANGED chooser
  <2>1. SessionInv(sess', user)
    BY <1>3, <1>6 DEF IInv, SessionInv, CredentialHolds, Credential, Version, Session
  <2> QED
    BY <1>1, <1>2, <1>4, <1>5, <1>6, <2>1 DEF IInv
<1>7. CASE /\ UNCHANGED sess
           /\ \E i \in FreshToken :
                chooser' = [chooser EXCEPT ![i] = [NoToken EXCEPT !.pw = r.pw, !.live = TRUE]]
  <2> DEFINE t == [NoToken EXCEPT !.pw = r.pw, !.live = TRUE]
  <2>1. PICK i \in FreshToken : chooser' = [chooser EXCEPT ![i] = t]
    BY <1>7
  <2>2. t \in Token /\ t.pw = r.pw /\ t.minted = 0
    BY <1>3 DEF NoToken, Token
  <2> HIDE DEF t
  <2>3. /\ chooser' \in [Ids -> Token]
        /\ \A j \in Ids : chooser'[j] = IF j = i THEN t ELSE chooser[j]
    BY <2>1, <2>2 DEF IInv
  <2>4. Holders(user, chooser', req')
    BY <1>3, <1>4, <2>2, <2>3 DEF Holders
  <2>5. \A j \in Ids : chooser'[j].used \/ chooser'[j].minted = 0
    BY <2>2, <2>3 DEF IInv
  <2> QED
    BY <1>1, <1>2, <1>5, <1>7, <2>3, <2>4, <2>5 DEF IInv
<1> QED
  BY <1>6, <1>7 DEF login

\* A selection token that was not used yields the owner's session (select-tenant/route.ts).
LEMMA SelectHolds ==
    ASSUME ConstantsFit, IInv, NEW p \in Procs, selectTenant(p)
    PROVE  IInv'
<1> DEFINE r == req[p]
           i == r.link
<1>1. Running(p, "select") /\ Done(p) /\ UNCHANGED <<user, links, mail>>
  BY DEF selectTenant
<1>2. /\ r \in Request /\ r # Idle /\ r.op = "select" /\ user.there
      /\ req' \in [Procs -> Request \cup {Idle}] /\ strange' = strange
      /\ \A q \in Procs : req'[q] # Idle => req'[q] = req[q] /\ req[q] # Idle
  BY <1>1, DoneFrame, Zenon DEF Running
<1>3. (r.pw = user.pw => r.who = "owner") /\ i \in Ids
  BY <1>2 DEF IInv, Holders
<1>4. Holders(user, chooser, req')
  BY <1>2, SamePassword
<1>5. Unregistered(user, links, chooser', sess', req')
  BY <1>2, StaysRegistered
<1>6. CASE Unused(i) /\ CredentialHolds(r)
  <2>1. /\ chooser' = [chooser EXCEPT ![i].used = TRUE, ![i].minted = @ + 1]
        /\ sess' = sess \cup {Session(r)}
    BY <1>6 DEF selectTenant
  <2>2. chooser[i] \in Token /\ chooser[i].minted = 0
    BY <1>3, <1>6 DEF IInv, Unused
  <2>3. /\ chooser' \in [Ids -> Token]
        /\ \A j \in Ids : /\ chooser'[j].pw = chooser[j].pw /\ chooser'[j].live = chooser[j].live
                          /\ chooser'[j].used \/ chooser'[j].minted = 0
    BY <1>3, <2>1, <2>2 DEF IInv, Token
  <2>4. Holders(user, chooser', req')
    BY <1>4, <2>3 DEF Holders
  <2>5. SessionInv(sess', user)
    BY <1>3, <1>6, <2>1 DEF IInv, SessionInv, CredentialHolds, Credential, Version, Session
  <2> QED
    BY <1>1, <1>2, <1>5, <2>3, <2>4, <2>5 DEF IInv
<1>7. CASE ~(Unused(i) /\ CredentialHolds(r))
  <2>1. UNCHANGED <<chooser, sess>>
    BY <1>7 DEF selectTenant
  <2> QED
    BY <1>1, <1>2, <1>4, <1>5, <2>1 DEF IInv
<1> QED
  BY <1>6, <1>7

-----------------------------------------------------------------------------
(* Time, and other parts                                                   *)

\* A link or a token that expires gives nobody anything.
LEMMA TimeHolds ==
    ASSUME ConstantsFit, IInv, NEW i \in Ids, expires(i) \/ chooserExpires(i)
    PROVE  IInv'
<1>1. CASE expires(i)
  <2>1. /\ links' \in [Ids -> Kinds] /\ mail' \subseteq Ids
        /\ \A j \in Ids : links'[j] \in {"none", links[j]}
    BY <1>1 DEF expires, IInv, Kinds
  <2>2. Unregistered(user, links', chooser, sess, req) /\ OneReset(links')
    BY <2>1 DEF IInv, Unregistered, OneReset
  <2> QED
    BY <1>1, <2>1, <2>2 DEF expires, IInv
<1>2. CASE chooserExpires(i)
  <2>1. /\ chooser' \in [Ids -> Token]
        /\ \A j \in Ids : /\ chooser'[j].pw = chooser[j].pw /\ (chooser'[j].live => chooser[j].live)
                          /\ chooser'[j].used \/ chooser'[j].minted = 0
    BY <1>2 DEF chooserExpires, IInv, Token
  <2>2. Unregistered(user, links, chooser', sess, req)
    BY <2>1 DEF IInv, Unregistered
  <2>3. Holders(user, chooser', req)
    BY <2>1 DEF IInv, Holders
  <2> QED
    BY <1>2, <2>1, <2>2, <2>3 DEF chooserExpires, IInv
<1> QED
  BY <1>1, <1>2

\* Another workspace leaves the password as it was.
LEMMA JoinHolds ==
    ASSUME ConstantsFit, IInv, joins
    PROVE  IInv'
<1>1. /\ user' \in Account /\ user'.pw = user.pw /\ user'.by = user.by
      /\ user'.there = user.there /\ user'.verified = user.verified
      /\ UNCHANGED <<links, mail, chooser, sess, req, strange>>
  BY SpacesFit DEF joins, IInv, Account
<1>2. Unregistered(user', links, chooser, sess, req)
  BY <1>1 DEF IInv, Unregistered
<1>3. Holders(user', chooser, req) /\ SessionInv(sess, user')
  BY <1>1 DEF IInv, Holders, SessionInv
<1> QED
  BY <1>1, <1>2, <1>3 DEF IInv

-----------------------------------------------------------------------------
(* The theorems                                                            *)

\* Nobody has a session, a link or a token at first.
LEMMA InitHolds == ASSUME ConstantsFit, Init PROVE IInv
<1>1. /\ user \in Account /\ (user.verified => user.by # "stranger")
      /\ ~user.there => ~user.verified
  <2>1. CASE user = Nobody
    BY <2>1, SpacesFit DEF Nobody, Account, People, Passwords
  <2>2. CASE user = [there |-> TRUE, verified |-> TRUE, by |-> "owner", pw |-> 0, old |-> TRUE,
                     spaces |-> 1]
    BY <2>2, SpacesFit DEF Account, People, Passwords
  <2> QED
    BY <2>1, <2>2 DEF Init
<1>2. /\ chooser \in [Ids -> Token]
      /\ \A i \in Ids : ~chooser[i].live /\ chooser[i].minted = 0
  BY DEF Init, NoToken, Token, Passwords
<1>3. /\ links \in [Ids -> Kinds] /\ mail \subseteq Ids /\ OneReset(links)
      /\ req \in [Procs -> Request \cup {Idle}] /\ strange \in 0..Strangers
  BY DEF Init, Kinds, OneReset, ConstantsFit
<1>4. Unregistered(user, links, chooser, sess, req) /\ Holders(user, chooser, req) /\ SessionInv(sess, user)
  BY <1>1, <1>2 DEF Init, Unregistered, Holders, SessionInv
<1> QED
  BY <1>1, <1>2, <1>3, <1>4 DEF IInv

\* Every step keeps the invariant.
LEMMA NextHolds == ASSUME ConstantsFit, IInv, [Next]_vars PROVE IInv'
<1>1. ASSUME NEW p \in Procs, Working(p) PROVE IInv'
  BY <1>1, RegisterHolds, ResendHolds, ForgotHolds, VerifyHolds, ResetHolds, UpgradeHolds,
     LoginHolds, SelectHolds DEF Working
<1>2. CASE UNCHANGED vars
  BY <1>2 DEF vars, IInv
<1> QED
  BY <1>1, <1>2, BeginHolds, TimeHolds, JoinHolds DEF Next

\* A set of which any two members are the same has at most one.
LEMMA AtMostOne ==
    ASSUME NEW S, \A i, j \in S : i = j
    PROVE  Cardinality(S) <= 1
<1>1. CASE S = {}
  BY <1>1, FS_EmptySet
<1>2. CASE S # {}
  <2>1. PICK i \in S : S = {i}
    BY <1>2
  <2>2. Cardinality({i}) = 1
    BY FS_Singleton
  <2> QED
    BY <2>1, <2>2
<1> QED
  BY <1>1, <1>2

\* The invariant of the account, its links, tokens, sessions and requests is inductive.
THEOREM AccountInvariance == ASSUME ConstantsFit PROVE Spec => []IInv
<1>1. Init => IInv
  BY InitHolds
<1>2. IInv /\ [Next]_vars => IInv'
  BY NextHolds
<1> QED
  BY <1>1, <1>2, PTL DEF Spec

\* Whoever registers somebody else's address never gets a session of that account, every
\* session was obtained with the present password, and the variables keep their types,
\* however verification, recovery, sign-in and selection interleave.
THEOREM StrangersStayOut ==
    ASSUME ConstantsFit
    PROVE  Spec => [](TypeOK /\ StrangerLockedOut /\ SessionsCurrent)
<1>1. IInv => TypeOK /\ StrangerLockedOut /\ SessionsCurrent
  BY DEF IInv, SessionInv, TypeOK, StrangerLockedOut, SessionsCurrent, Account, Kinds, People, Passwords, Spaces
<1> QED
  BY <1>1, AccountInvariance, PTL

\* At most one recovery link of an account is open, and a workspace selection token yields
\* at most one session, however often it is presented.
THEOREM LinksAndTokensAreSingle ==
    ASSUME ConstantsFit
    PROVE  Spec => [](OneOpenReset /\ SelectionOnce)
<1>1. IInv => OneOpenReset
  BY AtMostOne DEF IInv, OneReset, OneOpenReset
<1>2. IInv => SelectionOnce
  BY DEF IInv, Token, SelectionOnce
<1> QED
  BY <1>1, <1>2, AccountInvariance, PTL

\* The password of an account changes only in a step that consumes an open link.
THEOREM PasswordsNeedLinks ==
    ASSUME ConstantsFit
    PROVE  Spec => [][PasswordNeedsLink]_vars
<1>1. IInv /\ [Next]_vars => [PasswordNeedsLink]_vars
  <2> SUFFICES ASSUME IInv, Next, user.there, user'.pw # user.pw
               PROVE  \E i \in Ids : links[i] # "none" /\ links'[i] = "none"
    BY DEF PasswordNeedsLink
  <2>1. \A p \in Procs : ~(registers(p) \/ resends(p) \/ forgets(p) \/ follows(p) \/ signsIn(p) \/ chooses(p))
    BY DEF registers, resends, forgets, follows, signsIn, chooses, Ask
  <2>2. \A p \in Procs : ~(register(p) \/ resend(p) \/ forgot(p) \/ login(p) \/ selectTenant(p))
    BY DEF register, resend, forgot, login, selectTenant
  <2>3. \A p \in Procs : ~upgradeHash(p)
    BY DEF upgradeHash, Upgraded, IInv, Account
  <2>4. ~joins /\ \A i \in Ids : ~expires(i) /\ ~chooserExpires(i)
    BY DEF joins, expires, chooserExpires, IInv, Account
  <2>5. PICK p \in Procs : verifyEmail(p) \/ resetPassword(p)
    BY <2>1, <2>2, <2>3, <2>4 DEF Next, Working
  <2> DEFINE i == req[p].link
  <2>6. i \in Ids
    BY <2>5 DEF verifyEmail, resetPassword, Running, IInv, Holders
  <2>7. CASE verifyEmail(p)
    <3>1. links[i] = "verify" /\ ~user.verified
      BY <2>7 DEF verifyEmail
    <3>2. PICK j \in FreshLink : links' = [Close("reset") EXCEPT ![i] = "none", ![j] = "reset"]
      BY <2>7, <3>1 DEF verifyEmail
    <3>3. j # i
      BY <3>1, <3>2, FreshLinkIsClosed
    <3>4. links'[i] = "none"
      BY <2>6, <3>2, <3>3 DEF Close
    <3> QED
      BY <2>6, <3>1, <3>4
  <2>8. CASE resetPassword(p)
    <3>1. links[i] = "reset" /\ links' = [links EXCEPT ![i] = "none"]
      BY <2>8 DEF resetPassword, LinkOpen
    <3> QED
      BY <2>6, <3>1 DEF IInv
  <2> QED
    BY <2>5, <2>7, <2>8
<1> QED
  BY <1>1, AccountInvariance, PTL DEF Spec
=============================================================================
