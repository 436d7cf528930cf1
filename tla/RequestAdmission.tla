-------------------------- MODULE RequestAdmission ---------------------------
(***************************************************************************)
(* The guard in front of Next.js (src/server/request-guard.ts as           *)
(* server.ts calls it): it screens every API request, reserves the         *)
(* declared bytes of payload-bearing ones against two pools until the      *)
(* response is over, and answers a refused request while it drains a       *)
(* bounded part of the abandoned body.                                     *)
(*                                                                         *)
(* A request is what the guard looks at: its kind, whether its cookies and *)
(* origin pass, its declared length (NoLength, Malformed or a number) and  *)
(* whether a signed session puts it in the larger pool.                    *)
(***************************************************************************)
EXTENDS Integers, FiniteSets, FiniteSetsExt

CONSTANTS
  Reqs,        \* requests handled at once
  MaxBytes,    \* the ceiling of one body
  PoolMax,     \* PoolMax[authenticated]: the concurrent budget of the pool
  DrainMax     \* REJECT_DRAIN_MAX_BYTES

NoLength == -1
Malformed == -2

BudgetsAreNatural ==
  MaxBytes \in Nat /\ DrainMax \in Nat \ {0} /\ \A a \in BOOLEAN : PoolMax[a] \in Nat

VARIABLES
  req,       \* each request: [at, kind, auth, len, te, sameOrigin]
  reserved,  \* reservedAuthBytes and reservedUnauthBytes
  resp,      \* each response: "none" | "headers" | "ended" | "finished" | "closed"
  drain,     \* each refused request: [read, teardown, destroyed]
  timer      \* each refused request's drain timer is armed

vars == <<req, reserved, resp, drain, timer>>

Kinds == {"page", "read", "mutation", "payload"}
Fresh == [at |-> "none", kind |-> "page", auth |-> FALSE, len |-> NoLength, te |-> FALSE, sameOrigin |-> TRUE]
NoDrain == [read |-> 0, teardown |-> FALSE, destroyed |-> FALSE]

Init ==
  /\ req = [r \in Reqs |-> Fresh]
  /\ reserved = [a \in BOOLEAN |-> 0]
  /\ resp = [r \in Reqs |-> "none"]
  /\ drain = [r \in Reqs |-> NoDrain]
  /\ timer = [r \in Reqs |-> FALSE]

-----------------------------------------------------------------------------
\* A variant of the code that the properties below must reject.
ReserveUpToLast(bytes, auth) == reserved[auth] < PoolMax[auth]

\* reserve: the whole declared body must fit.
canReserve(bytes, auth) == reserved[auth] + bytes <= PoolMax[auth]

\* A variant of the code that the properties below must reject.
ChunkedPasses(q) ==
  CASE q.kind \in {"page", "read"} -> "pass"
    [] ~q.sameOrigin -> "403"
    [] q.len = NoLength -> IF q.kind = "payload" /\ q.te THEN "411" ELSE "pass"
    [] q.len = Malformed \/ q.len > MaxBytes -> "413"
    [] q.kind = "mutation" -> "pass"
    [] OTHER -> IF canReserve(q.len, q.auth) THEN "reserve" ELSE "503"

\* guardApiRequest, in the order of its checks.
verdict(q) ==
  CASE q.kind \in {"page", "read"} -> "pass"
    [] ~q.sameOrigin -> "403"
    [] q.len = NoLength -> IF q.te THEN "411" ELSE "pass"
    [] q.len = Malformed \/ q.len > MaxBytes -> "413"
    [] q.kind = "mutation" -> "pass"
    [] OTHER -> IF canReserve(q.len, q.auth) THEN "reserve" ELSE "503"

\* guardApiRequest passes the request on, holding its bytes when it carries a payload.
admit(r, q) ==
  /\ req[r].at = "none" /\ verdict(q) \in {"pass", "reserve"}
  /\ req' = [req EXCEPT ![r] = [q EXCEPT !.at = verdict(q)]]
  /\ reserved' = IF verdict(q) = "reserve" THEN [reserved EXCEPT ![q.auth] = @ + q.len] ELSE reserved
  /\ UNCHANGED <<resp, drain, timer>>

\* rejectRequest: status line, headers and payload go out, the body is drained.
rejectRequest(r, q) ==
  /\ req[r].at = "none" /\ verdict(q) \notin {"pass", "reserve"}
  /\ req' = [req EXCEPT ![r] = [Fresh EXCEPT !.at = "refused"]]
  /\ resp' = [resp EXCEPT ![r] = "headers"]
  /\ timer' = [timer EXCEPT ![r] = TRUE]
  /\ UNCHANGED <<reserved, drain>>

-----------------------------------------------------------------------------
\* The bounded drain.

\* A variant of the code that the properties below must reject.
ClearTimerOnly(r) == timer' = [timer EXCEPT ![r] = FALSE] /\ UNCHANGED resp

\* finishResponse: the first caller clears the timer and ends the response.
finishResponse(r) ==
  /\ resp' = [resp EXCEPT ![r] = IF @ = "headers" THEN "ended" ELSE @]
  /\ timer' = [timer EXCEPT ![r] = FALSE]

\* A variant of the code that the properties below must reject.
DestroyNow == [read |-> DrainMax, teardown |-> TRUE, destroyed |-> TRUE]

\* Another variant that the properties below must reject.
CountPastLimit == [read |-> DrainMax + 1, teardown |-> TRUE, destroyed |-> FALSE]

\* The overflow registers the teardown for after the response.
Overflowed == [read |-> DrainMax, teardown |-> TRUE, destroyed |-> FALSE]

drainData(r) ==
  /\ req[r].at = "refused" /\ ~drain[r].destroyed /\ drain[r].read < DrainMax
  /\ IF drain[r].read + 1 = DrainMax
     THEN /\ drain' = [drain EXCEPT ![r] = IF resp[r] \in {"headers", "ended"} THEN Overflowed ELSE [@ EXCEPT !.read = DrainMax]]
          /\ finishResponse(r)
     ELSE /\ drain' = [drain EXCEPT ![r].read = @ + 1]
          /\ UNCHANGED <<resp, timer>>
  /\ UNCHANGED <<req, reserved>>

\* "end" or "error" of the request stream: the response ends, nothing is torn down.
drainEnds(r) ==
  /\ req[r].at = "refused" /\ resp[r] = "headers"
  /\ finishResponse(r)
  /\ UNCHANGED <<req, reserved, drain>>

drainTimeout(r) ==
  /\ timer[r]
  /\ finishResponse(r)
  /\ drain' = [drain EXCEPT ![r].teardown = TRUE]
  /\ UNCHANGED <<req, reserved>>

-----------------------------------------------------------------------------
\* The end of a response.

\* A variant of the code that the properties below must reject.
ReleaseOnFinishOnly(r) == IF req[r].at = "reserve" /\ resp[r] = "ended" THEN req[r].len ELSE 0

\* releaseOnce: the first of "finish" and "close" gives the bytes back.
releaseOnce(r) == IF req[r].at = "reserve" THEN req[r].len ELSE 0

\* release: Math.max(0, ...).
release(r) == [reserved EXCEPT ![req[r].auth] = Max({0, @ - releaseOnce(r)})]

\* The route (or server.ts on an exception) ends the response.
routeResponds(r) ==
  /\ req[r].at \in {"pass", "reserve"} /\ resp[r] = "none"
  /\ resp' = [resp EXCEPT ![r] = "ended"]
  /\ UNCHANGED <<req, reserved, drain, timer>>

Over(r) == IF req[r].at = "reserve" THEN [Fresh EXCEPT !.at = "released"] ELSE req[r]

\* "finish": the response was handed to the socket; a registered teardown runs.
finish(r) ==
  /\ resp[r] = "ended"
  /\ resp' = [resp EXCEPT ![r] = "finished"]
  /\ reserved' = release(r)
  /\ req' = [req EXCEPT ![r] = Over(r)]
  /\ drain' = [drain EXCEPT ![r].destroyed = drain[r].teardown]
  /\ UNCHANGED timer

\* "close": after the response, or at any time because the client left.
close(r) ==
  /\ req[r].at # "none" /\ resp[r] # "closed"
  /\ resp' = [resp EXCEPT ![r] = "closed"]
  /\ reserved' = release(r)
  /\ req' = [req EXCEPT ![r] = Over(r)]
  /\ UNCHANGED <<drain, timer>>

\* The slot is reused for a later request of the same server.
again(r) ==
  /\ resp[r] = "closed" /\ ~timer[r]
  /\ req' = [req EXCEPT ![r] = Fresh] /\ resp' = [resp EXCEPT ![r] = "none"]
  /\ drain' = [drain EXCEPT ![r] = NoDrain]
  /\ UNCHANGED <<reserved, timer>>

Shape == {q \in [at: {"none"}, kind: Kinds, auth: BOOLEAN, len: {NoLength, Malformed} \cup 1..MaxBytes + 1, te: BOOLEAN, sameOrigin: BOOLEAN] :
            /\ q.te => q.len = NoLength
            /\ ~q.sameOrigin => q.kind \in {"mutation", "payload"}
            /\ q.auth => q.kind = "payload"
            /\ q.len # NoLength => q.kind \in {"mutation", "payload"}}

Arrives(r) == \E q \in Shape : admit(r, q) \/ rejectRequest(r, q)
Drains(r) == drainData(r) \/ drainEnds(r) \/ drainTimeout(r)

Next == \E r \in Reqs : Arrives(r) \/ Drains(r) \/ routeResponds(r) \/ finish(r) \/ close(r) \/ again(r)

Spec == Init /\ [][Next]_vars

-----------------------------------------------------------------------------
\* The type invariant of the guard.
TypeOK ==
  /\ \A a \in BOOLEAN : reserved[a] \in Nat
  /\ \A r \in Reqs : /\ req[r].at \in {"none", "pass", "reserve", "released", "refused"}
                     /\ resp[r] \in {"none", "headers", "ended", "finished", "closed"}
                     /\ drain[r].read \in 0..DrainMax

\* The pools are exact: what is reserved is what the payload requests still in service
\* declared, and it never passes the pool's limit, however responses end.
PoolsExact ==
  \A a \in BOOLEAN :
    /\ reserved[a] = MapThenSumSet(LAMBDA r : req[r].len, {x \in Reqs : req[x].at = "reserve" /\ req[x].auth = a})
    /\ reserved[a] <= PoolMax[a]

\* Every body that reaches a mutating route has a known, bounded length: no transfer
\* encoding passes the guard, on payload routes and on all the others.
BodiesBounded ==
  \A r \in Reqs : (req[r].at \in {"pass", "reserve"} /\ req[r].kind \in {"mutation", "payload"}) =>
    ~req[r].te /\ req[r].len <= MaxBytes

\* A refused client sees its answer: the request is destroyed only once the response was
\* handed to the socket (or the client is gone).
AnswerBeforeTeardown ==
  \A r \in Reqs : drain[r].destroyed => resp[r] \in {"finished", "closed"}

\* What the guard of server.ts admits is counted, bounded and answered.
AdmissionExact == TypeOK /\ PoolsExact /\ BodiesBounded /\ AnswerBeforeTeardown

\* A refused request does not linger: its response ends although the client keeps
\* sending, or stops sending, for ever.
RefusalEnds == \A r \in Reqs : (req[r].at = "refused") ~> (resp[r] \in {"finished", "closed"})
=============================================================================
