----------------------------- MODULE AgentFrames -----------------------------
(***************************************************************************)
(* The frames an agent sends over its WebSockets (src/server/ws.ts): frames*)
(* that arrive before the lifecycle admission are captured and replayed,   *)
(* later ones pass the agent's token bucket and its in-flight ceiling and  *)
(* then run concurrently.  Bucket and ceiling belong to the agent, not to  *)
(* the connection, and outlive reconnects.                                 *)
(***************************************************************************)
EXTENDS Integers, FiniteSets, SequencesExt

CONSTANTS
  Socks,        \* connections of one agent
  MaxFrames,    \* bound: frames sent on one connection
  Sizes,        \* frame sizes, in units of the byte limit
  MaxBytes,     \* MAX_WS_MESSAGE_BYTES
  MaxInFlight,  \* MAX_WS_INFLIGHT_MESSAGES_PER_AGENT
  Capacity,     \* WS_MESSAGE_BUCKET_CAPACITY
  Refill,       \* WS_MESSAGE_REFILL_PER_SECOND
  IdleTtl,      \* WS_BUCKET_IDLE_TTL_MS, in seconds
  MaxTime       \* bound on the seconds that pass

RefillFitsTtl == Capacity \in Nat /\ Refill \in Nat \ {0} /\ IdleTtl * Refill >= Capacity

VARIABLES
  sock,      \* each connection: [st, sent, early, bytes, handled]
  bucket,    \* the agent's limiter: [there, tokens, idle]
  inFlight,  \* wsMessageInFlightByAgentId
  running,   \* frames whose handler has not settled
  clock,     \* seconds since the agent's first frame
  admitted   \* history: frames let through so far

vars == <<sock, bucket, inFlight, running, clock, admitted>>

Unborn == [st |-> "none", sent |-> 0, early |-> <<>>, bytes |-> 0, handled |-> <<>>]
NoBucket == [there |-> FALSE, tokens |-> Capacity, idle |-> 0]

Init ==
  /\ sock = [s \in Socks |-> Unborn]
  /\ bucket = NoBucket
  /\ inFlight = 0 /\ running = {} /\ clock = 0 /\ admitted = 0

-----------------------------------------------------------------------------
\* The handshake is complete; the lifecycle admission has begun.
handshake(s) ==
  /\ sock[s].st = "none"
  /\ sock' = [sock EXCEPT ![s].st = "admitting"]
  /\ UNCHANGED <<bucket, inFlight, running, clock, admitted>>

\* captureEarlyMessage: keep the frame, or drop everything and close with 1009.
captureEarlyMessage(s, size) ==
  LET c == sock[s]
      tooMuch == size > MaxBytes \/ c.bytes + size > MaxBytes \/ Len(c.early) >= MaxInFlight
  IN /\ c.st = "admitting" /\ c.sent < MaxFrames
     /\ sock' = [sock EXCEPT ![s] = IF tooMuch
          THEN [c EXCEPT !.sent = @ + 1, !.early = <<>>, !.st = "closed"]
          ELSE [c EXCEPT !.sent = @ + 1, !.early = Append(@, c.sent + 1), !.bytes = @ + size]]
     /\ UNCHANGED <<bucket, inFlight, running, clock, admitted>>

\* A variant of the code that the properties below must reject.
CeilingAfterwards(n) == n <= MaxInFlight

belowCeiling(n) == n < MaxInFlight

\* The "message" handler of the connection, for frame f, on the limiter state d.
\* d is [tokens, inFlight, started, closed, handled]; a refused frame closes the socket.
onMessage(s, f, d) ==
  IF d.tokens < 1 THEN [d EXCEPT !.closed = TRUE]
  ELSE IF ~belowCeiling(d.inFlight) THEN [d EXCEPT !.tokens = @ - 1, !.closed = TRUE]
  ELSE [d EXCEPT !.tokens = @ - 1, !.inFlight = @ + 1, !.started = @ \cup {<<s, f>>},
                 !.handled = Append(@, f)]

State(s) == [tokens |-> bucket.tokens, inFlight |-> inFlight, started |-> {},
             closed |-> FALSE, handled |-> sock[s].handled]

\* Apply the outcome of one or several frames.
settle(s, d, c) ==
  /\ bucket' = [there |-> TRUE, tokens |-> d.tokens, idle |-> 0]
  /\ inFlight' = d.inFlight
  /\ running' = running \cup d.started
  /\ admitted' = admitted + Cardinality(d.started)
  /\ sock' = [sock EXCEPT ![s] = [c EXCEPT !.handled = d.handled, !.st = IF d.closed THEN "closed" ELSE "connected"]]

\* A variant of the code that the properties below must reject.
LateFirst(early) == Reverse(early)

\* earlyMessages.splice(0): in the order of arrival.
replayed(early) == early

\* verifyAndTrackAgentSocket accepted: "connection", then the captured frames, in one
\* turn of the event loop.
lifecycleAccepted(s) ==
  LET d == FoldLeft(LAMBDA acc, f : onMessage(s, f, acc), State(s), replayed(sock[s].early))
  IN /\ sock[s].st = "admitting"
     /\ IF sock[s].early = <<>>
        THEN sock' = [sock EXCEPT ![s].st = "connected"] /\ UNCHANGED <<bucket, inFlight, running, admitted>>
        ELSE settle(s, d, [sock[s] EXCEPT !.early = <<>>])
     /\ UNCHANGED clock

\* The admission refused the socket, its transaction failed, or the peer left first.
lifecycleRefused(s) ==
  /\ sock[s].st = "admitting"
  /\ sock' = [sock EXCEPT ![s].st = "closed", ![s].early = <<>>]
  /\ UNCHANGED <<bucket, inFlight, running, clock, admitted>>

message(s) ==
  /\ sock[s].st = "connected" /\ sock[s].sent < MaxFrames
  /\ settle(s, onMessage(s, sock[s].sent + 1, State(s)), [sock[s] EXCEPT !.sent = @ + 1])
  /\ UNCHANGED clock

\* A variant of the code that the properties below must reject.
FinallySkipsOne == inFlight

\* finally: the entry is counted down whatever handleAgentMessage did.
afterHandler == inFlight - 1

\* handleAgentMessage settled: an acknowledgement recorded, ignored, or failed.
handlerSettles(x) ==
  /\ x \in running
  /\ running' = running \ {x}
  /\ inFlight' = afterHandler
  /\ UNCHANGED <<sock, bucket, clock, admitted>>

\* A variant of the code that the properties below must reject.
BucketPerConnection == NoBucket

\* Closing a connection leaves the agent's limiter alone.
bucketAfterClose == bucket

connectionCloses(s) ==
  /\ sock[s].st = "connected"
  /\ sock' = [sock EXCEPT ![s].st = "closed"]
  /\ bucket' = bucketAfterClose
  /\ UNCHANGED <<inFlight, running, clock, admitted>>

\* A second passes.  The refill consume() would compute is granted here.
second ==
  /\ clock < MaxTime
  /\ clock' = clock + 1
  /\ bucket' = IF bucket.there
               THEN [bucket EXCEPT !.tokens = Min({Capacity, @ + Refill}), !.idle = @ + 1]
               ELSE bucket
  /\ UNCHANGED <<sock, inFlight, running, admitted>>

\* pruneIdleWsBuckets: forget a limiter nobody used for longer than the TTL.
pruneIdleWsBuckets ==
  /\ bucket.there /\ bucket.idle > IdleTtl
  /\ bucket' = NoBucket
  /\ UNCHANGED <<sock, inFlight, running, clock, admitted>>

Next ==
  \/ \E s \in Socks : \/ handshake(s) \/ lifecycleAccepted(s) \/ lifecycleRefused(s)
                      \/ message(s) \/ connectionCloses(s)
                      \/ \E size \in Sizes : captureEarlyMessage(s, size)
  \/ \E x \in running : handlerSettles(x)
  \/ second \/ pruneIdleWsBuckets

Spec == Init /\ [][Next]_vars

-----------------------------------------------------------------------------
\* The type invariant of the frame path.
TypeOK ==
  /\ bucket.tokens \in 0..Capacity /\ inFlight \in 0..MaxInFlight
  /\ \A s \in Socks : /\ sock[s].st \in {"none", "admitting", "connected", "closed"}
                      /\ sock[s].bytes <= MaxBytes /\ Len(sock[s].early) <= MaxInFlight

\* The ceiling counts what really runs, across all the agent's connections and after
\* they are gone, so that it neither leaks nor lets more through.
InFlightExact == inFlight = Cardinality(running)

\* Reconnecting gains nothing: however many connections the agent opens, the frames let
\* through stay within one bucket plus what time has refilled.
RateHolds == admitted <= Capacity + clock * Refill

\* Captured acknowledgements are neither lost nor overtaken: on a connection that was
\* admitted and not closed for a limit, the frames handled are all the frames sent, in
\* the order they were sent.
EarlyFramesKept ==
  \A s \in Socks : sock[s].st = "connected" => sock[s].handled = [i \in 1..sock[s].sent |-> i]
\* Frames are counted, limited and handled in order, across the agent's connections.
FramesBounded == TypeOK /\ InFlightExact /\ RateHolds /\ EarlyFramesKept

=============================================================================
