------------------------------ MODULE AndroidTunnel ------------------------------
(***************************************************************************)
(* The Android tunnel: run_tun_loop, one thread that moves bytes between   *)
(* the streams of the stack (module Netstack) and the backends, sessions   *)
(* with the nodes.  An iteration polls the stack with at most one packet,  *)
(* handles the events, and then writes to, reads from and again writes to  *)
(* the backends; the loop visits the streams in an arbitrary order.        *)
(*                                                                         *)
(* A backend is what connect_backend returns (module ConnectSession): it   *)
(* may fail, it blocks or breaks at any write, it answers and ends when it *)
(* likes.  A unit of a response is <<backend, number>>.                    *)
(***************************************************************************)
EXTENDS Netstack, Functions

CONSTANTS
    Granted,     \* services with a session grant; the others have a direct target
    IDLE_BACKENDS_PER_SERVICE,
    MaxBackends, \* bound on connections to nodes
    MaxOut,      \* bound on the units of a response
    MaxTun       \* bound on packets waiting in the TUN device

TunnelConstants ==
    /\ NetstackConstants
    /\ Granted \subseteq {Services[i] : i \in DOMAIN Services}
    /\ IDLE_BACKENDS_PER_SERVICE \in Nat \ {0} /\ MaxBackends \in Nat /\ MaxOut \in Nat

VARIABLES
    backends,  \* every backend ever connected
    streams,   \* streams and stream_services: backend of each stream id
    pending,   \* pending_writes
    idle,      \* idle_backends: backends not used yet, by service
    stage,     \* where the iteration is
    events,    \* events of this iteration still to handle
    todo,      \* streams still to visit in this stage
    ended,     \* streams found closed in this stage
    cut        \* connections whose response did not fit into the send buffer

tunnelVars == <<backends, streams, pending, idle, stage, events, todo, ended, cut>>
vars == <<stackVars, tunnelVars>>

ServiceSet == {Services[i] : i \in DOMAIN Services}
Stages == {"poll", "events", "write", "read", "rewrite", "failed", "stopped"}

TypeOK ==
    /\ \A i \in DOMAIN slots : slots[i].stream_id \in 0 .. next_tcp_stream /\ Len(slots[i].tx) <= TxBuffer
    /\ \A s \in DOMAIN streams : streams[s] \in DOMAIN backends /\ s \in 1 .. next_tcp_stream
    /\ DOMAIN pending \subseteq DOMAIN streams
    /\ \A v \in ServiceSet : Len(idle[v]) <= IDLE_BACKENDS_PER_SERVICE
    /\ stage \in Stages /\ todo \cup ended \subseteq DOMAIN streams

Backend(service) == [service |-> service, st |-> "live", got |-> <<>>, out |-> 0, read |-> 0]
Without(f, s) == Restrict(f, DOMAIN f \ {s})

\* warm_up connects an idle backend for each granted service, where it can.
Init ==
    /\ StackInit
    /\ \E warm \in SUBSET Granted :
           LET ready == SelectSeq(Services, LAMBDA v : v \in warm)
           IN  /\ backends = [i \in DOMAIN ready |-> Backend(ready[i])]
               /\ idle = [v \in ServiceSet |-> IF v \in warm THEN <<CHOOSE i \in DOMAIN ready : ready[i] = v>> ELSE <<>>]
    /\ streams = <<>> /\ pending = <<>>
    /\ stage = "poll" /\ events = <<>> /\ todo = {} /\ ended = {} /\ cut = {}

-----------------------------------------------------------------------------
(***************************************************************************)
(* The steps of StreamBackends.                                            *)
(***************************************************************************)
CanConnect == Len(backends) < MaxBackends

\* ensure_idle_backend: connect one more if there is room, and if it succeeds.
ensure_idle_backend(service) ==
    \/ UNCHANGED <<backends, idle>>
    \/ /\ CanConnect /\ service \in Granted
       /\ Len(idle[service]) < IDLE_BACKENDS_PER_SERVICE
       /\ backends' = Append(backends, Backend(service))
       /\ idle' = [idle EXCEPT ![service] = Append(@, Len(backends) + 1)]

\* Seeded bug: the backend of a finished stream goes back to the pool.
remove_and_reuse(s) ==
    /\ streams' = Without(streams, s) /\ pending' = Without(pending, s)
    /\ UNCHANGED backends
    /\ IF s \in DOMAIN streams /\ idle[backends[streams[s]].service] = <<>>
       THEN idle' = [idle EXCEPT ![backends[streams[s]].service] = <<streams[s]>>]
       ELSE UNCHANGED idle

remove_stream(s) ==
    /\ streams' = Without(streams, s) /\ pending' = Without(pending, s)
    /\ IF s \in DOMAIN streams THEN ensure_idle_backend(backends[streams[s]].service)
       ELSE UNCHANGED <<backends, idle>>

\* A failed write or an ended read: the stream goes, and its TCP connection.
Drop(s) == remove_stream(s) /\ slots' = close_tcp(slots, s)

\* write: the backend takes some of the bytes and then blocks, or it breaks.
\* What is written to a backend that has ended is gone.
Written(b, units) == IF backends[b].st = "live" THEN [backends EXCEPT ![b].got = @ \o units] ELSE backends

\* flush_pending_to_writer for stream s, with bytes in its buffer.
Flush(s, bytes) ==
    /\ \E n \in 0 .. Len(bytes) :
           /\ backends' = Written(streams[s], SubSeq(bytes, 1, n))
           /\ pending' = IF n = Len(bytes) THEN Without(pending, s)
                         ELSE (s :> SubSeq(bytes, n + 1, Len(bytes))) @@ pending
    /\ UNCHANGED <<slots, streams, idle, ended>>

-----------------------------------------------------------------------------
(***************************************************************************)
(* The iteration.                                                          *)
(***************************************************************************)
PollStack ==
    /\ stage = "poll"
    /\ Poll(events')
    /\ stage' = "events"
    /\ UNCHANGED <<backends, streams, pending, idle, todo, ended, cut>>

First == Head(events)

\* take_or_connect_backend: a warm backend, or else a new one.
OpenWarm ==
    /\ idle[First.service] # <<>>
    /\ idle' = [idle EXCEPT ![First.service] = Tail(@)]
    /\ streams' = (First.stream_id :> Head(idle[First.service])) @@ streams
    /\ UNCHANGED <<slots, backends>>

OpenNew ==
    /\ idle[First.service] = <<>> /\ CanConnect
    /\ backends' = Append(backends, Backend(First.service))
    /\ streams' = (First.stream_id :> Len(backends) + 1) @@ streams
    /\ UNCHANGED <<slots, idle>>

\* No candidate works: the browser gets an error page and the end.
OpenFails ==
    /\ idle[First.service] = <<>>
    /\ slots' = close_tcp(send_tcp(slots, First.stream_id, <<Page(502)>>), First.stream_id)
    /\ UNCHANGED <<backends, streams, idle>>

\* Connected
open_backend ==
    /\ stage = "events" /\ events # <<>> /\ First.kind = "Connected"
    /\ OpenWarm \/ OpenNew \/ OpenFails
    /\ events' = Tail(events)
    /\ UNCHANGED <<next_tcp_stream, conn, tun, pending, stage, todo, ended, cut>>

\* Received
queue_backend_write ==
    /\ stage = "events" /\ events # <<>> /\ First.kind = "Received"
    /\ LET s == First.stream_id
           before == IF s \in DOMAIN pending THEN pending[s] ELSE <<>>
       IN  \/ /\ s \notin DOMAIN streams
              /\ UNCHANGED <<slots, backends, streams, pending, idle, ended>>
           \/ /\ s \in DOMAIN streams
              /\ Flush(s, before \o First.units) \/ (Drop(s) /\ UNCHANGED ended)
    /\ events' = Tail(events)
    /\ UNCHANGED <<next_tcp_stream, conn, tun, stage, todo, cut>>

\* Seeded bug: the end of a connection is left to the backend.
ignore_closed ==
    /\ stage = "events" /\ events # <<>> /\ First.kind = "Closed"
    /\ events' = Tail(events)
    /\ UNCHANGED <<stackVars, backends, streams, pending, idle, stage, todo, ended, cut>>

\* Closed
handle_closed ==
    /\ stage = "events" /\ events # <<>> /\ First.kind = "Closed"
    /\ remove_stream(First.stream_id)
    /\ events' = Tail(events)
    /\ UNCHANGED <<slots, next_tcp_stream, conn, tun, stage, todo, ended, cut>>

\* One stream of pump_writes.
pump_writes ==
    /\ stage \in {"write", "rewrite"}
    /\ \E s \in todo :
           /\ todo' = todo \ {s}
           /\ \/ Flush(s, pending[s])
              \/ /\ ended' = ended \cup {s}
                 /\ UNCHANGED <<slots, backends, streams, pending, idle>>
    /\ UNCHANGED <<next_tcp_stream, conn, tun, stage, events, cut>>

\* Seeded bug: only a connection open both ways can be sent to.
OpenBothWays(s) == \A i \in SlotOf(slots, s) : slots[i].st = "established"

Sendable(s) == SlotOf(slots, s) # {} /\ \A i \in SlotOf(slots, s) : may_send(slots[i])
Room(s) == TxBuffer - Len(slots[CHOOSE i \in SlotOf(slots, s) : TRUE].tx)

\* One stream of pump_reads: read until the backend has no more, or has ended.
\* The size that send_tcp took is ignored, its error ends the loop.
pump_reads ==
    /\ stage = "read"
    /\ \E s \in todo :
           LET b == streams[s]
               more == backends[b].out - backends[b].read
               units == [i \in 1 .. more |-> <<b, backends[b].read + i>>]
           IN  IF more > 0 /\ ~Sendable(s)
               THEN stage' = "failed" /\ UNCHANGED <<slots, backends, todo, ended, cut>>
               ELSE /\ todo' = todo \ {s}
                    /\ backends' = [backends EXCEPT ![b].read = backends[b].out]
                    /\ slots' = send_tcp(slots, s, units)
                    /\ cut' = IF more > 0 /\ Room(s) < more
                              THEN cut \cup {slots[i].peer : i \in SlotOf(slots, s)} ELSE cut
                    /\ ended' = IF backends[b].st = "live" THEN ended ELSE ended \cup {s}
                    /\ UNCHANGED stage
    /\ UNCHANGED <<next_tcp_stream, conn, tun, streams, pending, idle, events>>

\* After the visits of a stage: the streams found closed.
DropEnded ==
    /\ todo = {}
    /\ \E s \in ended : Drop(s) /\ ended' = ended \ {s}
    /\ UNCHANGED <<next_tcp_stream, conn, tun, stage, events, todo, cut>>

\* Seeded bug: the end of a backend is not read.
OnlyData == {s \in DOMAIN streams : backends[streams[s]].read < backends[streams[s]].out}

\* Streams whose backend has something to read; the others block at once.
Readable == {s \in DOMAIN streams : backends[streams[s]].read < backends[streams[s]].out
                                     \/ backends[streams[s]].st = "ended"}

\* On to the next stage that has a stream to visit.
NextStage ==
    /\ stage \in {"events", "write", "read", "rewrite"}
    /\ events = <<>> /\ todo = {} /\ ended = {}
    /\ LET writes == stage = "events" /\ pending # <<>>
           reads == stage \in {"events", "write"} /\ Readable # {}
           rewrites == stage # "rewrite" /\ pending # <<>>
       IN  \/ writes /\ stage' = "write" /\ todo' = DOMAIN pending
           \/ ~writes /\ reads /\ stage' = "read" /\ todo' = Readable
           \/ ~writes /\ ~reads /\ rewrites /\ stage' = "rewrite" /\ todo' = DOMAIN pending
           \/ ~writes /\ ~reads /\ ~rewrites /\ stage' = "poll" /\ todo' = {}
    /\ UNCHANGED <<stackVars, backends, streams, pending, idle, events, ended, cut>>

\* Runner::stop: the loop ends at its head and everything is dropped.
Stop ==
    /\ stage = "poll"
    /\ stage' = "stopped"
    /\ slots' = <<>> /\ tun' = <<>>
    /\ streams' = <<>> /\ pending' = <<>> /\ idle' = [v \in ServiceSet |-> <<>>]
    /\ UNCHANGED <<next_tcp_stream, conn, backends, events, todo, ended, cut>>

\* The node's side of a backend: a unit of the response, or the end.  The loop
\* meets the node and the browser in single stages, so that their steps can be
\* counted to the head of the loop.
NodeAnswers ==
    /\ stage = "poll"
    /\ \E b \in DOMAIN backends :
           /\ backends[b].st = "live" /\ backends[b].got # <<>> /\ backends[b].out < MaxOut
           /\ backends' = [backends EXCEPT ![b].out = @ + 1]
    /\ UNCHANGED <<stackVars, streams, pending, idle, stage, events, todo, ended, cut>>

NodeEnds ==
    /\ stage = "poll"
    /\ \E b \in DOMAIN backends :
           backends[b].st = "live" /\ backends' = [backends EXCEPT ![b].st = "ended"]
    /\ UNCHANGED <<stackVars, streams, pending, idle, stage, events, todo, ended, cut>>

Browser ==
    /\ stage = "poll" /\ Len(tun) < MaxTun
    /\ \E c \in Conns : BrowserConnects(c) \/ BrowserSends(c) \/ BrowserEnds(c)
    /\ UNCHANGED tunnelVars

Work == \/ open_backend \/ queue_backend_write \/ handle_closed
        \/ pump_writes \/ pump_reads \/ DropEnded \/ NextStage

Next == PollStack \/ Work \/ Stop \/ NodeAnswers \/ NodeEnds \/ Browser

\* The steps of PollStack, which is possible at every head of the loop.
Polled == stage = "poll" /\ stage' = "events"
Spec == Init /\ [][Next]_vars

-----------------------------------------------------------------------------
Request(c, n) == [i \in 1 .. n |-> <<c, i>>]
Sender(b) == backends[b].got[1][1]
Used == {b \in DOMAIN backends : backends[b].got # <<>>}

\* What a node gets over one backend is the request of one connection of the
\* browser to that very service, from its first byte and without gap, and no
\* connection is spread over two backends: whatever slots, stream ids and warm
\* backends were used before (pump_tcp, open_backend, flush_pending_to_writer).
RequestsIntact ==
    /\ \A b \in Used :
           /\ backends[b].got = Request(Sender(b), Len(backends[b].got))
           /\ conn[Sender(b)].dest = <<backends[b].service, HTTPS_PORT>>
    /\ \A b, d \in Used : b # d => Sender(b) # Sender(d)

\* At the head of the loop each stream of the stack has a backend and each
\* backend in use a stream: neither side is forgotten when the other one ends
\* (remove_stream, close_tcp, the event Closed).
StreamsMatchSlots ==
    stage = "poll" =>
        /\ DOMAIN streams \subseteq {slots[i].stream_id : i \in DOMAIN slots}
        /\ \A i \in DOMAIN slots : slots[i].port = HTTPS_PORT => slots[i].stream_id \in DOMAIN streams \cup {0}
        /\ \A i, j \in DOMAIN slots : slots[i].stream_id = slots[j].stream_id /\ slots[i].stream_id # 0 => i = j
        /\ \A s, t \in DOMAIN streams : streams[s] = streams[t] => s = t
        /\ \A i \in DOMAIN slots : slots[i].st = "established" => slots[i].stream_id # 0

\* No error of send_tcp ends the loop, and with it the tunnel, in pump_reads:
\* whenever a backend has data, the socket of its stream can still send, also
\* when the browser has reset or half-closed the connection meanwhile.
TunnelKeepsRunning == stage # "failed"

\* Every connection finds a listening socket
\* (stack_keeps_listening_after_first_https_connection_is_open).
NeverRefused == \A c \in Conns : conn[c].st # "refused"

\* What the browser sees of a response is its beginning, from one backend of its
\* service, or one of the stack's own answers; and the end of the connection
\* follows everything that was read from the backend.  Excepted are responses
\* that overran the send buffer of the socket.
Response(b, n) == [i \in 1 .. n |-> <<b, i>>]
ResponsesIntact ==
    \A c \in Conns \ cut :
        \/ conn[c].got \in {<<>>, <<Page(308)>>, <<Page(502)>>}
        \/ \E b \in Used :
               /\ Sender(b) = c /\ conn[c].got = Response(b, Len(conn[c].got))
               /\ conn[c].eof => Len(conn[c].got) = backends[b].read

\* A connection on port 80 gets nothing but the redirect, and no backend.
RedirectOnly ==
    \A c \in Conns : conn[c].dest[2] = HTTP_PORT =>
        conn[c].got \in {<<>>, <<Page(308)>>} /\ \A b \in Used : Sender(b) # c

Over == stage = "stopped"

\* A backend that has ended is given up, whatever its stream still has to write
\* and in whatever order the streams are visited (pump_reads, remove_stream).
BackendsReleased ==
    \A b \in 1 .. MaxBackends :
        b \in DOMAIN backends /\ backends[b].st = "ended" /\ (\E s \in DOMAIN streams : streams[s] = b)
            ~> Over \/ \A s \in DOMAIN streams : streams[s] # b
=============================================================================
