-------------------------------- MODULE Netstack --------------------------------
(***************************************************************************)
(* MediumStack of crate medium-netstack: the user-space TCP stack that     *)
(* answers the phone's browsers on the virtual addresses of the services.  *)
(* A slot is a TCP socket of smoltcp with the service and port it serves   *)
(* and the stream id it has been given, if any.                            *)
(*                                                                         *)
(* smoltcp itself is external.  Its sockets have the states of TCP, with   *)
(* FIN-WAIT-1, FIN-WAIT-2 and CLOSING as one.  The kernel and the browser  *)
(* at the other end of the TUN device are the environment: connections     *)
(* open, send, half-close and reset as they like, packets keep their order *)
(* and none is lost, because both ends are on one machine.                 *)
(***************************************************************************)
EXTENDS Integers, Sequences, FiniteSets, FiniteSetsExt, SequencesExt

CONSTANTS
    Services,   \* the service catalog, a sequence
    Conns,      \* connections a browser makes
    Dests,      \* the <<service, port>> pairs they go to
    MaxSent,    \* bound on the units of a request
    TxBuffer    \* units the send buffer of a socket holds

HTTP_PORT == 80
HTTPS_PORT == 443
NoConn == "none"

NetstackConstants ==
    /\ Services \in Seq(STRING)
    /\ Dests \subseteq {Services[i] : i \in DOMAIN Services} \X {HTTP_PORT, HTTPS_PORT}
    /\ NoConn \notin Conns
    /\ MaxSent \in Nat /\ TxBuffer \in Nat \ {0}

VARIABLES
    slots,            \* tcp_slots
    next_tcp_stream,
    conn,             \* the browser's end of each connection
    tun               \* packets on their way to the stack

stackVars == <<slots, next_tcp_stream, conn, tun>>

\* An answer of the stack's own, in the place of a unit from backend 0.
Page(status) == <<0, status>>

\* A slot without a stream has stream_id 0.
NewSlot(service, port, st) ==
    [service |-> service, port |-> port, stream_id |-> 0, st |-> st, peer |-> NoConn,
     rx |-> <<>>, tx |-> <<>>]

StackInit ==
    /\ slots = [i \in 1 .. 2 * Len(Services) |->
                   NewSlot(Services[(i + 1) \div 2], IF i % 2 = 1 THEN HTTP_PORT ELSE HTTPS_PORT, "closed")]
    /\ next_tcp_stream = 0
    /\ \E dest \in [Conns -> Dests] :
           conn = [c \in Conns |-> [dest |-> dest[c], st |-> "new", sent |-> 0, got |-> <<>>, eof |-> FALSE]]
    /\ tun = <<>>

-----------------------------------------------------------------------------
(***************************************************************************)
(* The browser's end (external).  A unit of a request is <<connection,     *)
(* number>>; a data packet has one or two of them.                         *)
(***************************************************************************)
Packet(c, kind, units) == [conn |-> c, kind |-> kind, units |-> units]

BrowserConnects(c) ==
    /\ conn[c].st = "new"
    /\ conn' = [conn EXCEPT ![c].st = "syn"]
    /\ tun' = Append(tun, Packet(c, "syn", <<>>))
    /\ UNCHANGED <<slots, next_tcp_stream>>

BrowserSends(c) ==
    /\ conn[c].st = "open"
    /\ \E n \in 1 .. 2 :
           /\ conn[c].sent + n <= MaxSent
           /\ conn' = [conn EXCEPT ![c].sent = @ + n]
           /\ tun' = Append(tun, Packet(c, "data", [i \in 1 .. n |-> <<c, conn[c].sent + i>>]))
    /\ UNCHANGED <<slots, next_tcp_stream>>

BrowserEnds(c) ==
    /\ \/ conn[c].st = "open" /\ \E kind \in {"fin", "rst"} :
              conn' = [conn EXCEPT ![c].st = kind] /\ tun' = Append(tun, Packet(c, kind, <<>>))
       \/ /\ conn[c].st = "fin" /\ ~conn[c].eof
          /\ conn' = [conn EXCEPT ![c].st = "rst"]
          /\ tun' = Append(tun, Packet(c, "rst", <<>>))
    /\ UNCHANGED <<slots, next_tcp_stream>>

-----------------------------------------------------------------------------
(***************************************************************************)
(* smoltcp's sockets (external).                                           *)
(***************************************************************************)
is_active(s) == s.st \notin {"closed", "timewait", "listen"}
may_recv(s) == s.st \in {"established", "finwait"} \/ s.rx # <<>>
may_send(s) == s.st \in {"established", "closewait"}
can_recv(s) == s.rx # <<>>

close(s) ==
    [s EXCEPT !.st = CASE s.st \in {"established", "synrcvd"} -> "finwait"
                       [] s.st = "closewait" -> "lastack"
                       [] s.st = "listen" -> "closed"
                       [] OTHER -> s.st]

\* What a socket takes of the units offered to it.
send_slice(s, units) ==
    [s EXCEPT !.tx = @ \o SubSeq(units, 1, Min({Len(units), TxBuffer - Len(s.tx)}))]

\* A packet for a socket that knows its peer.
Deliver(s, p) ==
    CASE p.kind = "ack" /\ s.st = "synrcvd" -> [s EXCEPT !.st = "established"]
      [] p.kind = "ack" /\ s.st = "lastack" -> [s EXCEPT !.st = "closed", !.peer = NoConn]
      [] p.kind = "data" -> [s EXCEPT !.rx = @ \o p.units]
      [] p.kind = "fin" /\ s.st = "finwait" -> [s EXCEPT !.st = "timewait"]
      [] p.kind = "fin" /\ s.st # "finwait" -> [s EXCEPT !.st = "closewait"]
      [] p.kind = "rst" /\ s.st = "synrcvd" -> [s EXCEPT !.st = "listen", !.peer = NoConn]
      [] p.kind = "rst" /\ s.st # "synrcvd" -> [s EXCEPT !.st = "closed", !.peer = NoConn]
      [] OTHER -> s

\* iface.poll, incoming: a SYN goes to the first socket that listens.
Ingress(sl, p) ==
    LET known == {i \in DOMAIN sl : sl[i].peer = p.conn}
        listening == {i \in DOMAIN sl : sl[i].st = "listen" /\ <<sl[i].service, sl[i].port>> = conn[p.conn].dest}
    IN  IF p.kind = "syn"
        THEN IF listening = {} THEN sl
             ELSE [sl EXCEPT ![Min(listening)].st = "synrcvd", ![Min(listening)].peer = p.conn]
        ELSE [i \in DOMAIN sl |-> IF i \in known THEN Deliver(sl[i], p) ELSE sl[i]]

\* iface.poll, outgoing: the peers in open have room in their window, and the
\* slots in gone have been in TIME-WAIT for long enough.
Egress(sl, open, gone) ==
    [i \in DOMAIN sl |->
        [sl[i] EXCEPT !.tx = IF sl[i].peer \in open THEN <<>> ELSE @,
                      !.st = IF i \in gone THEN "closed" ELSE @,
                      !.peer = IF i \in gone THEN NoConn ELSE @]]

\* What a connection's end sees of it.
Sees(c, sl, open) ==
    LET of == {i \in DOMAIN sl : sl[i].peer = c}
        s == sl[CHOOSE i \in of : TRUE]
        all == c \in open \/ s.tx = <<>>
    IN  IF of = {} THEN conn[c]
        ELSE [conn[c] EXCEPT !.st = IF @ = "syn" THEN "open" ELSE @,
                             !.got = IF c \in open THEN @ \o s.tx ELSE @,
                             !.eof = @ \/ (s.st \in {"finwait", "timewait", "lastack"} /\ all)]

\* The kernel acknowledges a SYN, and a FIN after its own.
Acks(sl, seen) ==
    LET due(s) == /\ s.peer # NoConn
                  /\ \/ conn[s.peer].st = "syn"
                     \/ s.st = "lastack" /\ seen[s.peer].eof /\ ~conn[s.peer].eof
    IN  FoldLeft(LAMBDA acks, s : IF due(s) THEN Append(acks, Packet(s.peer, "ack", <<>>)) ELSE acks,
                 <<>>, sl)

-----------------------------------------------------------------------------
(***************************************************************************)
(* MediumStack.                                                            *)
(***************************************************************************)
Relisten(sl) ==
    [i \in DOMAIN sl |-> IF sl[i].st = "closed"
                         THEN [sl[i] EXCEPT !.st = "listen", !.rx = <<>>, !.tx = <<>>]
                         ELSE sl[i]]

HasListener(sl, service, port) ==
    \E i \in DOMAIN sl : /\ sl[i].service = service /\ sl[i].port = port
                         /\ sl[i].stream_id = 0 /\ sl[i].st = "listen"

\* Closed slots listen again; then a slot is added for every service and port
\* that has no free listener.
ensure_tcp_listeners(sl) ==
    LET open == Relisten(sl)
        wanted == [i \in 1 .. 2 * Len(Services) |->
                      NewSlot(Services[(i + 1) \div 2], IF i % 2 = 1 THEN HTTP_PORT ELSE HTTPS_PORT, "listen")]
    IN  open \o SelectSeq(wanted, LAMBDA w : ~HasListener(open, w.service, w.port))

\* The connection on port 80 gets its answer with the first request bytes.
redirect_http_to_https(s) ==
    IF ~can_recv(s) THEN s
    ELSE LET read == [s EXCEPT !.rx = <<>>]
         IN  close(IF may_send(read) THEN send_slice(read, <<Page(308)>>) ELSE read)

StreamNumber(next) == next + 1

ForBackend(s) == s.port = HTTPS_PORT

Event(kind, s, units) ==
    [kind |-> kind, stream_id |-> s.stream_id, service |-> s.service, units |-> units]

\* What the socket has received, at most n units.
poll_socket(s, n) == IF can_recv(s) THEN <<Event("Received", s, SubSeq(s.rx, 1, n))>> ELSE <<>>

\* One slot of pump_tcp.  recv hands out the bytes up to the end of the ring
\* buffer: all of them, or with wrap only the first unit.  What is left is then
\* at the start of the buffer, so that the next recv takes all of it.
PumpSlot(slot, next, wrap) ==
    LET opens == slot.st = "established" /\ slot.stream_id = 0
        s == IF opens THEN [slot EXCEPT !.stream_id = StreamNumber(next)] ELSE slot
        n == IF wrap THEN 1 ELSE Len(s.rx)
        read == IF ~ForBackend(s) THEN redirect_http_to_https(s)
                ELSE IF can_recv(s) THEN [s EXCEPT !.rx = SubSeq(@, n + 1, Len(@))] ELSE s
        over == ~is_active(read) /\ ~may_recv(read)
        https(events) == IF ForBackend(s) THEN events ELSE <<>>
    IN  IF s.stream_id = 0 THEN [slot |-> slot, next |-> next, events |-> <<>>]
        ELSE [slot |-> IF over THEN [read EXCEPT !.stream_id = 0] ELSE read,
              next |-> IF opens THEN next + 1 ELSE next,
              events |-> (IF opens THEN https(<<Event("Connected", s, <<>>)>>) ELSE <<>>)
                         \o https(poll_socket(s, n))
                         \o (IF over THEN <<Event("Closed", s, <<>>)>> ELSE <<>>)]

pump_tcp(sl, next, wrap) ==
    LET after[i \in 0 .. Len(sl)] ==
            IF i = 0 THEN [slots |-> sl, next |-> next, events |-> <<>>]
            ELSE LET was == after[i - 1]
                     now == PumpSlot(was.slots[i], was.next, wrap)
                 IN  [slots |-> [was.slots EXCEPT ![i] = now.slot], next |-> now.next,
                      events |-> was.events \o now.events]
    IN  after[Len(sl)]

\* The loop reads one packet before each poll.
Taken == IF tun = <<>> THEN <<>> ELSE <<Head(tun)>>

\* poll, which returns events.
Poll(events) ==
    LET listening == ensure_tcp_listeners(slots)
        arrived == FoldLeft(Ingress, listening, Taken)
        refused(c) == /\ \E i \in DOMAIN Taken : Taken[i] = Packet(c, "syn", <<>>)
                      /\ \A i \in DOMAIN arrived : arrived[i].peer # c
        wraps == \E i \in DOMAIN arrived : Len(arrived[i].rx) > 1 /\ listening[i].rx = <<>>
        expiring == {i \in DOMAIN slots : slots[i].st = "timewait"}
    IN  \E wrap \in (IF wraps THEN BOOLEAN ELSE {FALSE}) :
        LET pumped == pump_tcp(arrived, next_tcp_stream, wrap)
            waiting == {pumped.slots[i].peer : i \in {j \in DOMAIN pumped.slots : pumped.slots[j].tx # <<>>}}
        IN  \E open \in SUBSET {c \in waiting \ {NoConn} : conn[c].st # "rst"}, gone \in SUBSET expiring :
                /\ conn' = [c \in Conns |-> IF refused(c) THEN [conn[c] EXCEPT !.st = "refused"]
                                            ELSE Sees(c, pumped.slots, open)]
                /\ slots' = Egress(pumped.slots, open, gone)
                /\ next_tcp_stream' = pumped.next
                /\ tun' = SubSeq(tun, Len(Taken) + 1, Len(tun)) \o Acks(pumped.slots, conn')
                /\ events = pumped.events

\* The slot of a stream, as a set.
SlotOf(sl, id) == {i \in DOMAIN sl : sl[i].stream_id = id}

send_tcp(sl, id, units) ==
    [i \in DOMAIN sl |-> IF i \in SlotOf(sl, id) THEN send_slice(sl[i], units) ELSE sl[i]]

\* Seeded bug: the connection is aborted.
abort_tcp(sl, id) ==
    [i \in DOMAIN sl |-> IF i \in SlotOf(sl, id) THEN [close(sl[i]) EXCEPT !.stream_id = 0, !.tx = <<>>] ELSE sl[i]]

close_tcp(sl, id) ==
    [i \in DOMAIN sl |-> IF i \in SlotOf(sl, id) THEN [close(sl[i]) EXCEPT !.stream_id = 0] ELSE sl[i]]
=============================================================================
