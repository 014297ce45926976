------------------------------- MODULE NodeSession -------------------------------
(***************************************************************************)
(* A session at the node: handle_connection for a TCP carrier and          *)
(* handle_wss_connection for a WebSocket that the relay joins to the       *)
(* client's.  The node reads the session hello, checks its token, ends TLS *)
(* if the service asks for it, reads an HTTP request before it connects to *)
(* the target, answers with a page of its own when there is no answer, and *)
(* else copies in both directions.                                         *)
(*                                                                         *)
(* What a client sends is a sequence of items: two for the hello, of which *)
(* the second has its newline, one for the ClientHello of TLS, and then    *)
(* the units of the request.  Over a WebSocket they come in frames.  TLS   *)
(* is a library: once it has the ClientHello it works or fails.            *)
(***************************************************************************)
EXTENDS Integers, Sequences, SequencesExt

CONSTANTS
    Setups,   \* the sessions: [carrier, mode, target, claims, request]
    MaxBuffer \* units read_http_request_for_proxy takes (64 KiB)

VARIABLES
    setup,   \* this session
    client,  \* [sent, closed, got, eof]
    wsUp,    \* frames on their way to the relay and the node
    stage,   \* where the handler is
    inbound, \* items to be read by the handler; closed when the client has ended
    buffer,  \* items read so far
    outb,    \* the duplex towards tcp_to_ws
    down,    \* on its way to the client
    svc,     \* the target: [conn, got, eof, sent, closed, reset, queue]
    over     \* directions that copy_bidirectional has finished

vars == <<setup, client, wsUp, stage, inbound, buffer, outb, down, svc, over>>

Hello(i) == <<"hello", i>>
ClientHello == <<"tls", 1>>
Unit(i) == <<"unit", i>>
Answer(i) == <<"answer", i>>
Page(status) == <<"page", status>>
End == <<"end", 0>>

Wss == setup.carrier = "wss"
Http == setup.mode = "http"
Request == [i \in 1 .. setup.request.len |-> Unit(i)]
Preface == <<Hello(1), Hello(2)>> \o (IF setup.mode = "plain" THEN <<>> ELSE <<ClientHello>>)
Stream == Preface \o Request

Init ==
    /\ setup \in Setups
    /\ client = [sent |-> 0, closed |-> FALSE, got |-> <<>>, eof |-> FALSE]
    /\ stage = "hello" /\ wsUp = <<>> /\ inbound = <<>> /\ buffer = <<>> /\ outb = <<>> /\ down = <<>>
    /\ svc = [conn |-> FALSE, got |-> <<>>, eof |-> FALSE, sent |-> 0, closed |-> FALSE, reset |-> FALSE, queue |-> <<>>]
    /\ over = {}

-----------------------------------------------------------------------------
(***************************************************************************)
(* The client (external), and the relay between two WebSockets.            *)
(***************************************************************************)
\* The request waits for the TLS handshake.
ClientSends ==
    /\ ~client.closed /\ ~client.eof /\ stage # "done"
    /\ \E n \in 1 .. (IF Wss THEN 3 ELSE 1) :
           LET items == SubSeq(Stream, client.sent + 1, client.sent + n)
           IN  /\ client.sent + n <= Len(IF setup.mode # "plain" /\ stage \in {"hello", "tls"} THEN Preface ELSE Stream)
               /\ client' = [client EXCEPT !.sent = @ + n]
               /\ IF Wss THEN wsUp' = Append(wsUp, items) /\ UNCHANGED inbound
                  ELSE inbound' = inbound \o items /\ UNCHANGED wsUp
    /\ UNCHANGED <<setup, stage, buffer, outb, down, svc, over>>

ClientCloses ==
    /\ ~client.closed /\ stage # "done" /\ (Wss => ~client.eof)
    /\ client' = [client EXCEPT !.closed = TRUE]
    /\ IF Wss THEN wsUp' = Append(wsUp, <<End>>) /\ UNCHANGED inbound
       ELSE inbound' = Append(inbound, End) /\ UNCHANGED wsUp
    /\ UNCHANGED <<setup, stage, buffer, outb, down, svc, over>>

\* What comes back, through forward_wss_bidirectional for a WebSocket.
ClientReceives ==
    /\ down # <<>> /\ ~client.eof
    /\ down' = Tail(down)
    /\ client' = IF Head(down) = End THEN [client EXCEPT !.eof = TRUE]
                 ELSE [client EXCEPT !.got = Append(@, Head(down))]
    /\ UNCHANGED <<setup, wsUp, stage, inbound, buffer, outb, svc, over>>

\* A client that closes ends both directions at the relay.
RelayEnds ==
    /\ Wss /\ client.closed /\ ~client.eof
    /\ client' = [client EXCEPT !.eof = TRUE] /\ down' = <<>>
    /\ UNCHANGED <<setup, wsUp, stage, inbound, buffer, outb, svc, over>>

-----------------------------------------------------------------------------
(***************************************************************************)
(* The end of the handler.  A connection still delivers what has been      *)
(* written, unless it is reset because something was left unread; the      *)
(* select! of handle_wss_connection ends with any of its branches, and     *)
(* what is in the duplex is dropped.                                       *)
(***************************************************************************)
Finish(units) ==
    /\ stage' = "done"
    /\ LET written == IF Wss THEN down ELSE down \o units
           unread == IF Wss THEN wsUp # <<>> ELSE inbound \notin {<<>>, <<End>>}
       IN  \E n \in (IF unread THEN 0 .. Len(written) ELSE {Len(written)}) :
               down' = SubSeq(written, 1, n) \o <<End>>
    /\ inbound' = <<>> /\ outb' = <<>> /\ wsUp' = <<>>
    /\ svc' = [svc EXCEPT !.eof = TRUE, !.queue = <<>>]

Emit(units) ==
    IF Wss THEN outb' = outb \o units /\ UNCHANGED down ELSE down' = down \o units /\ UNCHANGED outb

\* The items behind the hello in the frames read so far: initial_payload.
Remaining(items) == SubSeq(items, 3, Len(items))

\* The hello parses, its token is valid, it names the service of the hello and
\* this node, and the service exists (handle_connection_with_hello).
Accepted == setup.claims = "ok"

AfterHello ==
    IF ~Accepted THEN Finish(<<>>) /\ UNCHANGED buffer
    ELSE /\ stage' = (IF setup.mode = "plain" THEN "connect" ELSE "tls")
         /\ inbound' = (IF Wss THEN Remaining(buffer \o wsUp[1]) ELSE Tail(inbound))
         /\ wsUp' = (IF Wss THEN Tail(wsUp) ELSE wsUp)
         /\ buffer' = <<>>
         /\ UNCHANGED <<outb, down, svc>>

\* read_session_hello reads up to the newline, byte by byte.
ReadHello ==
    /\ stage = "hello" /\ ~Wss /\ inbound # <<>>
    /\ \/ inbound[1] = Hello(1) /\ inbound' = Tail(inbound) /\ UNCHANGED <<stage, wsUp, outb, down, svc, buffer>>
       \/ inbound[1] = Hello(2) /\ AfterHello
       \/ inbound[1] = End /\ Finish(<<>>) /\ UNCHANGED buffer
    /\ UNCHANGED <<setup, client, over>>

\* read_wss_session_hello puts frames together until one has the newline.
ReadWssHello ==
    /\ stage = "hello" /\ wsUp # <<>>
    /\ \/ wsUp[1] = <<End>> /\ Finish(<<>>) /\ UNCHANGED buffer
       \/ /\ wsUp[1] # <<End>> /\ Contains(wsUp[1], Hello(2))
          /\ AfterHello
       \/ /\ wsUp[1] # <<End>> /\ ~Contains(wsUp[1], Hello(2))
          /\ buffer' = buffer \o wsUp[1] /\ wsUp' = Tail(wsUp)
          /\ UNCHANGED <<stage, inbound, outb, down, svc>>
    /\ UNCHANGED <<setup, client, over>>

\* RELAY_NODE_IDLE_LEASE, for the sockets that wait at a relay.
LeaseExpires ==
    /\ stage = "hello" /\ setup.carrier # "tcp"
    /\ Finish(<<>>)
    /\ UNCHANGED <<setup, client, buffer, over>>

\* There is no timeout: without a ClientHello the handler waits.
AcceptTls ==
    /\ stage = "tls" /\ inbound # <<>>
    /\ \/ Finish(<<>>)
       \/ /\ inbound[1] = ClientHello
          /\ inbound' = Tail(inbound)
          /\ stage' = IF Http THEN "request" ELSE "connect"
          /\ UNCHANGED <<wsUp, outb, down, svc>>
    /\ UNCHANGED <<setup, client, buffer, over>>

-----------------------------------------------------------------------------
(***************************************************************************)
(* proxy_stream_to_service                                                 *)
(***************************************************************************)
\* Seeded bug: the length of the body is not looked at.
HeadOnly(items) == Len(items) >= setup.request.head

\* The head is complete, and so is the body if its length is known.
complete_http_request(items) ==
    /\ Len(items) >= setup.request.head
    /\ setup.request.length => Len(items) >= setup.request.len

\* What is too long to be read ahead is forwarded as far as it has come.
TooLong(items) == Len(items) > MaxBuffer

read_http_request_for_proxy ==
    /\ stage = "request" /\ inbound # <<>>
    /\ \/ /\ inbound[1] = End
          /\ stage' = "connect" /\ UNCHANGED <<inbound, buffer>>
       \/ /\ inbound[1] # End
          /\ inbound' = Tail(inbound) /\ buffer' = Append(buffer, inbound[1])
          /\ stage' = IF complete_http_request(buffer') \/ TooLong(buffer') THEN "connect" ELSE "request"
    /\ UNCHANGED <<setup, client, wsUp, outb, down, svc, over>>

\* After 10 s without a complete request.
RequestTimeout ==
    /\ stage = "request" /\ inbound = <<>>
    /\ Finish(<<>>)
    /\ UNCHANGED <<setup, client, buffer, over>>

\* Without a target an HTTP client gets a page.
Unavailable == IF Http THEN <<Page(502)>> ELSE <<>>

Connect ==
    /\ stage = "connect"
    /\ IF setup.target = "down"
       THEN Finish(Unavailable)
       ELSE /\ svc' = [svc EXCEPT !.conn = TRUE, !.got = buffer]
            /\ stage' = IF Http THEN "first" ELSE "copy"
            /\ UNCHANGED <<wsUp, inbound, outb, down>>
    /\ UNCHANGED <<setup, client, buffer, over>>

\* The answer ends, or fails, before it begins.
ServiceClosed ==
    /\ stage = "first" /\ svc.closed /\ svc.queue = <<>>
    /\ Finish(<<Page(502)>>)
    /\ UNCHANGED <<setup, client, buffer, over>>

\* Seeded bug: an answer is waited for without a timeout.
WaitForEver == stage = "first" /\ FALSE /\ UNCHANGED vars

\* After 12 s without an answer.
FirstTimeout ==
    /\ stage = "first" /\ ~svc.closed /\ svc.queue = <<>>
    /\ Finish(<<Page(504)>>)
    /\ UNCHANGED <<setup, client, buffer, over>>

\* Seeded bug: the first chunk is only looked at.
PeekFirst ==
    /\ stage = "first" /\ svc.queue # <<>>
    /\ Emit(svc.queue)
    /\ stage' = "copy"
    /\ UNCHANGED <<setup, client, wsUp, inbound, buffer, svc, over>>

forward_first_http_response_chunk ==
    /\ stage = "first" /\ svc.queue # <<>>
    /\ Emit(svc.queue)
    /\ svc' = [svc EXCEPT !.queue = <<>>]
    /\ stage' = "copy"
    /\ UNCHANGED <<setup, client, wsUp, inbound, buffer, over>>

\* copy_bidirectional: an end is passed on, and with both it is finished.
CopyUp ==
    /\ stage = "copy" /\ inbound # <<>> /\ "up" \notin over
    /\ \/ inbound[1] # End /\ svc' = [svc EXCEPT !.got = Append(@, inbound[1])] /\ inbound' = Tail(inbound) /\ UNCHANGED over
       \/ inbound[1] = End /\ svc' = [svc EXCEPT !.eof = TRUE] /\ over' = over \cup {"up"} /\ UNCHANGED inbound
    /\ UNCHANGED <<setup, client, wsUp, stage, buffer, outb, down>>

CopyDown ==
    /\ stage = "copy" /\ "down" \notin over
    /\ \/ svc.queue # <<>> /\ Emit(svc.queue) /\ svc' = [svc EXCEPT !.queue = <<>>] /\ UNCHANGED over
       \/ svc.queue = <<>> /\ svc.closed /\ ~svc.reset /\ Emit(<<End>>) /\ over' = over \cup {"down"} /\ UNCHANGED svc
    /\ UNCHANGED <<setup, client, wsUp, stage, inbound, buffer>>

\* It also ends when a connection fails.
CopyDone ==
    /\ stage = "copy" /\ (over = {"up", "down"} \/ svc.reset)
    /\ Finish(<<>>)
    /\ UNCHANGED <<setup, client, buffer, over>>

-----------------------------------------------------------------------------
(***************************************************************************)
(* The other branches of handle_wss_connection.                            *)
(***************************************************************************)
ws_to_tcp ==
    /\ Wss /\ stage \notin {"hello", "done"} /\ wsUp # <<>>
    /\ IF wsUp[1] = <<End>> THEN Finish(<<>>)
       ELSE inbound' = inbound \o wsUp[1] /\ wsUp' = Tail(wsUp) /\ UNCHANGED <<stage, outb, down, svc>>
    /\ UNCHANGED <<setup, client, buffer, over>>

tcp_to_ws ==
    /\ Wss /\ stage \notin {"hello", "done"} /\ outb # <<>>
    /\ IF outb[1] = End THEN Finish(<<>>)
       ELSE LET data == SelectSeq(outb, LAMBDA i : i # End)
            IN  /\ down' = down \o data
                /\ outb' = SubSeq(outb, Len(data) + 1, Len(outb))
                /\ UNCHANGED <<stage, inbound, wsUp, svc>>
    /\ UNCHANGED <<setup, client, buffer, over>>

-----------------------------------------------------------------------------
(***************************************************************************)
(* The target (external): it answers with two units once it has the        *)
(* request, or the head of it if it is eager; it may close, and it may die *)
(* with what it has sent still on the way.                                 *)
(***************************************************************************)
Enough == Len(svc.got) >= (IF setup.request.eager THEN setup.request.head ELSE setup.request.len)

ServiceAnswers ==
    /\ svc.conn /\ ~svc.closed /\ Enough /\ svc.sent < 2 /\ stage # "done"
    /\ svc' = [svc EXCEPT !.sent = @ + 1, !.queue = Append(@, Answer(svc.sent + 1))]
    /\ UNCHANGED <<setup, client, wsUp, stage, inbound, buffer, outb, down, over>>

ServiceCloses ==
    /\ svc.conn /\ ~svc.closed
    /\ svc' = [svc EXCEPT !.closed = TRUE]
    /\ UNCHANGED <<setup, client, wsUp, stage, inbound, buffer, outb, down, over>>

ServiceDies ==
    /\ svc.conn /\ ~svc.closed
    /\ svc' = [svc EXCEPT !.closed = TRUE, !.reset = TRUE, !.queue = <<>>]
    /\ UNCHANGED <<setup, client, wsUp, stage, inbound, buffer, outb, down, over>>

Handler == \/ ReadHello \/ ReadWssHello \/ AcceptTls \/ read_http_request_for_proxy \/ RequestTimeout
           \/ Connect \/ ServiceClosed \/ FirstTimeout \/ forward_first_http_response_chunk
           \/ CopyUp \/ CopyDown \/ CopyDone \/ ws_to_tcp \/ tcp_to_ws
Next == \/ Handler \/ LeaseExpires
        \/ ClientSends \/ ClientCloses \/ ClientReceives \/ RelayEnds
        \/ ServiceAnswers \/ ServiceCloses \/ ServiceDies

Spec == Init /\ [][Next]_vars

-----------------------------------------------------------------------------
TypeOK ==
    /\ stage \in {"hello", "tls", "request", "connect", "first", "copy", "done"}
    /\ Len(buffer) <= MaxBuffer + 1
    /\ over \subseteq {"up", "down"} /\ (over # {} => stage \in {"copy", "done"})

\* A target only hears of sessions whose token is valid, and for its service and
\* this node (handle_connection_with_hello, handle_wss_connection).
OnlyGranted == svc.conn => setup.claims = "ok"

\* What the target gets is the beginning of what the client sent behind the
\* hello, however the hello and the request were cut into frames, read ahead and
\* buffered.
RequestIntact == svc.got = SubSeq(Request, 1, Len(svc.got))

\* The client gets the beginning of the target's answer, or one page and nothing
\* else; the answer is complete if the target had the request and did not die,
\* and the client waited.
Answers(n) == [i \in 1 .. n |-> Answer(i)]
AnswerIntact ==
    /\ \/ client.got = Answers(Len(client.got)) /\ Len(client.got) <= svc.sent
       \/ client.got \in {<<Page(502)>>, <<Page(504)>>}
    /\ client.eof /\ ~client.closed /\ svc.got = Request /\ svc.sent > 0 /\ ~svc.reset
           => client.got = Answers(svc.sent)

\* A page tells the truth: 502 means that the target is down or has closed, 504
\* that it had the request and said nothing.  Excepted are requests that the node
\* does not read to their end: those longer than its buffer, and those without a
\* length.
ReadToEnd == setup.request.length /\ setup.request.len <= MaxBuffer
PagesAreTrue ==
    /\ Contains(client.got, Page(502)) => setup.target = "down" \/ svc.closed
    /\ Contains(client.got, Page(504)) /\ ReadToEnd /\ ~client.closed => svc.got = Request /\ svc.sent = 0

\* A client that sent its whole request over TCP and waits hears of a target that is
\* down (write_service_unavailable_response).
DownTargetIsReported ==
    client.eof /\ ~client.closed /\ Http /\ ~Wss /\ setup.target = "down" /\ buffer = Request
        => client.got = <<Page(502)>>

\* A client that has sent its whole request over TCP to a web service and does not
\* go away gets an answer or a page, whatever the target does.
Waits == Http /\ ReadToEnd /\ ~Wss /\ stage = "request" /\ client.sent = Len(Stream) /\ ~client.closed
EveryRequestAnswered == Waits ~> (client.got # <<>> \/ client.closed)
=============================================================================
