------------------------------- MODULE NodeBridge -------------------------------
(***************************************************************************)
(* bridge_udp_session_to_tcp_proxy of the home node: a thread for each     *)
(* direction copies between an accepted UDP session and a connection to    *)
(* the node's own TCP proxy.  Both threads take packets from the session's *)
(* one inbox: the reader DATA and CLOSE, the writer, while it waits for an *)
(* ACK, whatever comes.  UdpSession shows that the session orders its      *)
(* bytes; here DATA arrives in order, and the subject is how the two       *)
(* threads share the packets and end.                                      *)
(***************************************************************************)
EXTENDS Naturals, Sequences, SequencesExt

CONSTANTS
    RETRIES,
    MaxData,    \* bound: DATA packets of the client
    MaxResp     \* bound: chunks of the service

VARIABLES
    inbox,      \* packets the listener has put into the session's inbox
    pending,    \* pending_read, counted in packets
    reader, chunk,          \* udp_to_tcp: where it is, what it writes
    writer, seq, tries,     \* tcp_to_udp: where it is, send_seq, packets sent for it
    acked,      \* DATA packets acknowledged
    toTcp,      \* of those, the ones written to the TCP proxy
    fromTcp,    \* chunks of the service that can be read
    service,    \* the TCP connection, seen from the bridge
    data, resp, closed,     \* what client and service have sent
    eof,        \* the reader took the CLOSE
    returned

vars == <<inbox, pending, reader, chunk, writer, seq, tries, acked, toTcp, fromTcp, service, data, resp, closed, eof, returned>>
session == <<inbox, pending, acked>>
readerVars == <<reader, chunk, toTcp, eof>>
writerVars == <<writer, seq, tries>>
peers == <<fromTcp, service, data, resp, closed>>

Data == [kind |-> "data", seq |-> 0]
Close == [kind |-> "close", seq |-> 0]
Ack(n) == [kind |-> "ack", seq |-> n]

Init ==
    /\ inbox = <<>> /\ pending = 0 /\ acked = 0 /\ toTcp = 0 /\ fromTcp = 0
    /\ reader = "new" /\ writer = "new" /\ chunk = 0 /\ seq = 0 /\ tries = 0
    /\ service = "open" /\ data = 0 /\ resp = 0 /\ closed = FALSE /\ eof = FALSE /\ returned = FALSE

\* Connects, writes the session hello and starts the threads, or fails.
Open ==
    /\ reader = "new" /\ ~returned
    /\ \/ reader' = "check" /\ writer' = "read" /\ UNCHANGED returned
       \/ reader' = "ended" /\ writer' = "ended" /\ returned' = TRUE
    /\ UNCHANGED <<session, chunk, toTcp, eof, seq, tries, peers>>

-----------------------------------------------------------------------------
\* The client and the service.  A packet that is lost is one that never arrives.
ClientSends ==
    /\ ~closed
    /\ \/ data < MaxData /\ data' = data + 1 /\ inbox' = Append(inbox, Data) /\ UNCHANGED closed
       \/ closed' = TRUE /\ inbox' = Append(inbox, Close) /\ UNCHANGED data
    /\ UNCHANGED <<pending, acked, readerVars, writerVars, fromTcp, service, resp, returned>>

\* It acknowledges a packet of the node, each copy at most once.
ClientAcks ==
    /\ writer = "await" /\ Len(SelectSeq(inbox, LAMBDA p : p = Ack(seq))) < tries
    /\ inbox' = Append(inbox, Ack(seq))
    /\ UNCHANGED <<pending, acked, readerVars, writerVars, peers, returned>>

Service ==
    /\ service = "open"
    /\ \/ resp < MaxResp /\ resp' = resp + 1 /\ fromTcp' = fromTcp + 1 /\ UNCHANGED service
       \/ service' = "eof" /\ UNCHANGED <<resp, fromTcp>>
       \/ service' = "reset" /\ fromTcp' = 0 /\ UNCHANGED resp
    /\ UNCHANGED <<session, readerVars, writerVars, data, closed, returned>>

-----------------------------------------------------------------------------
\* udp_to_tcp: copy_blocking(udp_reader, tcp_writer).
Matching(kinds) == {i \in 1 .. Len(inbox) : inbox[i].kind \in kinds}
First(kinds) == CHOOSE i \in Matching(kinds) : \A k \in Matching(kinds) : i <= k

\* read() hands out what is pending, or waits for a packet.
ReaderChecks ==
    /\ reader = "check"
    /\ IF pending > 0 THEN reader' = "write" /\ chunk' = pending /\ pending' = 0
       ELSE reader' = "recv" /\ UNCHANGED <<chunk, pending>>
    /\ UNCHANGED <<inbox, acked, toTcp, eof, writerVars, peers, returned>>

ReaderTakes == {"data", "close"}

ReaderReceives ==
    /\ reader = "recv" /\ Matching(ReaderTakes) # {}
    /\ LET i == First(ReaderTakes) IN
           /\ inbox' = RemoveAt(inbox, i)
           /\ IF inbox[i].kind = "close"
              THEN reader' = "ended" /\ eof' = TRUE /\ UNCHANGED <<pending, chunk, acked>>
              ELSE /\ acked' = acked + 1 /\ chunk' = pending + 1 /\ pending' = 0
                   /\ reader' = "write" /\ UNCHANGED eof
    /\ UNCHANGED <<toTcp, writerVars, peers, returned>>

\* Seeded bug: a timeout ends the copy.
TimeoutEnds ==
    /\ reader = "recv" /\ Matching(ReaderTakes) = {}
    /\ reader' = "ended"
    /\ UNCHANGED <<session, chunk, toTcp, eof, writerVars, peers, returned>>

\* The poll timeout: copy_blocking calls read() again.
ReaderTimesOut ==
    /\ reader = "recv" /\ Matching(ReaderTakes) = {}
    /\ reader' = "check"
    /\ UNCHANGED <<session, chunk, toTcp, eof, writerVars, peers, returned>>

\* write_all to the TCP proxy, which fails when the connection is gone.
ReaderWrites ==
    /\ reader = "write"
    /\ \/ service # "reset" /\ toTcp' = toTcp + chunk /\ reader' = "check"
       \/ service # "open" /\ reader' = "ended" /\ UNCHANGED toTcp
    /\ chunk' = 0
    /\ UNCHANGED <<session, eof, writerVars, peers, returned>>

-----------------------------------------------------------------------------
\* tcp_to_udp: copy_blocking(tcp_reader, udp_writer).
WriterReads ==
    /\ writer = "read"
    /\ \/ fromTcp > 0 /\ fromTcp' = fromTcp - 1 /\ writer' = "await" /\ tries' = 1
       \/ fromTcp = 0 /\ service # "open" /\ writer' = "ended" /\ UNCHANGED <<fromTcp, tries>>
    /\ UNCHANGED <<session, readerVars, seq, service, data, resp, closed, returned>>

Kept(n) == n + 1

\* wait_for_ack takes the first packet, whatever its kind.
WriterReceives ==
    /\ writer = "await" /\ inbox # <<>>
    /\ inbox' = Tail(inbox)
    /\ LET p == Head(inbox) IN
           \/ /\ p = Ack(seq) /\ seq' = seq + 1 /\ writer' = "read" /\ tries' = 0
              /\ UNCHANGED <<pending, acked>>
           \/ /\ p.kind = "ack" /\ p.seq # seq /\ UNCHANGED <<seq, writer, tries, pending, acked>>
           \/ /\ p.kind = "data" /\ pending' = Kept(pending) /\ acked' = acked + 1
              /\ UNCHANGED <<seq, writer, tries>>
           \/ /\ p.kind = "close" /\ writer' = "ended" /\ UNCHANGED <<seq, tries, pending, acked>>
    /\ UNCHANGED <<readerVars, peers, returned>>

\* Seeded bug: the writer never gives up.
RetryForEver ==
    /\ writer = "await" /\ inbox = <<>>
    /\ tries' = IF tries < RETRIES THEN tries + 1 ELSE tries
    /\ UNCHANGED <<session, readerVars, writer, seq, peers, returned>>

\* No ACK in time: resends, and after RETRIES packets the copy ends with the error.
WriterTimesOut ==
    /\ writer = "await" /\ inbox = <<>>
    /\ IF tries < RETRIES THEN tries' = tries + 1 /\ UNCHANGED writer
       ELSE writer' = "ended" /\ UNCHANGED tries
    /\ UNCHANGED <<session, readerVars, seq, peers, returned>>

\* The reader's thread joins the other one.
Join ==
    /\ reader = "ended" /\ writer = "ended" /\ ~returned /\ returned' = TRUE
    /\ UNCHANGED <<session, readerVars, writerVars, peers>>

-----------------------------------------------------------------------------
Reader == ReaderChecks \/ ReaderReceives \/ ReaderTimesOut \/ ReaderWrites
Writer == WriterReads \/ WriterReceives \/ WriterTimesOut
Next == Open \/ ClientSends \/ ClientAcks \/ Service \/ Reader \/ Writer \/ Join

Spec == Init /\ [][Next]_vars

-----------------------------------------------------------------------------
\* The bytes that the session has acknowledged are all on their way to the service,
\* whichever thread took them from the inbox, as long as the reader runs.
AckedIsHeld == reader # "ended" => toTcp + chunk + pending = acked

\* And they arrive, unless the client closes the session or the service is gone: a
\* packet that the writer took wakes nobody, but the reader polls (copy_blocking,
\* lines 469-471).
AckedReachesService ==
    \A n \in 1 .. MaxData : acked >= n ~> toTcp >= n \/ closed \/ service # "open"

\* A CLOSE in the inbox of a running bridge ends one of its threads.
CloseEndsAThread == Matching({"close"}) # {} ~> reader = "ended" \/ writer = "ended"

\* When the reader took the CLOSE and the service has ended too, the bridge returns,
\* even if the writer is waiting for an ACK that nobody will send.
BridgeReturns == eof /\ service # "open" ~> returned

\* The inductive invariant: besides, the reader holds a chunk only to write it.
IInv ==
    /\ {pending, chunk, acked, toTcp} \subseteq Nat
    /\ reader \in {"new", "check", "recv", "write", "ended"}
    /\ reader \in {"new", "check", "recv"} => chunk = 0
    /\ AckedIsHeld
=============================================================================
