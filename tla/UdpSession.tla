------------------------------ MODULE UdpSession ------------------------------
(***************************************************************************)
(* The established UDP session of overlay-transport (udp_session.rs): two  *)
(* UdpSessionStreams, the client's and the node's, that carry one byte     *)
(* stream each way over datagrams that may be lost, duplicated, delayed    *)
(* and reordered.  A write sends one chunk and waits for its ACK, resending*)
(* it RETRIES times; while it waits it also takes in the peer's data.      *)
(*                                                                         *)
(* Bytes are numbered 1, 2, 3, ... in the order the application produces   *)
(* them, and a chunk is the interval lo..hi of those numbers, so that a    *)
(* lost, repeated or misplaced byte shows as a gap between intervals.      *)
(* Encryption is left out: both ends hold the session's key, so every      *)
(* packet of the session decrypts.                                         *)
(*                                                                         *)
(* The network and the queue a packet waits in before a thread takes it    *)
(* (the node's PacketInbox, the client's socket buffer) are one set, net:  *)
(* any packet in it may be taken, at any time, any number of times, until  *)
(* it is lost.  A receive may time out whatever net holds, because a packet*)
(* may still be on its way.                                                *)
(***************************************************************************)
EXTENDS Integers, Sequences, FiniteSets

CONSTANTS
    MAX_PAYLOAD_LEN,  \* bytes of one DATA packet
    RETRIES,          \* how often a write sends its packet
    StreamLen,        \* [Ends -> Nat], bound: bytes each application produces
    TwoThreaded,      \* ends whose stream is cloned into a reader and a writer
    Closers,          \* ends that announce their end with CLOSE
    OnTimeout         \* [Ends -> Policies], the caller's reaction to a timeout

Ends == {"client", "node"}
Peer(e) == IF e = "client" THEN "node" ELSE "client"

(***************************************************************************)
(* What the caller of write does when it fails with TimedOut:              *)
(*   abort  the copy loop ends (copy_blocking, ForegroundUdpSession)       *)
(*   same   the caller offers the same chunk again (the TLS record queue   *)
(*          of rustls under complete_io)                                   *)
(*   grow   the caller offers its pending bytes again, and may have queued *)
(*          more behind them in between (flush_pending_to_writer)          *)
(***************************************************************************)
Policies == {"abort", "same", "grow"}

ASSUME SessionAssumption ==
    /\ MAX_PAYLOAD_LEN \in Nat \ {0}
    /\ RETRIES \in Nat \ {0}
    /\ StreamLen \in [Ends -> Nat]
    /\ TwoThreaded \subseteq Ends
    /\ Closers \subseteq Ends
    /\ OnTimeout \in [Ends -> Policies]

Chunk == [lo : Nat, hi : Nat]
NoPayload == [lo |-> 0, hi |-> 0]
Kinds == {"Data", "Ack", "Close"}
Packet == [kind : Kinds, to : Ends, seq : Nat, chunk : Chunk]

DataPacket(to, seq, chunk) ==
    [kind |-> "Data", to |-> to, seq |-> seq, chunk |-> chunk]
AckPacket(to, seq) ==
    [kind |-> "Ack", to |-> to, seq |-> seq, chunk |-> NoPayload]
ClosePacket(to, seq) ==
    [kind |-> "Close", to |-> to, seq |-> seq, chunk |-> NoPayload]

VARIABLES
    send_seq,         \* SessionState.send_seq
    recv_seq,         \* SessionState.recv_seq
    pending_packets,  \* SessionState.pending_packets: DATA ahead of recv_seq
    received,         \* every chunk that was ever put into pending_read
    taken,            \* how many of those read() has handed to its caller
    reader,           \* where the thread that reads is
    writer,           \* where the thread that writes is
    current,          \* the chunk being written, or the one that timed out
    tries,            \* how often the current write has sent its packet
    accepted,         \* bytes for which write() has returned Ok
    net,              \* packets that can still arrive
    sent              \* history: every DATA packet ever sent

stateVars == <<recv_seq, pending_packets, received>>
writeVars == <<send_seq, current, tries, accepted>>
vars == <<send_seq, recv_seq, pending_packets, received, taken, reader, writer,
          current, tries, accepted, net, sent>>

TypeOK ==
    /\ send_seq \in [Ends -> Nat]
    /\ recv_seq \in [Ends -> Nat]
    /\ pending_packets \in [Ends -> SUBSET Packet]
    /\ received \in [Ends -> Seq(Chunk)]
    /\ taken \in [Ends -> Nat]
    /\ reader \in [Ends -> {"idle", "recv", "check", "done"}]
    /\ writer \in [Ends -> {"idle", "await", "retry", "done"}]
    /\ current \in [Ends -> Chunk]
    /\ tries \in [Ends -> 0 .. RETRIES]
    /\ accepted \in [Ends -> Nat]
    /\ net \subseteq Packet
    /\ sent \subseteq Packet

\* Both streams right after the handshake (UdpSessionStream::new).
Init ==
    /\ send_seq = [e \in Ends |-> 0]
    /\ recv_seq = [e \in Ends |-> 0]
    /\ pending_packets = [e \in Ends |-> {}]
    /\ received = [e \in Ends |-> <<>>]
    /\ taken = [e \in Ends |-> 0]
    /\ reader = [e \in Ends |-> "idle"]
    /\ writer = [e \in Ends |-> "idle"]
    /\ current = [e \in Ends |-> NoPayload]
    /\ tries = [e \in Ends |-> 0]
    /\ accepted = [e \in Ends |-> 0]
    /\ net = {}
    /\ sent = {}

-----------------------------------------------------------------------------
(***************************************************************************)
(* handle_data_packet, the one place where DATA is taken in.  The state is *)
(* changed under its lock and the ACK goes out whatever the packet was.    *)
(***************************************************************************)
Ahead(e) == {p.seq : p \in pending_packets[e]}

\* The first sequence number from n on that is not buffered.
FirstMissing(e, n) ==
    CHOOSE m \in n .. (n + Cardinality(Ahead(e))) :
        m \notin Ahead(e) /\ \A i \in n .. (m - 1) : i \in Ahead(e)

Buffered(e, n) == (CHOOSE p \in pending_packets[e] : p.seq = n).chunk

\* Seeded bug: the packets behind the gap are left in the buffer.
AcceptOnlyThis(e, p) ==
    /\ p.seq = recv_seq[e]
    /\ received' = [received EXCEPT ![e] = Append(@, p.chunk)]
    /\ recv_seq' = [recv_seq EXCEPT ![e] = @ + 1]
    /\ UNCHANGED pending_packets

AcceptInOrder(e, p) ==
    LET next == FirstMissing(e, p.seq + 1)
        drained == [i \in 1 .. (next - p.seq - 1) |-> Buffered(e, p.seq + i)]
    IN  /\ p.seq = recv_seq[e]
        /\ received' = [received EXCEPT ![e] = Append(@, p.chunk) \o drained]
        /\ recv_seq' = [recv_seq EXCEPT ![e] = next]
        /\ pending_packets' =
               [pending_packets EXCEPT ![e] = {q \in @ : q.seq >= next}]

KeepForLater(e, p) ==
    /\ p.seq > recv_seq[e]
    /\ pending_packets' = [pending_packets EXCEPT ![e] =
           IF p.seq \in Ahead(e) THEN @ ELSE @ \cup {p}]
    /\ UNCHANGED <<recv_seq, received>>

\* Seeded bug: a repeated packet is delivered again.
DeliverRepeat(e, p) ==
    /\ p.seq < recv_seq[e]
    /\ received' = [received EXCEPT ![e] = Append(@, p.chunk)]
    /\ UNCHANGED <<recv_seq, pending_packets>>

IgnoreRepeat(e, p) ==
    /\ p.seq < recv_seq[e]
    /\ UNCHANGED stateVars

\* Seeded bug: the ACK of a repeat is left out.
AckOnlyNews(e, p) ==
    \/ /\ AcceptInOrder(e, p) \/ KeepForLater(e, p)
       /\ net' = net \cup {AckPacket(Peer(e), p.seq)}
    \/ IgnoreRepeat(e, p) /\ UNCHANGED net

HandleData(e, p) ==
    /\ \/ AcceptInOrder(e, p)
       \/ KeepForLater(e, p)
       \/ IgnoreRepeat(e, p)
    /\ net' = net \cup {AckPacket(Peer(e), p.seq)}

Arriving(e, kind) == {p \in net : p.to = e /\ p.kind = kind}

-----------------------------------------------------------------------------
(***************************************************************************)
(* Reading.  On a stream that is not cloned the one thread of the caller   *)
(* is either in read or in write.                                          *)
(***************************************************************************)
CanRead(e) == e \in TwoThreaded \/ writer[e] # "await"

GoTo(thread, e, place) == thread' = [thread EXCEPT ![e] = place]

\* read() hands out what is pending, as much of it as the buffer takes.
Drain(e) ==
    /\ taken[e] < Len(received[e])
    /\ \E n \in (taken[e] + 1) .. Len(received[e]) :
           taken' = [taken EXCEPT ![e] = n]
    /\ GoTo(reader, e, "idle")

\* read() is called and returns pending bytes at once.
ReadPending(e) ==
    /\ reader[e] = "idle" /\ CanRead(e)
    /\ Drain(e)
    /\ UNCHANGED <<stateVars, writeVars, writer, net, sent>>

\* read() is called, finds nothing pending and waits for a packet.
ReadWait(e) ==
    /\ reader[e] = "idle" /\ CanRead(e)
    /\ taken[e] = Len(received[e])
    /\ GoTo(reader, e, "recv")
    /\ UNCHANGED <<stateVars, writeVars, taken, writer, net, sent>>

\* The waiting read takes the DATA packet p.
ReadData(e, p) ==
    /\ reader[e] = "recv"
    /\ HandleData(e, p)
    /\ GoTo(reader, e, "check")
    /\ UNCHANGED <<writeVars, taken, writer, sent>>

\* Then it returns what is pending by now, or waits for another packet.
ReadCheck(e) ==
    /\ reader[e] = "check"
    /\ \/ Drain(e)
       \/ /\ taken[e] = Len(received[e])
          /\ GoTo(reader, e, "recv")
          /\ UNCHANGED taken
    /\ UNCHANGED <<stateVars, writeVars, writer, net, sent>>

\* No packet came in time: the caller's loop calls read() again.
ReadTimeout(e) ==
    /\ reader[e] = "recv"
    /\ GoTo(reader, e, "idle")
    /\ UNCHANGED <<stateVars, writeVars, taken, writer, net, sent>>

\* CLOSE makes read() return 0, which the caller takes for end of file.
ReadClose(e) ==
    /\ reader[e] = "recv"
    /\ Arriving(e, "Close") # {}
    /\ GoTo(reader, e, "done")
    /\ UNCHANGED <<stateVars, writeVars, taken, writer, net, sent>>

-----------------------------------------------------------------------------
(***************************************************************************)
(* Writing.                                                                *)
(***************************************************************************)
CanWrite(e) == e \in TwoThreaded \/ reader[e] \in {"idle", "done"}

CurrentPacket(e) == DataPacket(Peer(e), send_seq[e], current[e])

Send(p) ==
    /\ net' = net \cup {p}
    /\ sent' = sent \cup {p}

\* The bytes the caller offers: new ones, or after a timeout the unwritten
\* ones again, which a caller with a growing buffer has added to.
MayOffer(e, chunk) ==
    /\ chunk.lo = accepted[e] + 1
    /\ chunk.hi - chunk.lo + 1 \in 1 .. MAX_PAYLOAD_LEN
    /\ chunk.hi <= StreamLen[e]
    /\ \/ writer[e] = "idle"
       \/ writer[e] = "retry" /\ OnTimeout[e] = "same" /\ chunk = current[e]
       \/ writer[e] = "retry" /\ OnTimeout[e] = "grow" /\ chunk.hi >= current[e].hi

\* write() is called with the bytes of chunk and sends them a first time.
WriteStart(e, chunk) ==
    /\ CanWrite(e)
    /\ MayOffer(e, chunk)
    /\ current' = [current EXCEPT ![e] = chunk]
    /\ tries' = [tries EXCEPT ![e] = 1]
    /\ GoTo(writer, e, "await")
    /\ Send(DataPacket(Peer(e), send_seq[e], chunk))
    /\ UNCHANGED <<stateVars, send_seq, accepted, taken, reader>>

\* Seeded bug: any ACK is taken for the one that is awaited.
WriteAnyAck(e) ==
    /\ writer[e] = "await"
    /\ Arriving(e, "Ack") # {}
    /\ send_seq' = [send_seq EXCEPT ![e] = @ + 1]
    /\ accepted' = [accepted EXCEPT ![e] = current[e].hi]
    /\ GoTo(writer, e, "idle")
    /\ UNCHANGED <<stateVars, current, tries, taken, reader, net, sent>>

\* The ACK of the packet: write() returns the chunk's length.  Other ACKs are
\* dropped, which changes nothing here.
WriteAck(e) ==
    /\ writer[e] = "await"
    /\ \E p \in Arriving(e, "Ack") : p.seq = send_seq[e]
    /\ send_seq' = [send_seq EXCEPT ![e] = @ + 1]
    /\ accepted' = [accepted EXCEPT ![e] = current[e].hi]
    /\ GoTo(writer, e, "idle")
    /\ UNCHANGED <<stateVars, current, tries, taken, reader, net, sent>>

\* The peer's DATA arrives while write() waits for its ACK.
WriteData(e, p) ==
    /\ writer[e] = "await"
    /\ HandleData(e, p)
    /\ UNCHANGED <<writeVars, taken, reader, writer, sent>>

\* No ACK in time: the packet goes out again.
WriteResend(e) ==
    /\ writer[e] = "await"
    /\ tries[e] < RETRIES
    /\ tries' = [tries EXCEPT ![e] = @ + 1]
    /\ Send(CurrentPacket(e))
    /\ UNCHANGED <<stateVars, send_seq, current, accepted, taken, reader, writer>>

\* No ACK to the last one either: write() fails, send_seq stays.
WriteTimeout(e) ==
    /\ writer[e] = "await"
    /\ tries[e] = RETRIES
    /\ \/ /\ OnTimeout[e] = "abort"
          /\ GoTo(writer, e, "done")
          /\ reader' = IF e \in TwoThreaded THEN reader
                       ELSE [reader EXCEPT ![e] = "done"]
       \/ /\ OnTimeout[e] # "abort"
          /\ GoTo(writer, e, "retry")
          /\ UNCHANGED reader
    /\ UNCHANGED <<stateVars, writeVars, taken, net, sent>>

\* CLOSE arrives while write() waits: it fails with UnexpectedEof.
WriteClose(e) ==
    /\ writer[e] = "await"
    /\ Arriving(e, "Close") # {}
    /\ GoTo(writer, e, "done")
    /\ UNCHANGED <<stateVars, writeVars, taken, reader, net, sent>>

-----------------------------------------------------------------------------
(***************************************************************************)
(* The end of a session.  A Rust end just stops, because its other side    *)
(* reached end of file or a socket failed; the Swift client says so first. *)
(***************************************************************************)
StopReading(e) ==
    /\ reader[e] # "done"
    /\ GoTo(reader, e, "done")
    /\ UNCHANGED <<stateVars, writeVars, taken, writer, net, sent>>

StopWriting(e) ==
    /\ writer[e] # "done"
    /\ GoTo(writer, e, "done")
    /\ UNCHANGED <<stateVars, writeVars, taken, reader, net, sent>>

Close(e) ==
    /\ e \in Closers
    /\ ~ (reader[e] = "done" /\ writer[e] = "done")
    /\ GoTo(reader, e, "done")
    /\ GoTo(writer, e, "done")
    /\ net' = net \cup {ClosePacket(Peer(e), send_seq[e])}
    /\ UNCHANGED <<stateVars, writeVars, taken, sent>>

\* The network drops what is left of p.
Lose(p) ==
    /\ net' = net \ {p}
    /\ UNCHANGED <<stateVars, writeVars, taken, reader, writer, sent>>

Offers(e) ==
    {[lo |-> accepted[e] + 1, hi |-> h] : h \in 1 .. StreamLen[e]}

Read(e) ==
    \/ ReadPending(e) \/ ReadWait(e) \/ ReadCheck(e)
    \/ ReadTimeout(e) \/ ReadClose(e)
    \/ \E p \in Arriving(e, "Data") : ReadData(e, p)

Write(e) ==
    \/ \E chunk \in Offers(e) : WriteStart(e, chunk)
    \/ WriteAck(e) \/ WriteResend(e) \/ WriteTimeout(e) \/ WriteClose(e)
    \/ \E p \in Arriving(e, "Data") : WriteData(e, p)

Next ==
    \/ \E e \in Ends : \/ Read(e) \/ Write(e)
                       \/ StopReading(e) \/ StopWriting(e) \/ Close(e)
    \/ \E p \in net : Lose(p)

Spec == Init /\ [][Next]_vars

-----------------------------------------------------------------------------
(***************************************************************************)
(* Safety.                                                                 *)
(***************************************************************************)
\* The number of the last byte ahead of the i-th chunk, and of a whole list.
ByteBefore(chunks, i) == IF i = 1 THEN 0 ELSE chunks[i - 1].hi
LastByte(chunks) == ByteBefore(chunks, Len(chunks) + 1)

\* What handle_data_packet has put into pending_read is the peer's byte stream
\* without a gap, a repetition or a swap, whatever the network did to the
\* packets and whichever of the two threads took them.
InOrder ==
    \A e \in Ends : \A i \in 1 .. Len(received[e]) :
        received[e][i].lo = ByteBefore(received[e], i) + 1

\* A byte for which write() returned Ok is in the peer's pending_read or was
\* read from it: an ACK never vouches for bytes the peer did not keep.
AcceptedWasReceived ==
    \A e \in Ends : accepted[e] <= LastByte(received[Peer(e)])

\* Two DATA packets of one direction with the same sequence number carry the
\* same bytes, so that a repeat may be acknowledged unread (and the nonce,
\* which is made of the direction and the number, is used for one plaintext).
OneChunkPerSeq ==
    \A p, q \in sent :
        p.to = q.to /\ p.seq = q.seq => p.chunk = q.chunk

\* An ACK is sent only for DATA that the receiver has or holds back for later,
\* so that its sender may forget the bytes.
AckedIsKept ==
    \A p \in net : p.kind = "Ack" =>
        LET receiver == Peer(p.to)
        IN  p.seq < recv_seq[receiver] \/ p.seq \in Ahead(receiver)

\* The out-of-order buffer never holds the packet that is next: whoever fills
\* the gap delivers everything behind it.
NothingHeldBack == \A e \in Ends : recv_seq[e] \notin Ahead(e)

\* A peer that waits for each ACK never gets ahead of recv_seq, so the
\* out-of-order buffer, which nothing limits, stays empty.
OutOfOrderBufferUnused == \A e \in Ends : pending_packets[e] = {}

-----------------------------------------------------------------------------
(***************************************************************************)
(* Why it works: the inductive invariant, per end e that writes.  The peer *)
(* is level with e or exactly one chunk, e's current one, ahead of it.     *)
(***************************************************************************)
Outstanding(e) ==
    current[e].lo = accepted[e] + 1 /\ current[e].hi > accepted[e]

Level(e) ==
    /\ recv_seq[Peer(e)] = send_seq[e]
    /\ LastByte(received[Peer(e)]) = accepted[e]

OneAhead(e) ==
    /\ writer[e] # "idle"
    /\ recv_seq[Peer(e)] = send_seq[e] + 1
    /\ LastByte(received[Peer(e)]) = current[e].hi
    /\ Outstanding(e)

\* Of e's current sequence number only the current chunk was ever sent, and
\* nothing beyond it.
SentFits(e) ==
    \A p \in sent : p.to = Peer(e) =>
        /\ p.seq <= send_seq[e]
        /\ p.seq = send_seq[e] =>
               /\ writer[e] # "idle"
               /\ p.chunk = current[e]
               /\ Outstanding(e)

WriterFits(e) ==
    /\ current[e].hi >= accepted[e]
    /\ writer[e] = "idle" => current[e].hi = accepted[e]
    /\ writer[e] \in {"await", "retry"} => Outstanding(e)

NetFits ==
    /\ \A p \in net : p.kind = "Data" => p \in sent
    /\ \A p \in net : p.kind = "Ack" => p.seq < recv_seq[Peer(p.to)]

IInv ==
    /\ TypeOK
    /\ OutOfOrderBufferUnused
    /\ NetFits
    /\ \A e \in Ends : Level(e) \/ OneAhead(e)
    /\ \A e \in Ends : SentFits(e) /\ WriterFits(e)
    /\ InOrder
    /\ OneChunkPerSeq

-----------------------------------------------------------------------------
(***************************************************************************)
(* What the session promises: two byte pipes (module BytePipe).            *)
(***************************************************************************)
Pipe == INSTANCE BytePipe WITH
    offered <- [e \in Ends |-> current[e].hi],
    delivered <- [e \in Ends |-> LastByte(received[Peer(e)])],
    accepted <- accepted

\* Each direction of the session is a pipe that holds at most one chunk, hands
\* it over whole and once, and reports it written only after that.
ImplementsPipe == Pipe!Spec

-----------------------------------------------------------------------------
(***************************************************************************)
(* Liveness.  A receive times out when nothing comes, a thread that can go *)
(* on does, and the one thread of an end that is not cloned turns to both  *)
(* its tasks again and again (SF, since each disables the other).  The     *)
(* network loses packets for any finite time, then no more; it repeats each*)
(* packet finitely often, so that a receive does time out some day.        *)
(***************************************************************************)
TakeData(e, n) ==
    \E p \in Arriving(e, "Data") :
        p.seq = n /\ (ReadData(e, p) \/ WriteData(e, p))

Fairness ==
    /\ <>[][~ \E p \in net : Lose(p)]_vars
    /\ \A e \in Ends :
        /\ SF_vars(ReadPending(e) \/ ReadWait(e))
        /\ WF_vars(ReadCheck(e))
        /\ SF_vars(ReadTimeout(e))
        /\ SF_vars(\E chunk \in Offers(e) : WriteStart(e, chunk))
        /\ WF_vars(WriteResend(e) \/ WriteTimeout(e))
        /\ SF_vars(WriteAck(e))
        /\ \A n \in 0 .. StreamLen[Peer(e)] : SF_vars(TakeData(e, n))

FairSpec == Spec /\ Fairness

Stopped == \E e \in Ends : reader[e] = "done" \/ writer[e] = "done"

\* Unless somebody stops, every byte of both applications is acknowledged and
\* read at the other end, although both may be writing at once, each waiting
\* for an ACK from a peer that waits for one itself, and although the network
\* loses DATA and ACKs.
TransferCompletes ==
    <>(\/ Stopped
       \/ \A e \in Ends :
              /\ accepted[e] = StreamLen[e]
              /\ ByteBefore(received[e], taken[e] + 1) = StreamLen[Peer(e)])
=============================================================================
