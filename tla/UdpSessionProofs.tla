--------------------------- MODULE UdpSessionProofs ---------------------------
(***************************************************************************)
(* Proofs about UdpSession for every number of retries, payload size,      *)
(* stream length and thread layout, of callers that abort or offer the same*)
(* chunk again when a write times out.                                     *)
(***************************************************************************)
EXTENDS UdpSession, FiniteSetTheorems, SequenceTheorems, TLAPS

\* No caller changes the bytes of a write that timed out.
SteadyCallers == \A e \in Ends : OnTimeout[e] # "grow"

\* Each end is the peer of its peer, and the two differ.
LEMMA PeerFacts ==
    /\ "client" \in Ends /\ "node" \in Ends
    /\ \A e \in Ends : Peer(e) \in Ends /\ Peer(e) # e /\ Peer(Peer(e)) = e
    /\ \A e, f \in Ends : f = e \/ f = Peer(e)
BY DEF Ends, Peer

\* The packets the two ends build are packets.
LEMMA PacketTypes ==
    ASSUME NEW e \in Ends, NEW n \in Nat, NEW c \in Chunk
    PROVE  /\ DataPacket(e, n, c) \in Packet
           /\ AckPacket(e, n) \in Packet
           /\ ClosePacket(e, n) \in Packet
BY DEF DataPacket, AckPacket, ClosePacket, Packet, Chunk, Kinds, NoPayload

\* With an empty out-of-order buffer the packet that is next is delivered
\* alone.
LEMMA AcceptAlone ==
    ASSUME NEW e \in Ends, NEW p \in Packet, TypeOK,
           pending_packets[e] = {}, AcceptInOrder(e, p)
    PROVE  /\ p.seq = recv_seq[e]
           /\ received' = [received EXCEPT ![e] = Append(@, p.chunk)]
           /\ recv_seq' = [recv_seq EXCEPT ![e] = @ + 1]
           /\ pending_packets' = pending_packets
<1> DEFINE n == p.seq + 1
           next == FirstMissing(e, n)
           drained == [i \in 1 .. (next - p.seq - 1) |-> Buffered(e, p.seq + i)]
<1>1. n \in Nat /\ p.chunk \in Chunk
  BY DEF Packet
<1>2. Ahead(e) = {}
  BY DEF Ahead
<1>3. next = n
  <2>1. Cardinality(Ahead(e)) = 0
    BY <1>2, FS_EmptySet
  <2>2. n .. (n + Cardinality(Ahead(e))) = {n}
    BY <2>1, <1>1
  <2>3. n \notin Ahead(e) /\ \A i \in n .. (n - 1) : i \in Ahead(e)
    BY <1>1, <1>2
  <2> QED
    BY <2>2, <2>3 DEF FirstMissing
<1>4. drained = << >>
  <2>1. next - p.seq - 1 = 0
    BY <1>1, <1>3 DEF Packet
  <2>2. drained = [i \in 1 .. 0 |-> Buffered(e, p.seq + i)]
    BY <2>1
  <2>3. drained \in [1 .. 0 -> Chunk]
    BY <2>2, 1 .. 0 = {}
  <2> HIDE DEF drained
  <2>4. drained \in Seq(Chunk) /\ Len(drained) = 0
    BY <2>3
  <2> QED
    BY <2>4, EmptySeq
<1>5. Append(received[e], p.chunk) \o drained = Append(received[e], p.chunk)
  <2>1. Append(received[e], p.chunk) \in Seq(Chunk)
    BY <1>1 DEF TypeOK
  <2> QED
    BY <1>4, <2>1, ConcatEmptySeq
<1>6. /\ p.seq = recv_seq[e]
      /\ received' = [received EXCEPT ![e] = Append(@, p.chunk) \o drained]
      /\ recv_seq' = [recv_seq EXCEPT ![e] = next]
      /\ pending_packets' =
             [pending_packets EXCEPT ![e] = {q \in @ : q.seq >= next}]
  BY DEF AcceptInOrder
<1>7. received' = [received EXCEPT ![e] = Append(@, p.chunk)]
  BY <1>5, <1>6
<1>8. recv_seq' = [recv_seq EXCEPT ![e] = @ + 1]
  BY <1>3, <1>6
<1>9. pending_packets' = pending_packets
  <2>1. {q \in pending_packets[e] : q.seq >= next} = pending_packets[e]
    OBVIOUS
  <2> QED
    BY <1>6, <2>1 DEF TypeOK
<1> QED
  BY <1>6, <1>7, <1>8, <1>9

-----------------------------------------------------------------------------
\* Both streams start level.
LEMMA InitIInv == Init => IInv
<1> SUFFICES ASSUME Init PROVE IInv
  OBVIOUS
<1>1. TypeOK
  BY SessionAssumption DEF Init, TypeOK, NoPayload, Chunk
<1>2. \A e \in Ends : Level(e)
  BY PeerFacts DEF Init, Level, LastByte, ByteBefore
<1>3. \A e \in Ends : SentFits(e) /\ WriterFits(e)
  BY DEF Init, SentFits, Outstanding, WriterFits, NoPayload
<1>4. OutOfOrderBufferUnused /\ NetFits /\ OneChunkPerSeq
  BY DEF Init, OutOfOrderBufferUnused, NetFits, OneChunkPerSeq
<1>5. InOrder
  BY DEF Init, InOrder
<1> QED
  BY <1>1, <1>2, <1>3, <1>4, <1>5 DEF IInv

\* A step that only moves the threads, and stops a writer or leaves it where
\* it is, keeps the invariant, and so does losing packets.
LEMMA QuietStep ==
    ASSUME IInv,
           UNCHANGED <<stateVars, writeVars, sent>>,
           taken' \in [Ends -> Nat],
           reader' \in [Ends -> {"idle", "recv", "check", "done"}],
           writer' \in [Ends -> {"idle", "await", "retry", "done"}],
           \A e \in Ends :
               \/ writer'[e] = writer[e]
               \/ writer'[e] = "done"
               \/ writer[e] = "await" /\ writer'[e] = "retry",
           net' \subseteq Packet,
           \A p \in net' : p \in net \/ p.kind = "Close"
    PROVE  IInv'
<1> USE DEF IInv, stateVars, writeVars
<1>1. TypeOK'
  BY DEF TypeOK
<1>2. OutOfOrderBufferUnused' /\ InOrder' /\ OneChunkPerSeq'
  BY DEF OutOfOrderBufferUnused, InOrder, OneChunkPerSeq, ByteBefore
<1>3. NetFits'
  BY DEF NetFits
<1>4. ASSUME NEW e \in Ends PROVE Level(e)' \/ OneAhead(e)'
  BY <1>4, PeerFacts DEF Level, OneAhead, Outstanding, LastByte, ByteBefore
<1>5. ASSUME NEW e \in Ends PROVE SentFits(e)' /\ WriterFits(e)'
  BY <1>5, PeerFacts DEF SentFits, Outstanding, WriterFits
<1> QED
  BY <1>1, <1>2, <1>3, <1>4, <1>5

\* Taking in a DATA packet: it is the peer's current chunk, and then the
\* taker gets one chunk ahead, or it is an old one and nothing changes.
LEMMA HandleDataStep ==
    ASSUME IInv, NEW e \in Ends, NEW p \in Arriving(e, "Data"),
           HandleData(e, p),
           UNCHANGED <<writeVars, taken, writer, sent>>,
           reader' \in [Ends -> {"idle", "recv", "check", "done"}]
    PROVE  IInv'
<1> DEFINE w == Peer(e)  \* the end that writes to e
<1> USE DEF IInv, writeVars
<1>1. /\ p \in Packet /\ p \in sent /\ p \in net /\ p.to = e
      /\ p.seq \in Nat /\ p.chunk \in Chunk
      /\ w \in Ends /\ w # e /\ Peer(w) = e
      /\ \A f \in Ends : f = e \/ f = w
  BY PeerFacts DEF Arriving, TypeOK, NetFits, Packet
<1>2. p.seq <= send_seq[w]
  BY <1>1 DEF SentFits, Outstanding
<1>3. net' = net \cup {AckPacket(w, p.seq)}
  BY DEF HandleData
<1>4. net' \subseteq Packet
  BY <1>1, <1>3, PacketTypes DEF TypeOK
<1>5. \A q \in net' : q \in net \/ (q.kind = "Ack" /\ q.to = w /\ q.seq = p.seq)
  BY <1>3 DEF AckPacket
<1>6. CASE IgnoreRepeat(e, p)
  <2>1. p.seq < recv_seq[e] /\ UNCHANGED stateVars
    BY <1>6 DEF IgnoreRepeat
  <2> USE DEF stateVars
  <2>2. TypeOK'
    BY <2>1, <1>4 DEF TypeOK
  <2>3. OutOfOrderBufferUnused' /\ InOrder' /\ OneChunkPerSeq'
    BY <2>1 DEF OutOfOrderBufferUnused, InOrder, OneChunkPerSeq, ByteBefore
  <2>4. NetFits'
    BY <2>1, <1>1, <1>5 DEF NetFits
  <2>5. \A f \in Ends : Level(f)' \/ OneAhead(f)'
    BY <2>1, PeerFacts DEF Level, OneAhead, Outstanding, LastByte, ByteBefore
  <2>6. \A f \in Ends : SentFits(f)' /\ WriterFits(f)'
    BY <2>1 DEF SentFits, Outstanding, WriterFits
  <2> QED
    BY <2>2, <2>3, <2>4, <2>5, <2>6
<1>7. CASE KeepForLater(e, p)
  <2>1. recv_seq[e] >= send_seq[w]
    <3>1. Level(w) \/ OneAhead(w)
      BY <1>1
    <3>2. send_seq[w] \in Nat /\ recv_seq[e] \in Nat
      BY <1>1 DEF TypeOK
    <3> QED
      BY <1>1, <3>1, <3>2 DEF Level, OneAhead, Outstanding
  <2>2. p.seq > recv_seq[e]
    BY <1>7 DEF KeepForLater
  <2> QED
    BY <1>1, <1>2, <2>1, <2>2 DEF TypeOK
<1>8. CASE AcceptInOrder(e, p)
  <2>1. /\ p.seq = recv_seq[e]
        /\ received' = [received EXCEPT ![e] = Append(@, p.chunk)]
        /\ recv_seq' = [recv_seq EXCEPT ![e] = @ + 1]
        /\ pending_packets' = pending_packets
    BY <1>1, <1>8, AcceptAlone DEF OutOfOrderBufferUnused
  <2>2. Level(w) /\ ~ OneAhead(w)
    <3>1. Level(w) \/ OneAhead(w)
      BY <1>1
    <3>2. send_seq[w] \in Nat /\ recv_seq[e] \in Nat
      BY <1>1 DEF TypeOK
    <3>3. OneAhead(w) => recv_seq[e] = send_seq[w] + 1
      BY <1>1 DEF OneAhead
    <3>4. recv_seq[e] <= send_seq[w]
      BY <1>2, <2>1
    <3>5. ~ OneAhead(w)
      BY <3>2, <3>3, <3>4
    <3> QED
      BY <3>1, <3>5
  <2>3. /\ p.seq = send_seq[w] /\ writer[w] # "idle" /\ p.chunk = current[w]
        /\ Outstanding(w)
    BY <1>1, <2>1, <2>2 DEF Level, SentFits, Outstanding
  <2>4. /\ received[e] \in Seq(Chunk)
        /\ received'[e] = Append(received[e], p.chunk)
        /\ \A f \in Ends : f # e => received'[f] = received[f]
    BY <2>1 DEF TypeOK
  <2>5. /\ Len(received'[e]) = Len(received[e]) + 1
        /\ received'[e][Len(received[e]) + 1] = p.chunk
        /\ \A i \in 1 .. Len(received[e]) : received'[e][i] = received[e][i]
        /\ Len(received[e]) \in Nat
    BY <1>1, <2>4
  <2>6. LastByte(received'[e]) = p.chunk.hi
    BY <2>5 DEF LastByte, ByteBefore
  <2>7. TypeOK'
    <3>1. Append(received[e], p.chunk) \in Seq(Chunk)
      BY <1>1, <2>4
    <3>2. received' \in [Ends -> Seq(Chunk)]
      BY <2>1, <3>1 DEF TypeOK
    <3>3. recv_seq' \in [Ends -> Nat]
      BY <2>1 DEF TypeOK
    <3> QED
      BY <1>4, <2>1, <3>2, <3>3 DEF TypeOK
  <2>8. OutOfOrderBufferUnused' /\ OneChunkPerSeq'
    BY <2>1 DEF OutOfOrderBufferUnused, OneChunkPerSeq
  <2>9. InOrder'
    <3> SUFFICES ASSUME NEW f \in Ends, NEW i \in 1 .. Len(received'[f])
                 PROVE  received'[f][i].lo = ByteBefore(received'[f], i) + 1
      BY DEF InOrder
    <3>1. CASE f # e
      BY <2>4, <3>1 DEF InOrder, ByteBefore
    <3>2. CASE f = e /\ i \in 1 .. Len(received[e])
      <4>1. ByteBefore(received'[e], i) = ByteBefore(received[e], i)
        BY <2>5, <3>2 DEF ByteBefore
      <4> QED
        BY <2>5, <3>2, <4>1 DEF InOrder
    <3>3. CASE f = e /\ i = Len(received[e]) + 1
      <4>1. ByteBefore(received'[e], i) = LastByte(received[e])
        BY <2>5, <3>3 DEF ByteBefore, LastByte
      <4>2. LastByte(received[e]) = accepted[w]
        BY <1>1, <2>2 DEF Level
      <4> QED
        BY <2>3, <2>5, <3>3, <4>1, <4>2 DEF Outstanding
    <3> QED
      BY <2>5, <3>1, <3>2, <3>3
  <2>10. NetFits'
    <3>1. /\ \A f \in Ends : recv_seq'[f] >= recv_seq[f]
          /\ \A f \in Ends : recv_seq[f] \in Nat /\ recv_seq'[f] \in Nat
          /\ p.seq < recv_seq'[e]
      <4>1. recv_seq \in [Ends -> Nat]
        BY DEF TypeOK
      <4> QED
        BY <1>1, <2>1, <4>1
    <3>2. \A q \in net : q.seq \in Nat /\ Peer(q.to) \in Ends
      BY PeerFacts DEF TypeOK, Packet
    <3>3. ASSUME NEW q \in net', q.kind = "Ack"
          PROVE  q.seq < recv_seq'[Peer(q.to)]
      <4>1. CASE q \in net
        BY <3>1, <3>2, <3>3, <4>1 DEF NetFits
      <4>2. CASE q.to = w /\ q.seq = p.seq
        BY <1>1, <3>1, <4>2
      <4> QED
        BY <1>5, <4>1, <4>2
    <3>4. ASSUME NEW q \in net', q.kind = "Data"
          PROVE  q \in sent'
      BY <1>5, <3>4 DEF NetFits
    <3> QED
      BY <3>3, <3>4 DEF NetFits
  <2>11. \A f \in Ends : Level(f)' \/ OneAhead(f)'
    <3>1. OneAhead(w)'
      BY <1>1, <2>1, <2>3, <2>6 DEF OneAhead, Outstanding, TypeOK
    <3>2. Level(e)' \/ OneAhead(e)'
      BY <1>1, <2>1, <2>4 DEF Level, OneAhead, Outstanding, TypeOK
    <3> QED
      BY <1>1, <3>1, <3>2
  <2>12. \A f \in Ends : SentFits(f)' /\ WriterFits(f)'
    BY DEF SentFits, Outstanding, WriterFits
  <2> QED
    BY <2>7, <2>8, <2>9, <2>10, <2>11, <2>12
<1> QED
  BY <1>6, <1>7, <1>8 DEF HandleData

\* Sending a chunk: nothing else was sent under its number, because the writer
\* was idle or offers the chunk that timed out.
LEMMA WriteStartStep ==
    ASSUME IInv, SteadyCallers, NEW e \in Ends, NEW chunk \in Offers(e),
           WriteStart(e, chunk)
    PROVE  IInv'
<1> DEFINE d == DataPacket(Peer(e), send_seq[e], chunk)
<1> USE DEF IInv, stateVars
<1>1. /\ chunk \in Chunk
      /\ chunk.lo = accepted[e] + 1 /\ chunk.hi > accepted[e]
      /\ writer[e] = "idle" \/ (writer[e] = "retry" /\ chunk = current[e])
      /\ accepted[e] \in Nat
  <2>1. accepted[e] \in Nat
    BY DEF TypeOK
  <2>2. chunk \in Chunk
    BY <2>1, SessionAssumption DEF Offers, Chunk
  <2>3. MayOffer(e, chunk)
    BY DEF WriteStart
  <2> QED
    BY <2>1, <2>2, <2>3, SessionAssumption DEF MayOffer, SteadyCallers, Chunk
<1>2. /\ d \in Packet /\ d.kind = "Data" /\ d.to = Peer(e)
      /\ d.seq = send_seq[e] /\ d.chunk = chunk
  BY <1>1, PeerFacts, PacketTypes DEF DataPacket, TypeOK
<1>3. /\ current' = [current EXCEPT ![e] = chunk]
      /\ writer' = [writer EXCEPT ![e] = "await"]
      /\ tries' = [tries EXCEPT ![e] = 1]
      /\ net' = net \cup {d} /\ sent' = sent \cup {d}
      /\ UNCHANGED <<stateVars, send_seq, accepted, taken, reader>>
  BY DEF WriteStart, GoTo, Send
<1> HIDE DEF d
<1>4. TypeOK'
  <2>1. tries' \in [Ends -> 0 .. RETRIES]
    BY <1>3, SessionAssumption DEF TypeOK
  <2>2. current' \in [Ends -> Chunk]
    BY <1>1, <1>3 DEF TypeOK
  <2>3. writer' \in [Ends -> {"idle", "await", "retry", "done"}]
    BY <1>3 DEF TypeOK
  <2> QED
    BY <1>2, <1>3, <2>1, <2>2, <2>3 DEF TypeOK
<1>5. OutOfOrderBufferUnused' /\ InOrder'
  BY <1>3 DEF OutOfOrderBufferUnused, InOrder, ByteBefore
<1>6. NetFits'
  BY <1>2, <1>3 DEF NetFits
<1>7. \A p \in sent : p.to = Peer(e) /\ p.seq = send_seq[e] => p.chunk = chunk
  BY <1>1 DEF SentFits, Outstanding
<1>8. OneChunkPerSeq'
  <2>1. OneChunkPerSeq /\ sent' = sent \cup {d}
    BY <1>3
  <2> QED
    BY <1>2, <1>7, <2>1, SMTT(30) DEF OneChunkPerSeq
<1>9. ASSUME NEW f \in Ends PROVE Level(f)' \/ OneAhead(f)'
  <2>1. Level(f) \/ OneAhead(f)
    OBVIOUS
  <2> QED
    BY <1>1, <1>3, <2>1, PeerFacts DEF Level, OneAhead, Outstanding, TypeOK
<1>10. ASSUME NEW f \in Ends PROVE SentFits(f)' /\ WriterFits(f)'
  <2>1. CASE f # e
    <3>1. current'[f] = current[f] /\ writer'[f] = writer[f] /\ Peer(f) # Peer(e)
      BY <1>3, <2>1, PeerFacts DEF TypeOK
    <3> QED
      BY <1>2, <1>3, <3>1 DEF SentFits, Outstanding, WriterFits
  <2>2. CASE f = e
    <3>1. current'[e] = chunk /\ writer'[e] = "await"
      BY <1>3 DEF TypeOK
    <3>2. WriterFits(e)'
      BY <1>1, <1>3, <3>1 DEF WriterFits, Outstanding, Chunk
    <3>3. send_seq[e] \in Nat
      BY DEF TypeOK
    <3>4. SentFits(e)'
      <4> SUFFICES ASSUME NEW p \in sent', p.to = Peer(e)
                   PROVE  p.seq <= send_seq[e] /\ (p.seq = send_seq[e] => p.chunk = chunk)
        BY <1>1, <1>3, <3>1 DEF SentFits, Outstanding
      <4>1. CASE p = d
        BY <1>2, <3>3, <4>1
      <4>2. CASE p \in sent
        BY <1>7, <4>2 DEF SentFits
      <4> QED
        BY <1>3, <4>1, <4>2
    <3> QED
      BY <2>2, <3>2, <3>4
  <2> QED
    BY <2>1, <2>2
<1> QED
  BY <1>4, <1>5, <1>6, <1>8, <1>9, <1>10

\* Resending the current chunk adds nothing new.
LEMMA WriteResendStep ==
    ASSUME IInv, NEW e \in Ends, WriteResend(e)
    PROVE  IInv'
<1> DEFINE d == CurrentPacket(e)
<1> USE DEF IInv, stateVars
<1>1. /\ d \in Packet /\ d.kind = "Data" /\ d.to = Peer(e)
      /\ d.seq = send_seq[e] /\ d.chunk = current[e]
  BY PeerFacts, PacketTypes DEF CurrentPacket, DataPacket, TypeOK
<1>2. /\ writer[e] = "await" /\ tries[e] < RETRIES
      /\ tries' = [tries EXCEPT ![e] = @ + 1]
      /\ net' = net \cup {d} /\ sent' = sent \cup {d}
      /\ UNCHANGED <<stateVars, send_seq, current, accepted, taken, reader, writer>>
  BY DEF WriteResend, Send
<1> HIDE DEF d
<1>3. TypeOK'
  <2>1. tries' \in [Ends -> 0 .. RETRIES]
    BY <1>2, SessionAssumption DEF TypeOK
  <2> QED
    BY <1>1, <1>2, <2>1 DEF TypeOK
<1>4. OutOfOrderBufferUnused' /\ InOrder'
  BY <1>2 DEF OutOfOrderBufferUnused, InOrder, ByteBefore
<1>5. NetFits'
  BY <1>1, <1>2 DEF NetFits
<1>6. OneChunkPerSeq'
  BY <1>1, <1>2 DEF OneChunkPerSeq, SentFits, Outstanding
<1>7. \A f \in Ends : Level(f)' \/ OneAhead(f)'
  BY <1>2 DEF Level, OneAhead, Outstanding, LastByte, ByteBefore
<1>8. ASSUME NEW f \in Ends PROVE SentFits(f)' /\ WriterFits(f)'
  <2>1. send_seq[e] \in Nat /\ (Peer(f) = Peer(e) => f = e)
    BY PeerFacts DEF TypeOK
  <2>2. Outstanding(e)
    BY <1>2 DEF WriterFits, Outstanding
  <2>3. WriterFits(f)'
    BY <1>2 DEF WriterFits, Outstanding
  <2>4. ASSUME NEW p \in sent', p.to = Peer(f)
        PROVE  /\ p.seq <= send_seq[f]
               /\ p.seq = send_seq[f] =>
                      writer[f] # "idle" /\ p.chunk = current[f] /\ Outstanding(f)
    <3>1. CASE p = d
      BY <1>1, <1>2, <2>1, <2>2, <2>4, <3>1
    <3>2. CASE p \in sent
      BY <2>4, <3>2 DEF SentFits
    <3> QED
      BY <1>2, <3>1, <3>2
  <2> QED
    BY <1>2, <2>3, <2>4 DEF SentFits, Outstanding
<1> QED
  BY <1>3, <1>4, <1>5, <1>6, <1>7, <1>8

\* The awaited ACK: the peer is one chunk ahead, and the writer catches up.
LEMMA WriteAckStep ==
    ASSUME IInv, NEW e \in Ends, WriteAck(e)
    PROVE  IInv' /\ OneAhead(e)
<1> USE DEF IInv, stateVars
<1>1. /\ writer[e] = "await"
      /\ send_seq' = [send_seq EXCEPT ![e] = @ + 1]
      /\ accepted' = [accepted EXCEPT ![e] = current[e].hi]
      /\ writer' = [writer EXCEPT ![e] = "idle"]
      /\ UNCHANGED <<stateVars, current, tries, taken, reader, net, sent>>
  BY DEF WriteAck, GoTo
<1>2. PICK a \in net : a.to = e /\ a.kind = "Ack" /\ a.seq = send_seq[e]
  BY DEF WriteAck, Arriving
<1>3. send_seq[e] < recv_seq[Peer(e)]
  BY <1>2 DEF NetFits
<1>4. OneAhead(e)
  <2>1. send_seq[e] \in Nat
    BY DEF TypeOK
  <2> QED
    BY <1>3, <2>1 DEF Level
<1>5. TypeOK'
  <2>1. send_seq' \in [Ends -> Nat]
    BY <1>1 DEF TypeOK
  <2>2. accepted' \in [Ends -> Nat]
    BY <1>1 DEF TypeOK, Chunk
  <2>3. writer' \in [Ends -> {"idle", "await", "retry", "done"}]
    BY <1>1 DEF TypeOK
  <2> QED
    BY <1>1, <2>1, <2>2, <2>3 DEF TypeOK
<1>6. OutOfOrderBufferUnused' /\ InOrder' /\ OneChunkPerSeq'
  BY <1>1 DEF OutOfOrderBufferUnused, InOrder, OneChunkPerSeq, ByteBefore
<1>7. NetFits'
  BY <1>1 DEF NetFits
<1>8. ASSUME NEW f \in Ends
      PROVE  (Level(f)' \/ OneAhead(f)') /\ SentFits(f)' /\ WriterFits(f)'
  <2>1. CASE f # e
    <3>1. /\ send_seq'[f] = send_seq[f] /\ accepted'[f] = accepted[f]
          /\ writer'[f] = writer[f]
      BY <1>1, <2>1 DEF TypeOK
    <3>2. Level(f)' \/ OneAhead(f)'
      BY <1>1, <3>1 DEF Level, OneAhead, Outstanding
    <3>3. SentFits(f)' /\ WriterFits(f)'
      BY <1>1, <3>1 DEF SentFits, Outstanding, WriterFits
    <3> QED
      BY <3>2, <3>3
  <2>2. CASE f = e
    <3>1. /\ send_seq'[e] = send_seq[e] + 1 /\ accepted'[e] = current[e].hi
          /\ writer'[e] = "idle" /\ send_seq[e] \in Nat
          /\ current[e].hi \in Nat
      BY <1>1 DEF TypeOK, Chunk
    <3>2. Level(e)'
      BY <1>1, <1>4, <3>1 DEF Level, OneAhead, Outstanding
    <3>3. WriterFits(e)'
      BY <1>1, <3>1 DEF WriterFits, Outstanding
    <3>4. \A p \in sent : p.seq \in Nat
      BY DEF TypeOK, Packet
    <3>5. SentFits(e)'
      <4>1. ASSUME NEW p \in sent, p.to = Peer(e)
            PROVE  p.seq <= send_seq[e] + 1 /\ p.seq # send_seq[e] + 1
        BY <3>1, <3>4, <4>1 DEF SentFits
      <4> QED
        BY <1>1, <3>1, <4>1 DEF SentFits
    <3> QED
      BY <2>2, <3>2, <3>3, <3>5
  <2> QED
    BY <2>1, <2>2
<1> QED
  BY <1>4, <1>5, <1>6, <1>7, <1>8

\* The reader's steps other than taking DATA, and the steps that end a thread.
LEMMA ThreadStep ==
    ASSUME IInv, NEW e \in Ends,
           \/ ReadPending(e) \/ ReadWait(e) \/ ReadCheck(e)
           \/ ReadTimeout(e) \/ ReadClose(e)
           \/ WriteTimeout(e) \/ WriteClose(e)
           \/ StopReading(e) \/ StopWriting(e)
    PROVE  IInv'
<1>1. TypeOK
  BY DEF IInv
<1>2. UNCHANGED <<stateVars, writeVars, net, sent>>
  BY DEF ReadPending, ReadWait, ReadCheck, ReadTimeout, ReadClose, WriteTimeout,
         WriteClose, StopReading, StopWriting
<1>3. taken' \in [Ends -> Nat]
  <2>1. Len(received[e]) \in Nat /\ taken[e] \in Nat
    BY <1>1 DEF TypeOK
  <2>2. \/ UNCHANGED taken
        \/ \E n \in (taken[e] + 1) .. Len(received[e]) :
               taken' = [taken EXCEPT ![e] = n]
    BY DEF ReadPending, ReadWait, ReadCheck, ReadTimeout, ReadClose, Drain,
           WriteTimeout, WriteClose, StopReading, StopWriting
  <2>3. ASSUME NEW n \in (taken[e] + 1) .. Len(received[e]),
               taken' = [taken EXCEPT ![e] = n]
        PROVE  taken' \in [Ends -> Nat]
    <3>1. n \in Nat
      BY <2>1
    <3> QED
      BY <1>1, <2>3, <3>1 DEF TypeOK
  <2> QED
    BY <1>1, <2>2, <2>3 DEF TypeOK
<1>4. reader' \in [Ends -> {"idle", "recv", "check", "done"}]
  BY <1>1 DEF TypeOK, GoTo, Drain, ReadPending, ReadWait, ReadCheck, ReadTimeout,
              ReadClose, WriteTimeout, WriteClose, StopReading, StopWriting
<1>5. /\ writer' \in [Ends -> {"idle", "await", "retry", "done"}]
      /\ \A f \in Ends :
             \/ writer'[f] = writer[f]
             \/ writer'[f] = "done"
             \/ writer[f] = "await" /\ writer'[f] = "retry"
  BY <1>1 DEF TypeOK, GoTo, ReadPending, ReadWait, ReadCheck, ReadTimeout,
              ReadClose, WriteTimeout, WriteClose, StopReading, StopWriting
<1> QED
  BY <1>1, <1>2, <1>3, <1>4, <1>5, QuietStep DEF TypeOK

\* The Swift client's CLOSE stops its threads and adds a packet without a payload.
LEMMA CloseStep ==
    ASSUME IInv, NEW e \in Ends, Close(e)
    PROVE  IInv'
<1>1. TypeOK
  BY DEF IInv
<1> DEFINE c == ClosePacket(Peer(e), send_seq[e])
<1>2. c \in Packet /\ c.kind = "Close"
  BY <1>1, PeerFacts, PacketTypes DEF TypeOK, ClosePacket, NoPayload, Chunk
<1>3. /\ net' = net \cup {c}
      /\ writer' = [writer EXCEPT ![e] = "done"]
      /\ reader' = [reader EXCEPT ![e] = "done"]
      /\ UNCHANGED <<stateVars, writeVars, taken, sent>>
  BY DEF Close, GoTo
<1> HIDE DEF c
<1> QED
  BY <1>1, <1>2, <1>3, QuietStep DEF TypeOK

\* Losing a packet leaves fewer to account for.
LEMMA LoseStep ==
    ASSUME IInv, NEW p \in net, Lose(p)
    PROVE  IInv'
BY QuietStep DEF Lose, IInv, TypeOK

\* Every step of either end and of the network keeps the invariant.
LEMMA NextIInv ==
    ASSUME SteadyCallers, IInv, [Next]_vars
    PROVE  IInv'
<1>1. ASSUME NEW e \in Ends, Read(e) PROVE IInv'
  <2>1. ASSUME NEW p \in Arriving(e, "Data"), ReadData(e, p) PROVE IInv'
    <3>1. reader' \in [Ends -> {"idle", "recv", "check", "done"}]
      BY <2>1 DEF ReadData, GoTo, IInv, TypeOK
    <3> QED
      BY <2>1, <3>1, HandleDataStep DEF ReadData
  <2> QED
    BY <1>1, <2>1, ThreadStep DEF Read
<1>2. ASSUME NEW e \in Ends, Write(e) PROVE IInv'
  <2>1. ASSUME NEW p \in Arriving(e, "Data"), WriteData(e, p) PROVE IInv'
    <3>1. reader' \in [Ends -> {"idle", "recv", "check", "done"}]
      BY <2>1 DEF WriteData, IInv, TypeOK
    <3> QED
      BY <2>1, <3>1, HandleDataStep DEF WriteData
  <2> QED
    BY <1>2, <2>1, WriteStartStep, WriteAckStep, WriteResendStep, ThreadStep
       DEF Write
<1>3. ASSUME UNCHANGED vars PROVE IInv'
  BY <1>3, QuietStep DEF vars, stateVars, writeVars, IInv, TypeOK
<1> QED
  BY <1>1, <1>2, <1>3, ThreadStep, CloseStep, LoseStep DEF Next

-----------------------------------------------------------------------------
\* The invariant gives the properties a caller relies on.
LEMMA IInvSuffices ==
    ASSUME IInv
    PROVE  AcceptedWasReceived /\ AckedIsKept /\ NothingHeldBack
<1>1. AcceptedWasReceived
  <2> SUFFICES ASSUME NEW e \in Ends
               PROVE  accepted[e] <= LastByte(received[Peer(e)])
    BY DEF AcceptedWasReceived
  <2>1. accepted[e] \in Nat /\ current[e].hi \in Nat
    BY DEF IInv, TypeOK, Chunk
  <2>2. Level(e) \/ OneAhead(e)
    BY DEF IInv
  <2> QED
    BY <2>1, <2>2 DEF Level, OneAhead, Outstanding
<1>2. AckedIsKept
  BY DEF IInv, NetFits, AckedIsKept
<1>3. NothingHeldBack
  BY DEF IInv, OutOfOrderBufferUnused, NothingHeldBack, Ahead
<1> QED
  BY <1>1, <1>2, <1>3

\* The types of UdpSession are kept, and its strengthened invariant holds, as
\* long as no caller grows a chunk that timed out.
THEOREM SessionInvariant ==
    ASSUME SteadyCallers
    PROVE  Spec => []IInv
<1>1. IInv /\ [Next]_vars => IInv'
  BY NextIInv
<1> QED
  BY <1>1, InitIInv, PTL DEF Spec

\* The state of both streams keeps its type: write() never counts more than
\* RETRIES sends, and nothing but packets of the session is buffered.
THEOREM SessionTypeOK ==
    ASSUME SteadyCallers
    PROVE  Spec => []TypeOK
PROOF
<1>1. IInv => TypeOK
  BY DEF IInv
<1> QED
  BY <1>1, SessionInvariant, PTL

\* What handle_data_packet delivers is the peer's stream in order, without a
\* gap or a repetition.
THEOREM SessionInOrder ==
    ASSUME SteadyCallers
    PROVE  Spec => []InOrder
<1>1. IInv => InOrder
  BY DEF IInv
<1> QED
  BY <1>1, SessionInvariant, PTL

\* A byte for which write returned Ok has reached the peer's pending_read.
THEOREM SessionAcceptedWasReceived ==
    ASSUME SteadyCallers
    PROVE  Spec => []AcceptedWasReceived
<1>1. IInv => AcceptedWasReceived
  BY IInvSuffices
<1> QED
  BY <1>1, SessionInvariant, PTL

\* A sequence number of a direction stands for one chunk.
THEOREM SessionOneChunkPerSeq ==
    ASSUME SteadyCallers
    PROVE  Spec => []OneChunkPerSeq
<1>1. IInv => OneChunkPerSeq
  BY DEF IInv
<1> QED
  BY <1>1, SessionInvariant, PTL

\* The unbounded out-of-order buffer is never used between two conforming ends.
THEOREM SessionBufferUnused ==
    ASSUME SteadyCallers
    PROVE  Spec => []OutOfOrderBufferUnused
<1>1. IInv => OutOfOrderBufferUnused
  BY DEF IInv
<1> QED
  BY <1>1, SessionInvariant, PTL

-----------------------------------------------------------------------------
(***************************************************************************)
(* Refinement of BytePipe.                                                 *)
(***************************************************************************)
offeredBar == [e \in Ends |-> current[e].hi]
deliveredBar == [e \in Ends |-> LastByte(received[Peer(e)])]

\* Two fresh streams are two empty pipes.
LEMMA PipeInit == Init => Pipe!Init
BY PeerFacts DEF Init, Pipe!Init, NoPayload, LastByte, ByteBefore

\* Steps that touch neither the chunk under way nor what was received stutter.
LEMMA PipeStutter ==
    ASSUME UNCHANGED <<received, current, accepted>>
    PROVE  UNCHANGED Pipe!vars
BY DEF Pipe!vars, LastByte, ByteBefore

\* Taking in the peer's current chunk is Deliver, an old packet a stutter.
LEMMA PipeHandleData ==
    ASSUME IInv, NEW e \in Ends, NEW p \in Arriving(e, "Data"),
           HandleData(e, p), UNCHANGED <<writeVars, sent>>
    PROVE  [Pipe!Next]_(Pipe!vars)
<1> DEFINE w == Peer(e)
<1> USE DEF IInv, writeVars
<1>1. /\ p \in Packet /\ p \in sent /\ p.to = e
      /\ p.seq \in Nat /\ p.chunk \in Chunk
      /\ w \in Ends /\ w # e /\ Peer(w) = e
      /\ \A f \in Ends : f = e \/ f = w
  BY PeerFacts DEF Arriving, TypeOK, NetFits, Packet
<1>2. p.seq <= send_seq[w]
  BY <1>1 DEF SentFits, Outstanding
<1>3. CASE IgnoreRepeat(e, p) \/ KeepForLater(e, p)
  BY <1>3, PipeStutter DEF IgnoreRepeat, KeepForLater, stateVars
<1>4. CASE AcceptInOrder(e, p)
  <2>1. /\ p.seq = recv_seq[e]
        /\ received' = [received EXCEPT ![e] = Append(@, p.chunk)]
    BY <1>1, <1>4, AcceptAlone DEF OutOfOrderBufferUnused
  <2>2. Level(w)
    <3>1. Level(w) \/ OneAhead(w)
      BY <1>1
    <3>2. send_seq[w] \in Nat /\ recv_seq[e] \in Nat
      BY <1>1 DEF TypeOK
    <3>3. OneAhead(w) => recv_seq[e] = send_seq[w] + 1
      BY <1>1 DEF OneAhead
    <3>4. recv_seq[e] <= send_seq[w]
      BY <1>2, <2>1
    <3>5. ~ OneAhead(w)
      BY <3>2, <3>3, <3>4
    <3> QED
      BY <3>1, <3>5
  <2>3. p.chunk = current[w] /\ Outstanding(w)
    BY <1>1, <2>1, <2>2 DEF Level, SentFits
  <2>4. LastByte(received[e]) = accepted[w]
    BY <1>1, <2>2 DEF Level
  <2>5. /\ received'[e] = Append(received[e], p.chunk)
        /\ \A f \in Ends : f # e => received'[f] = received[f]
        /\ received[e] \in Seq(Chunk)
    BY <2>1 DEF TypeOK
  <2>6. LastByte(received'[e]) = current[w].hi
    BY <1>1, <2>3, <2>5 DEF LastByte, ByteBefore
  <2>7. deliveredBar[w] < offeredBar[w]
    BY <1>1, <2>3, <2>4 DEF deliveredBar, offeredBar, Outstanding
  <2>8. deliveredBar' = [deliveredBar EXCEPT ![w] = offeredBar[w]]
    <3>1. ASSUME NEW f \in Ends
          PROVE  LastByte(received'[Peer(f)]) =
                     IF f = w THEN current[w].hi ELSE LastByte(received[Peer(f)])
      BY <1>1, <2>5, <2>6, PeerFacts
    <3> QED
      BY <1>1, <3>1 DEF deliveredBar, offeredBar
  <2>9. UNCHANGED <<offeredBar, accepted>>
    BY DEF offeredBar
  <2>10. Pipe!Deliver(w)
    BY <2>7, <2>8, <2>9 DEF Pipe!Deliver, deliveredBar, offeredBar
  <2> QED
    BY <1>1, <2>10 DEF Pipe!Next
<1> QED
  BY <1>3, <1>4 DEF HandleData

\* A new chunk is Offer, the chunk that timed out a stutter.
LEMMA PipeWriteStart ==
    ASSUME IInv, SteadyCallers, NEW e \in Ends, NEW chunk \in Offers(e),
           WriteStart(e, chunk)
    PROVE  [Pipe!Next]_(Pipe!vars)
<1> USE DEF IInv
<1>1. /\ chunk.hi > accepted[e]
      /\ writer[e] = "idle" \/ (writer[e] = "retry" /\ chunk = current[e])
  <2>1. accepted[e] \in Nat
    BY DEF TypeOK
  <2>2. MayOffer(e, chunk)
    BY DEF WriteStart
  <2>3. chunk.hi \in Int
    <3>1. StreamLen[e] \in Nat
      BY SessionAssumption
    <3> QED
      BY <3>1 DEF Offers
  <2> QED
    BY <2>1, <2>2, <2>3, SessionAssumption DEF MayOffer, SteadyCallers
<1>2. /\ current' = [current EXCEPT ![e] = chunk]
      /\ UNCHANGED <<received, accepted>>
      /\ current \in [Ends -> Chunk]
  BY DEF WriteStart, stateVars, TypeOK
<1>3. CASE chunk = current[e]
  <2>1. current' = current
    BY <1>2, <1>3
  <2> QED
    BY <1>2, <2>1, PipeStutter
<1>4. CASE writer[e] = "idle"
  <2>1. offeredBar[e] = accepted[e]
    BY <1>4 DEF WriterFits, offeredBar
  <2>2. offeredBar' = [offeredBar EXCEPT ![e] = offeredBar'[e]]
    BY <1>2 DEF offeredBar
  <2>3. offeredBar'[e] > offeredBar[e]
    BY <1>1, <1>2, <2>1 DEF offeredBar
  <2>4. UNCHANGED deliveredBar
    BY <1>2 DEF deliveredBar, LastByte, ByteBefore
  <2>5. Pipe!Offer(e)
    BY <1>2, <2>1, <2>2, <2>3, <2>4 DEF Pipe!Offer, offeredBar, deliveredBar
  <2> QED
    BY <2>5 DEF Pipe!Next
<1> QED
  BY <1>1, <1>3, <1>4

\* The awaited ACK is Accept.
LEMMA PipeWriteAck ==
    ASSUME IInv, NEW e \in Ends, WriteAck(e)
    PROVE  Pipe!Accept(e)
<1>1. OneAhead(e)
  BY WriteAckStep
<1>2. deliveredBar[e] = current[e].hi /\ accepted[e] < deliveredBar[e]
  BY <1>1 DEF OneAhead, Outstanding, deliveredBar, IInv, TypeOK, Chunk
<1>3. accepted' = [accepted EXCEPT ![e] = deliveredBar[e]]
  BY <1>2 DEF WriteAck
<1>4. UNCHANGED <<offeredBar, deliveredBar>>
  BY DEF WriteAck, stateVars, offeredBar, deliveredBar, LastByte, ByteBefore
<1> QED
  BY <1>2, <1>3, <1>4 DEF Pipe!Accept, offeredBar, deliveredBar

\* Every step of a session is a step of its two pipes or changes none of them.
LEMMA PipeNext ==
    ASSUME SteadyCallers, IInv, [Next]_vars
    PROVE  [Pipe!Next]_(Pipe!vars)
<1>1. ASSUME NEW e \in Ends, Read(e) PROVE [Pipe!Next]_(Pipe!vars)
  <2>1. ASSUME NEW p \in Arriving(e, "Data"), ReadData(e, p)
        PROVE  [Pipe!Next]_(Pipe!vars)
    BY <2>1, PipeHandleData DEF ReadData
  <2>2. CASE UNCHANGED <<stateVars, writeVars>>
    BY <2>2, PipeStutter DEF stateVars, writeVars
  <2> QED
    BY <1>1, <2>1, <2>2
       DEF Read, ReadPending, ReadWait, ReadCheck, ReadTimeout, ReadClose
<1>2. ASSUME NEW e \in Ends, Write(e) PROVE [Pipe!Next]_(Pipe!vars)
  <2>1. ASSUME NEW p \in Arriving(e, "Data"), WriteData(e, p)
        PROVE  [Pipe!Next]_(Pipe!vars)
    BY <2>1, PipeHandleData DEF WriteData
  <2>2. CASE WriteAck(e)
    BY <2>2, PipeWriteAck DEF Pipe!Next
  <2>3. CASE UNCHANGED <<received, current, accepted>>
    BY <2>3, PipeStutter
  <2> QED
    BY <1>2, <2>1, <2>2, <2>3, PipeWriteStart
       DEF Write, WriteResend, WriteTimeout, WriteClose, stateVars, writeVars
<1>3. CASE UNCHANGED <<received, current, accepted>>
  BY <1>3, PipeStutter
<1> QED
  BY <1>1, <1>2, <1>3
     DEF Next, vars, StopReading, StopWriting, Close, Lose, stateVars, writeVars

\* Each direction of a session is a BytePipe: at most one chunk under way,
\* delivered whole and once, reported as written only after that.
THEOREM SessionImplementsPipe ==
    ASSUME SteadyCallers
    PROVE  Spec => ImplementsPipe
<1>1. IInv /\ [Next]_vars => [Pipe!Next]_(Pipe!vars)
  BY PipeNext
<1> QED
  BY <1>1, PipeInit, SessionInvariant, PTL DEF Spec, ImplementsPipe, Pipe!Spec
=============================================================================
