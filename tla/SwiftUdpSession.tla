--------------------------- MODULE SwiftUdpSession ---------------------------
(***************************************************************************)
(* A session between the Apple client (ForegroundUdpSession.swift, its own *)
(* implementation of the protocol) and the Rust node.  The node's actions  *)
(* and the client's that agree with the Rust ones are those of UdpSession; *)
(* the two places where the Swift client takes in DATA are its own.        *)
(*                                                                         *)
(* The client first writes its request and then reads the response, on one *)
(* thread; a CLOSE to it does not occur, since the node never sends one.   *)
(***************************************************************************)
EXTENDS UdpSession

\* What the constants must be.
SwiftConstants ==
    "client" \notin TwoThreaded /\ OnTimeout["client"] = "abort"

\* read() takes the DATA packet p: it acknowledges every packet and keeps the
\* one that is next.
SwiftReadData(p) ==
    /\ reader["client"] = "recv"
    /\ net' = net \cup {AckPacket("node", p.seq)}
    /\ \/ /\ p.seq = recv_seq["client"]
          /\ recv_seq' = [recv_seq EXCEPT !["client"] = @ + 1]
          /\ received' = [received EXCEPT !["client"] = Append(@, p.chunk)]
          /\ GoTo(reader, "client", "check")
       \/ /\ p.seq # recv_seq["client"]
          /\ UNCHANGED <<recv_seq, received, reader>>
    /\ UNCHANGED <<pending_packets, writeVars, taken, writer, sent>>

\* waitForAck() takes the DATA packet p: it acknowledges and keeps every packet
\* and leaves recvSeq alone.
SwiftWaitData(p) ==
    /\ writer["client"] = "await"
    /\ net' = net \cup {AckPacket("node", p.seq)}
    /\ received' = [received EXCEPT !["client"] = Append(@, p.chunk)]
    /\ UNCHANGED <<recv_seq, pending_packets, writeVars, taken, reader, writer, sent>>

SwiftClient ==
    \/ ReadPending("client") \/ ReadWait("client") \/ ReadCheck("client")
    \/ ReadTimeout("client")
    \/ \E p \in Arriving("client", "Data") : SwiftReadData(p) \/ SwiftWaitData(p)
    \/ \E chunk \in Offers("client") : WriteStart("client", chunk)
    \/ WriteAck("client") \/ WriteResend("client") \/ WriteTimeout("client")
    \/ Close("client")

SwiftNext ==
    \/ SwiftClient
    \/ Read("node") \/ Write("node") \/ StopReading("node") \/ StopWriting("node")
    \/ \E p \in net : Lose(p)

SwiftSpec == Init /\ [][SwiftNext]_vars

-----------------------------------------------------------------------------
\* What end w writes arrives in order, without a gap or a repetition, and is
\* there once write() has reported it.
Intact(w) ==
    LET chunks == received[Peer(w)]
    IN  /\ accepted[w] <= LastByte(chunks)
        /\ \A i \in 1 .. Len(chunks) : chunks[i].lo = ByteBefore(chunks, i) + 1

\* The request reaches the node's handle_data_packet intact, whatever the Swift
\* client does with the packets of the response.
RequestIntact == Intact("client")

\* The response reaches the caller of ForegroundUdpSession.read intact.
ResponseIntact == Intact("node")
=============================================================================
