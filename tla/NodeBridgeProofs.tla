---------------------------- MODULE NodeBridgeProofs ----------------------------
(***************************************************************************)
(* For every number of packets, chunks and retries: between the two        *)
(* threads of a bridge no acknowledged byte is lost.                       *)
(***************************************************************************)
EXTENDS NodeBridge, TLAPS

LEMMA InitIInv == Init => IInv
BY DEF Init, IInv, AckedIsHeld

\* The reader takes what is pending before it writes, and the packet it receives.
LEMMA ReaderKeepsIInv == ASSUME IInv, Reader PROVE IInv'
<1>1. CASE ReaderChecks
  BY <1>1 DEF ReaderChecks, IInv, AckedIsHeld
<1>2. CASE ReaderReceives
  <2>1. /\ toTcp' = toTcp /\ reader = "recv"
        /\ \/ reader' = "ended" /\ UNCHANGED <<pending, chunk, acked>>
           \/ acked' = acked + 1 /\ chunk' = pending + 1 /\ pending' = 0 /\ reader' = "write"
    BY <1>2 DEF ReaderReceives
  <2> QED
    BY <2>1 DEF IInv, AckedIsHeld
<1>3. CASE ReaderTimesOut
  BY <1>3 DEF ReaderTimesOut, session, IInv, AckedIsHeld
<1>4. CASE ReaderWrites
  BY <1>4 DEF ReaderWrites, session, IInv, AckedIsHeld
<1> QED
  BY <1>1, <1>2, <1>3, <1>4 DEF Reader

\* The writer keeps for the reader the DATA that it takes while it waits for an ACK.
LEMMA WriterKeepsIInv == ASSUME IInv, Writer PROVE IInv'
<1>1. UNCHANGED <<reader, chunk, toTcp>>
  BY DEF Writer, WriterReads, WriterReceives, WriterTimesOut, readerVars
<1>2. \/ UNCHANGED <<pending, acked>>
      \/ pending' = pending + 1 /\ acked' = acked + 1
  BY DEF Writer, WriterReads, WriterReceives, WriterTimesOut, session, Kept
<1> QED
  BY <1>1, <1>2 DEF IInv, AckedIsHeld

LEMMA OthersKeepIInv ==
    ASSUME IInv, Open \/ ClientSends \/ ClientAcks \/ Service \/ Join \/ UNCHANGED vars
    PROVE  IInv'
<1>1. UNCHANGED <<pending, chunk, acked, toTcp>>
  BY DEF Open, ClientSends, ClientAcks, Service, Join, vars, session, readerVars
<1>2. reader' = reader \/ (reader = "new" /\ reader' \in {"check", "ended"})
  BY DEF Open, ClientSends, ClientAcks, Service, Join, vars, readerVars
<1> QED
  BY <1>1, <1>2 DEF IInv, AckedIsHeld

\* Whichever thread takes a DATA packet from the shared inbox, its bytes stay with the
\* bridge until they are written to the TCP proxy, as long as the reader runs
\* (bridge_udp_session_to_tcp_proxy, wait_for_ack).
THEOREM NothingAckedIsLost == Spec => []AckedIsHeld
<1>1. IInv /\ [Next]_vars => IInv'
  BY ReaderKeepsIInv, WriterKeepsIInv, OthersKeepIInv DEF Next
<1>2. IInv => AckedIsHeld
  BY DEF IInv
<1> QED
  BY <1>1, <1>2, InitIInv, PTL DEF Spec
=============================================================================
