---------------------------- MODULE MCUdpListener ----------------------------
(***************************************************************************)
(* The listener for TLC: UdpListener and UdpListenerTiming side by side.   *)
(* The first state chooses one of them, and the other stays as it starts.  *)
(*                                                                         *)
(* UdpListener: the handshake of 8 s stands for up to two units of time,   *)
(* so that the HELLOs leave the client at most one unit after the first,   *)
(* and each may arrive one unit later.  Together that is the window of     *)
(* two, and the node remembers as many handshakes as there are clients:    *)
(* the least for which no HELLO is ever taken for a new one.               *)
(*                                                                         *)
(* UdpListenerTiming: with polls of 80 ms the retries of a write outlive   *)
(* the two bursts that may hold up its ACK.  With the 20 ms that the node  *)
(* sets they do not (UdpListenerTimingNode.cfg).                           *)
(***************************************************************************)
EXTENDS UdpListener

ASSUME RemembersAssumption == RemembersEnough

VARIABLES part, sleep, buffer, inbox, writer, seq, tries, left, lost, flight, hellos

timingVars == <<sleep, buffer, inbox, writer, seq, tries, left, lost, flight, hellos>>

Timing == INSTANCE UdpListenerTiming WITH
    RETRIES <- 5, PollTimeout <- 4, ACK_BURST_PACKETS <- 5, ACK_BURST_INTERVAL <- 2,
    RoundTrip <- 3, MaxHellos <- 2, MaxWrites <- 2

ASSUME TimingAssumption == Timing!TimingConstants

MCInit == part \in {"listener", "timing"} /\ Init /\ Timing!Init
MCNext ==
    \/ part = "listener" /\ Next /\ UNCHANGED <<part, timingVars>>
    \/ part = "timing" /\ Timing!Next /\ UNCHANGED <<part, vars>>

\* Nothing that is assumed to happen can happen before a client has begun.
MCSpec == MCInit /\ [][MCNext]_<<part, vars, timingVars>> /\ Fairness

\* RoutesWhileAccepting of UdpListenerTiming: a write does not fail when the ACK
\* of its first packet reaches the node in good time (send_ack_burst); with the types.
RoutesWhileAccepting == Timing!TypeOK /\ Timing!RoutesWhileAccepting
=============================================================================
