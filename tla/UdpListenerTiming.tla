--------------------------- MODULE UdpListenerTiming ---------------------------
(***************************************************************************)
(* The time a node's write has, and the time the listener's reader thread  *)
(* may keep it waiting.                                                    *)
(*                                                                         *)
(* The bridge of a session (proxy.rs) polls its stream every PollTimeout,  *)
(* so that write() gives up after RETRIES of them.  The ACK it waits for   *)
(* comes through the one socket of all sessions, whose reader thread sleeps*)
(* between the HELLO_ACKs of a burst (send_ack_burst) and takes nothing    *)
(* meanwhile.  One session writes; the ACK of each packet that is not lost *)
(* arrives RoundTrip after the packet was sent.  Other clients send HELLOs,*)
(* new or repeated ones: the reader answers both with a burst.             *)
(*                                                                         *)
(* The unit of time is a tick of 20 ms.  Whatever can be done is done      *)
(* before time passes, so that nothing but the sleeps and the network is   *)
(* slow.                                                                   *)
(***************************************************************************)
EXTENDS Integers, Sequences

CONSTANTS
    RETRIES,
    PollTimeout,         \* set_poll_timeout of the bridge, in ticks
    ACK_BURST_PACKETS,
    ACK_BURST_INTERVAL,  \* in ticks
    RoundTrip,           \* from sending DATA to the arrival of its ACK, in ticks
    MaxHellos,           \* bound: HELLOs of other clients
    MaxWrites            \* bound: writes of the session

\* What the constants must be.
TimingConstants ==
    /\ {RETRIES, PollTimeout, ACK_BURST_PACKETS, ACK_BURST_INTERVAL} \subseteq Nat \ {0}
    /\ {RoundTrip, MaxHellos, MaxWrites} \subseteq Nat

VARIABLES
    sleep,    \* ticks the reader thread still sleeps, 0 when it receives
    buffer,   \* the socket's receive buffer: HELLOs (Hello) and ACK numbers
    inbox,    \* ACK numbers in the session's PacketInbox
    writer,   \* the writing thread: idle, await, failed
    seq,      \* send_seq
    tries,    \* packets sent by this write
    left,     \* ticks left of this wait
    lost,     \* whether the first packet of this write, or its ACK, was lost
    flight,   \* ACKs under way: the number and the ticks until it arrives
    hellos    \* HELLOs other clients have sent

vars == <<sleep, buffer, inbox, writer, seq, tries, left, lost, flight, hellos>>

Hello == -1
BurstTicks == (ACK_BURST_PACKETS - 1) * ACK_BURST_INTERVAL

TypeOK ==
    /\ sleep \in 0 .. BurstTicks
    /\ buffer \in Seq(Nat \cup {Hello})
    /\ inbox \in Seq(Nat)
    /\ writer \in {"idle", "await", "failed"}
    /\ seq \in 0 .. MaxWrites
    /\ tries \in 0 .. RETRIES
    /\ left \in 0 .. PollTimeout
    /\ lost \in BOOLEAN
    /\ flight \subseteq [seq : Nat, ticks : 0 .. RoundTrip]
    /\ hellos \in 0 .. MaxHellos

Init ==
    /\ sleep = 0 /\ buffer = <<>> /\ inbox = <<>>
    /\ writer = "idle" /\ seq = 0 /\ tries = 0 /\ left = 0
    /\ lost = FALSE /\ flight = {} /\ hellos = 0

\* DATA goes out, to be acknowledged unless it is lost; the wait starts.
SendData(isLost) ==
    /\ flight' = IF isLost THEN flight
                 ELSE flight \cup {[seq |-> seq, ticks |-> RoundTrip]}
    /\ left' = PollTimeout

WriteStart ==
    /\ writer = "idle" /\ seq < MaxWrites
    /\ writer' = "await" /\ tries' = 1
    /\ \E isLost \in BOOLEAN : SendData(isLost) /\ lost' = isLost
    /\ UNCHANGED <<sleep, buffer, inbox, seq, hellos>>

\* wait_for_ack takes an ACK from the inbox: its own ends the write, an older
\* one is dropped and the wait starts anew.
WriteTakesAck ==
    /\ writer = "await" /\ inbox # <<>>
    /\ inbox' = Tail(inbox)
    /\ \/ Head(inbox) = seq /\ writer' = "idle" /\ seq' = seq + 1 /\ UNCHANGED left
       \/ Head(inbox) # seq /\ left' = PollTimeout /\ UNCHANGED <<writer, seq>>
    /\ UNCHANGED <<sleep, buffer, tries, lost, flight, hellos>>

WaitOver == writer = "await" /\ inbox = <<>> /\ left = 0

WriteResends ==
    /\ WaitOver /\ tries < RETRIES
    /\ tries' = tries + 1
    /\ \E isLost \in BOOLEAN : SendData(isLost)
    /\ UNCHANGED <<sleep, buffer, inbox, writer, seq, lost, hellos>>

WriteFails ==
    /\ WaitOver /\ tries = RETRIES
    /\ writer' = "failed"
    /\ UNCHANGED <<sleep, buffer, inbox, seq, tries, left, lost, flight, hellos>>

HelloArrives ==
    /\ hellos < MaxHellos
    /\ hellos' = hellos + 1
    /\ buffer' = Append(buffer, Hello)
    /\ UNCHANGED <<sleep, inbox, writer, seq, tries, left, lost, flight>>

AckArrives(a) ==
    /\ a.ticks = 0
    /\ flight' = flight \ {a}
    /\ buffer' = Append(buffer, a.seq)
    /\ UNCHANGED <<sleep, inbox, writer, seq, tries, left, lost, hellos>>

\* Seeded bug: the pause between two HELLO_ACKs is also made after the last.
ReaderOverslept ==
    /\ sleep = 0 /\ buffer # <<>>
    /\ buffer' = Tail(buffer)
    /\ \/ /\ Head(buffer) = Hello
          /\ sleep' = ACK_BURST_PACKETS * ACK_BURST_INTERVAL /\ UNCHANGED inbox
       \/ Head(buffer) # Hello /\ inbox' = Append(inbox, Head(buffer)) /\ UNCHANGED sleep
    /\ UNCHANGED <<writer, seq, tries, left, lost, flight, hellos>>

\* The reader thread takes a datagram: an ACK goes to the inbox, a HELLO makes
\* it sleep through a burst.
ReaderTakes ==
    /\ sleep = 0 /\ buffer # <<>>
    /\ buffer' = Tail(buffer)
    /\ \/ Head(buffer) = Hello /\ sleep' = BurstTicks /\ UNCHANGED inbox
       \/ Head(buffer) # Hello /\ inbox' = Append(inbox, Head(buffer)) /\ UNCHANGED sleep
    /\ UNCHANGED <<writer, seq, tries, left, lost, flight, hellos>>

Urgent ==
    \/ sleep = 0 /\ buffer # <<>>
    \/ writer = "await" /\ (inbox # <<>> \/ left = 0)
    \/ \E a \in flight : a.ticks = 0

Down(n) == IF n = 0 THEN 0 ELSE n - 1

Tick ==
    /\ ~ Urgent
    /\ sleep' = Down(sleep)
    /\ left' = Down(left)
    /\ flight' = {[a EXCEPT !.ticks = @ - 1] : a \in flight}
    /\ UNCHANGED <<buffer, inbox, writer, seq, tries, lost, hellos>>

Next ==
    \/ WriteStart \/ WriteTakesAck \/ WriteResends \/ WriteFails
    \/ HelloArrives \/ ReaderTakes \/ Tick
    \/ \E a \in flight : AckArrives(a)

Spec == Init /\ [][Next]_vars

\* The listener routes a session's packets while it accepts new sessions: a write
\* does not fail when the ACK of its first packet reaches the node in good time.
RoutesWhileAccepting == writer = "failed" /\ RoundTrip <= PollTimeout => lost
=============================================================================
