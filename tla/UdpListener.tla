------------------------------ MODULE UdpListener ------------------------------
(***************************************************************************)
(* How the node turns HELLO packets into sessions (udp_session.rs, the     *)
(* UdpSessionListener, and run_udp_session_listener of the home node's     *)
(* proxy.rs).  One thread, the reader, takes every datagram of the socket. *)
(* For a HELLO it looks the handshake up among the recent ones, answers    *)
(* with a burst of HELLO_ACKs that keeps it busy, and for a new handshake  *)
(* then registers an inbox and puts the session into a channel.  Other     *)
(* packets go to the inbox of their source address.  The accept loop takes *)
(* sessions from the channel and gives each a bridge thread; an error in   *)
(* the channel ends it.                                                    *)
(*                                                                         *)
(* A client connects once, from an address and with a token of its own, so *)
(* that the client is the handshake's key.  It repeats its HELLO until it  *)
(* gets a HELLO_ACK or HANDSHAKE_TIMEOUT is over.  A HELLO in flight is    *)
(* there to be received, any number of times, for HelloLife.               *)
(***************************************************************************)
EXTENDS Integers, Sequences, FiniteSets, FiniteSetsExt

CONSTANTS
    Clients,
    HANDSHAKE_TIMEOUT,           \* how long connect() repeats its HELLO
    DUPLICATE_HANDSHAKE_WINDOW,  \* how long the node remembers a handshake
    MAX_RECENT_HANDSHAKES,       \* how many it remembers
    HelloLife,                   \* how long the network may hold a HELLO
    MaxTime,                     \* bound on the clock
    MaxFailures                  \* bound on the failures that are reported

ASSUME ListenerAssumption ==
    /\ {HANDSHAKE_TIMEOUT, DUPLICATE_HANDSHAKE_WINDOW, HelloLife} \subseteq Nat
    /\ MAX_RECENT_HANDSHAKES \in Nat \ {0}
    /\ MaxTime \in Nat /\ MaxFailures \in Nat

VARIABLES
    now,        \* the clock
    client,     \* what each client's connect() is doing
    started,    \* when it started
    hello_until, \* until when a HELLO of each client may arrive, or -1
    acked,      \* clients for which a HELLO_ACK has been sent
    recent,     \* recent_handshakes, oldest first
    reader,     \* what the reader thread is doing
    sessions,   \* history: the client of each session ever made, in order
    active,     \* active_sessions: the session a client's packets go to, or 0
    channel,    \* incoming_sessions: session numbers, Failure or TimedOut
    accepting,  \* whether the accept loop runs
    bridges,    \* sessions that got a bridge thread
    routed,     \* history: the sessions a client's packets went to
    failures    \* how many failures the reader has reported

vars == <<now, client, started, hello_until, acked, recent, reader, sessions, active,
          channel, accepting, bridges, routed, failures>>
clientVars == <<client, started>>
sessionVars == <<sessions, active, bridges, routed>>

Failure == 0
TimedOut == -1
Handshake == [key : Clients, seen_at : Nat]
Waiting == [at |-> "recv"]
Burst == [at : {"burst"}, for : Clients, duplicate : BOOLEAN]
Gone == [at |-> "gone"]

TypeOK ==
    /\ now \in 0 .. MaxTime
    /\ client \in [Clients -> {"new", "trying", "connected", "failed"}]
    /\ started \in [Clients -> Nat]
    /\ hello_until \in [Clients -> Nat \cup {-1}]
    /\ acked \subseteq Clients
    /\ recent \in Seq(Handshake) /\ Len(recent) <= MAX_RECENT_HANDSHAKES
    /\ reader \in {Waiting, Gone} \cup Burst
    /\ sessions \in Seq(Clients)
    /\ active \in [Clients -> 0 .. Len(sessions)]
    /\ channel \in Seq(-1 .. Len(sessions))
    /\ accepting \in BOOLEAN
    /\ bridges \subseteq 1 .. Len(sessions)
    /\ routed \in [Clients -> SUBSET (1 .. Len(sessions))]
    /\ failures \in 0 .. MaxFailures

Init ==
    /\ now = 0
    /\ client = [c \in Clients |-> "new"]
    /\ started = [c \in Clients |-> 0]
    /\ hello_until = [c \in Clients |-> -1]
    /\ acked = {}
    /\ recent = <<>>
    /\ reader = Waiting
    /\ sessions = <<>>
    /\ active = [c \in Clients |-> 0]
    /\ channel = <<>>
    /\ accepting = TRUE
    /\ bridges = {}
    /\ routed = [c \in Clients |-> {}]
    /\ failures = 0

-----------------------------------------------------------------------------
(***************************************************************************)
(* Clients (UdpSessionStream::connect).                                    *)
(***************************************************************************)
Connect(c) ==
    /\ client[c] = "new"
    /\ client' = [client EXCEPT ![c] = "trying"]
    /\ started' = [started EXCEPT ![c] = now]
    /\ hello_until' = [hello_until EXCEPT ![c] = now + HelloLife]
    /\ UNCHANGED <<now, acked, recent, reader, channel, accepting, sessionVars, failures>>

\* No HELLO_ACK within HANDSHAKE_READ_TIMEOUT: once more, until the deadline.
RepeatHello(c) ==
    /\ client[c] = "trying"
    /\ now < started[c] + HANDSHAKE_TIMEOUT
    /\ hello_until' = [hello_until EXCEPT ![c] = now + HelloLife]
    /\ UNCHANGED <<now, clientVars, acked, recent, reader, channel, accepting,
                   sessionVars, failures>>

ConnectOk(c) ==
    /\ client[c] = "trying"
    /\ c \in acked
    /\ client' = [client EXCEPT ![c] = "connected"]
    /\ UNCHANGED <<now, started, hello_until, acked, recent, reader, channel, accepting,
                   sessionVars, failures>>

ConnectTimeout(c) ==
    /\ client[c] = "trying"
    /\ now >= started[c] + HANDSHAKE_TIMEOUT
    /\ client' = [client EXCEPT ![c] = "failed"]
    /\ UNCHANGED <<now, started, hello_until, acked, recent, reader, channel, accepting,
                   sessionVars, failures>>

-----------------------------------------------------------------------------
(***************************************************************************)
(* is_duplicate_handshake: forget the oldest until one is still in the     *)
(* window, look the key up, and remember a new one, dropping the oldest    *)
(* beyond the maximum.                                                     *)
(***************************************************************************)
InWindow == {i \in DOMAIN recent : now - recent[i].seen_at <= DUPLICATE_HANDSHAKE_WINDOW}
Fresh == IF InWindow = {} THEN <<>> ELSE SubSeq(recent, Min(InWindow), Len(recent))

IsRecent(c) == \E i \in DOMAIN Fresh : Fresh[i].key = c

\* Seeded bug: one handshake fewer than the maximum is remembered.
RememberFewer(c) ==
    LET all == Append(Fresh, [key |-> c, seen_at |-> now])
    IN  IF Len(all) >= MAX_RECENT_HANDSHAKES THEN Tail(all) ELSE all

Remember(c) ==
    LET all == Append(Fresh, [key |-> c, seen_at |-> now])
    IN  IF Len(all) > MAX_RECENT_HANDSHAKES THEN Tail(all) ELSE all

(***************************************************************************)
(* The reader thread (run_listener_reader).                                *)
(***************************************************************************)
\* The channel's other end is gone with the accept loop.
Report(result) == channel' = IF accepting THEN Append(channel, result) ELSE channel

\* A HELLO comes in: it is recorded, and its burst of HELLO_ACKs begins.
ReaderHello(c) ==
    /\ reader = Waiting
    /\ now <= hello_until[c]
    /\ recent' = IF IsRecent(c) THEN Fresh ELSE Remember(c)
    /\ acked' = acked \cup {c}
    /\ reader' = [at |-> "burst", for |-> c, duplicate |-> IsRecent(c)]
    /\ UNCHANGED <<now, clientVars, hello_until, channel, accepting, sessionVars, failures>>

ReportFailure(result) ==
    /\ failures < MaxFailures
    /\ failures' = failures + 1
    /\ Report(result)

\* A HELLO whose JSON does not parse is reported to the accept loop.
ReaderBadHello ==
    /\ reader = Waiting
    /\ ReportFailure(Failure)
    /\ UNCHANGED <<now, clientVars, hello_until, acked, recent, reader, accepting,
                   sessionVars>>

\* The socket fails: the reader reports it and ends.
ReaderFails ==
    /\ reader = Waiting
    /\ ReportFailure(Failure)
    /\ reader' = Gone
    /\ UNCHANGED <<now, clientVars, hello_until, acked, recent, accepting, sessionVars>>

\* A new inbox and a new stream, the inbox in place of the address' old one.
MakeSession(c) ==
    /\ sessions' = Append(sessions, c)
    /\ active' = [active EXCEPT ![c] = Len(sessions) + 1]
    /\ Report(Len(sessions) + 1)

\* The burst is over: a repeated HELLO is done with, a new one makes a session,
\* and the reader ends if nobody is there to take it.
BurstDone ==
    /\ reader \in Burst
    /\ \/ /\ reader.duplicate
          /\ reader' = Waiting
          /\ UNCHANGED <<sessions, active, channel>>
       \/ /\ ~ reader.duplicate
          /\ reader' = IF accepting THEN Waiting ELSE Gone
          /\ MakeSession(reader.for)
    /\ UNCHANGED <<now, clientVars, hello_until, acked, recent, accepting, bridges, routed,
                   failures>>

\* A send of the burst fails or times out, or making the stream fails when its
\* inbox is already in place.  The handshake stays among the recent ones.
BurstFails ==
    /\ reader \in Burst
    /\ reader' = Waiting
    /\ \/ /\ \E result \in {Failure, TimedOut} : ReportFailure(result)
          /\ UNCHANGED <<sessions, active>>
       \/ /\ ReportFailure(Failure)
          /\ ~ reader.duplicate
          /\ sessions' = Append(sessions, reader.for)
          /\ active' = [active EXCEPT ![reader.for] = Len(sessions) + 1]
    /\ UNCHANGED <<now, clientVars, hello_until, acked, recent, accepting, bridges, routed>>

\* DATA, ACK or CLOSE of a connected client goes to its address' inbox.
ReaderRoute(c) ==
    /\ reader = Waiting
    /\ client[c] = "connected" /\ active[c] # 0
    /\ routed' = [routed EXCEPT ![c] = @ \cup {active[c]}]
    /\ UNCHANGED <<now, clientVars, hello_until, acked, recent, reader, channel, accepting,
                   sessions, active, bridges, failures>>

\* The listener was dropped: the reader ends.
ReaderStops ==
    /\ reader = Waiting
    /\ ~ accepting
    /\ reader' = Gone
    /\ UNCHANGED <<now, clientVars, hello_until, acked, recent, channel, accepting,
                   sessionVars, failures>>

(***************************************************************************)
(* The accept loop of the node (run_udp_session_listener).                 *)
(***************************************************************************)
\* Seeded bug: the loop serves a session itself and takes no other meanwhile.
AcceptInline ==
    /\ accepting /\ channel # <<>> /\ bridges = {}
    /\ channel' = Tail(channel)
    /\ \/ /\ Head(channel) > 0
          /\ bridges' = bridges \cup {Head(channel)}
          /\ UNCHANGED accepting
       \/ /\ Head(channel) = TimedOut
          /\ UNCHANGED <<bridges, accepting>>
       \/ /\ Head(channel) = Failure
          /\ accepting' = FALSE
          /\ UNCHANGED bridges
    /\ UNCHANGED <<now, clientVars, hello_until, acked, recent, reader, sessions, active,
                   routed, failures>>

\* A session gets a thread of its own; a timeout is passed over, for that is
\* what accept() returns when nothing came; any other error ends the loop.
Accept ==
    /\ accepting /\ channel # <<>>
    /\ channel' = Tail(channel)
    /\ \/ /\ Head(channel) > 0
          /\ bridges' = bridges \cup {Head(channel)}
          /\ UNCHANGED accepting
       \/ /\ Head(channel) = TimedOut
          /\ UNCHANGED <<bridges, accepting>>
       \/ /\ Head(channel) = Failure
          /\ accepting' = FALSE
          /\ UNCHANGED bridges
    /\ UNCHANGED <<now, clientVars, hello_until, acked, recent, reader, sessions, active,
                   routed, failures>>

\* The node shuts down.
Shutdown ==
    /\ accepting
    /\ accepting' = FALSE
    /\ UNCHANGED <<now, clientVars, hello_until, acked, recent, reader, channel,
                   sessionVars, failures>>

Tick ==
    /\ now < MaxTime
    /\ now' = now + 1
    /\ UNCHANGED <<clientVars, hello_until, acked, recent, reader, channel, accepting,
                   sessionVars, failures>>

Next ==
    \/ \E c \in Clients :
           \/ Connect(c) \/ RepeatHello(c) \/ ConnectOk(c) \/ ConnectTimeout(c)
           \/ ReaderHello(c) \/ ReaderRoute(c)
    \/ ReaderBadHello \/ ReaderFails \/ BurstDone \/ BurstFails \/ ReaderStops
    \/ Accept \/ Shutdown \/ Tick

Spec == Init /\ [][Next]_vars

\* The node's threads make progress and channel entries are taken; nothing is
\* assumed of clients, the network, or the failures.
Fairness == WF_vars(BurstDone \/ BurstFails) /\ WF_vars(Accept)

-----------------------------------------------------------------------------
\* The packets of a connection all go to one session: no late or repeated HELLO
\* makes the reader replace the inbox of a session that is in use.
OneSessionPerConnection == \A c \in Clients : \A i, j \in routed[c] : i = j

Failed == failures > 0

\* A HELLO_ACK is a promise: a client whose connect() succeeded has an inbox,
\* unless its burst is still going on or the reader has reported a failure.
AckMeansSession ==
    \A c \in Clients : client[c] = "connected" =>
        \/ active[c] # 0
        \/ reader \in Burst /\ reader.for = c
        \/ Failed

\* Every session is bridged to the service once the accept loop gets to it,
\* unless the loop has ended.
SessionsAreBridged ==
    \A n \in 1 .. Cardinality(Clients) :
        (n \in 1 .. Len(sessions)) ~> (n \in bridges \/ ~ accepting)

(***************************************************************************)
(* The inductive invariant, for a node that remembers every handshake for  *)
(* as long as one of its HELLOs may still come.  A handshake that has a    *)
(* session, or a burst, is then remembered or can no longer come, so that  *)
(* a client gets one session and its inbox is never replaced.              *)
(***************************************************************************)
RemembersEnough ==
    /\ HelloLife <= DUPLICATE_HANDSHAKE_WINDOW
    /\ HANDSHAKE_TIMEOUT + HelloLife <= DUPLICATE_HANDSHAKE_WINDOW + 1
    /\ IsFiniteSet(Clients) /\ Cardinality(Clients) <= MAX_RECENT_HANDSHAKES

Known(c) == \E i \in DOMAIN recent : recent[i].key = c
HasSession(c) == \E n \in DOMAIN sessions : sessions[n] = c
InBurst(c) == reader \in Burst /\ reader.for = c

HellosAreTimely ==
    \A c \in Clients :
        /\ started[c] <= now
        /\ client[c] = "new" => hello_until[c] = -1
        /\ client[c] # "new" => hello_until[c] <= started[c] + DUPLICATE_HANDSHAKE_WINDOW

RecentIsSound ==
    /\ \A i \in DOMAIN recent :
           LET h == recent[i]
           IN  client[h.key] # "new" /\ started[h.key] <= h.seen_at /\ h.key \in acked
    /\ \A i, j \in DOMAIN recent : recent[i].key = recent[j].key => i = j

HandledIsKnown ==
    \A c \in Clients : HasSession(c) \/ InBurst(c) =>
        /\ client[c] # "new"
        /\ Known(c) \/ started[c] + DUPLICATE_HANDSHAKE_WINDOW < now

OneSession ==
    /\ \A m, n \in DOMAIN sessions : sessions[m] = sessions[n] => m = n
    /\ \A c \in Clients : InBurst(c) /\ ~ reader.duplicate => ~ HasSession(c)

InboxIsKept ==
    \A c \in Clients :
        /\ active[c] # 0 => sessions[active[c]] = c
        /\ routed[c] \subseteq {active[c]} \ {0}

AckedIsServed ==
    \A c \in Clients :
        /\ client[c] = "connected" => c \in acked
        /\ c \in acked => active[c] # 0 \/ InBurst(c) \/ Failed
        /\ InBurst(c) /\ reader.duplicate => active[c] # 0 \/ Failed

IInv ==
    /\ TypeOK /\ HellosAreTimely /\ RecentIsSound /\ HandledIsKnown
    /\ OneSession /\ InboxIsKept /\ AckedIsServed

\* The packets of a connection all go to one session, whatever HELLOs are late or
\* repeated, and a client whose connect() succeeded has one (is_duplicate_handshake,
\* run_listener_reader); with the inductive invariant.
HandshakesAreSound == IInv /\ OneSessionPerConnection /\ AckMeansSession
=============================================================================
