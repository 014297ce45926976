--------------------------------- MODULE Relay ---------------------------------
(***************************************************************************)
(* Pairing through the TCP relay (relay lib.rs) with the node's connectors *)
(* (home-node proxy.rs).  A node keeps a few outbound sockets waiting at   *)
(* the relay.  The relay keeps them on a stack and never reads them; a     *)
(* client's task pops the newest one that is not older than the TTL, and   *)
(* looks again every 100 ms, TRIES times, when there is none.  The node    *)
(* gives a socket up when no session has come through it within its lease, *)
(* and the relay is not told: the two agree by their timers alone.         *)
(*                                                                         *)
(* Nodes do not share a stack (the map is by node_id), so that one node is *)
(* modelled.  The unit of time is the 100 ms between two tries.            *)
(***************************************************************************)
EXTENDS Integers, Sequences, FiniteSets

CONSTANTS
    Connectors,             \* the connector tasks of the node
    Clients,                \* clients, each asking for the node once
    RELAY_NODE_SOCKET_TTL,  \* how old a socket the relay still hands out
    RELAY_NODE_IDLE_LEASE,  \* how long the node waits on a socket
    RELAY_RECONNECT_DELAY,  \* pause of a connector after an error
    TRIES,                  \* how often a client's task looks for a socket
    HelloDelay,             \* how long a node's hello may take to the relay
    MaxTime,                \* bound on the clock
    MaxFaults, MaxOutage    \* bounds on the faults and how long the node is away

ASSUME RelayAssumption ==
    /\ IsFiniteSet(Connectors) /\ IsFiniteSet(Clients)
    /\ {RELAY_NODE_IDLE_LEASE, RELAY_RECONNECT_DELAY, TRIES} \subseteq Nat \ {0}
    /\ {RELAY_NODE_SOCKET_TTL, HelloDelay, MaxTime} \subseteq Nat
    /\ {MaxFaults, MaxOutage} \subseteq Nat
    /\ RELAY_NODE_IDLE_LEASE <= RELAY_NODE_SOCKET_TTL
    /\ RELAY_RECONNECT_DELAY + HelloDelay < TRIES

VARIABLES
    now,         \* the clock
    connector,   \* what each connector does
    made,        \* number of sockets each connector has opened
    arriving,    \* sockets whose node hello the relay has not read yet
    waiting,     \* waiting_nodes of the node, the newest last
    client,      \* what each client's task does
    calm_since,  \* end of the last fault
    faults       \* number of faults

vars == <<now, connector, made, arriving, waiting, client, calm_since, faults>>

\* A socket: the connector that opened it, which one of its sockets it is, and the
\* time its lease began.
Socket == [by : Connectors, id : Nat, opened : Nat]
Idle(t) == [at |-> "idle", from |-> t]

TypeOK ==
    /\ now \in 0 .. MaxTime
    /\ connector \in [Connectors -> [at : {"idle"}, from : Nat]
                                    \cup [at : {"waiting", "serving"}, on : Socket]]
    /\ made \in [Connectors -> Nat]
    /\ arriving \subseteq Socket
    /\ waiting \in Seq([on : Socket, connected_at : Nat])
    /\ client \in [Clients -> [at : {"new", "cut"}]
                              \cup [at : {"looking"}, tries : 0 .. TRIES, next : Nat]
                              \cup [at : {"paired"}, on : Socket, when : Nat]
                              \cup [at : {"missed"}, when : Nat]]
    /\ calm_since \in Nat
    /\ faults \in 0 .. MaxFaults

Init ==
    /\ now = 0
    /\ connector = [c \in Connectors |-> Idle(0)]
    /\ made = [c \in Connectors |-> 0] /\ arriving = {} /\ waiting = <<>>
    /\ client = [k \in Clients |-> [at |-> "new"]]
    /\ calm_since = 0 /\ faults = 0

Looking(t) == [at |-> "looking", tries |-> t, next |-> now + 1]
IsServed(s) == \E k \in Clients : client[k].at = "paired" /\ client[k].on = s

-----------------------------------------------------------------------------
(***************************************************************************)
(* The node's connectors (spawn_relay_connectors).                         *)
(***************************************************************************)
\* connect_relay_once: connect, send the hello, and wait on the socket.
Open(c) ==
    LET s == [by |-> c, id |-> made[c] + 1, opened |-> now]
    IN  /\ connector[c].at = "idle" /\ connector[c].from <= now
        /\ made' = [made EXCEPT ![c] = @ + 1]
        /\ arriving' = arriving \cup {s}
        /\ connector' = [connector EXCEPT ![c] = [at |-> "waiting", on |-> s]]
        /\ UNCHANGED <<now, waiting, client, calm_since, faults>>

\* Faults may overlap: the last one to end counts.
Fault(until) ==
    /\ faults < MaxFaults
    /\ faults' = faults + 1
    /\ calm_since' = IF until > calm_since THEN until ELSE calm_since

\* The relay cannot be reached, or the services cannot be prepared.
OpenFails(c) ==
    /\ connector[c].at = "idle" /\ connector[c].from <= now
    /\ Fault(now)
    /\ connector' = [connector EXCEPT ![c] = Idle(now + RELAY_RECONNECT_DELAY)]
    /\ UNCHANGED <<now, made, arriving, waiting, client>>

\* A client's SessionHello comes through the socket within the lease.
NodeReadsHello(c) ==
    /\ connector[c].at = "waiting" /\ IsServed(connector[c].on)
    /\ connector' = [connector EXCEPT ![c].at = "serving"]
    /\ UNCHANGED <<now, made, arriving, waiting, client, calm_since, faults>>

\* Seeded bug: a connector whose lease is over is not started again.
LeaseEnds(c) ==
    /\ connector[c].at = "waiting"
    /\ connector[c].on.opened + RELAY_NODE_IDLE_LEASE <= now
    /\ connector' = [connector EXCEPT ![c] = Idle(MaxTime + 1)]
    /\ UNCHANGED <<now, made, arriving, waiting, client, calm_since, faults>>

\* No SessionHello within the lease: the socket is closed, and the connector
\* pauses as after any error.
LeaseExpires(c) ==
    /\ connector[c].at = "waiting"
    /\ connector[c].on.opened + RELAY_NODE_IDLE_LEASE <= now
    /\ connector' = [connector EXCEPT ![c] = Idle(now + RELAY_RECONNECT_DELAY)]
    /\ UNCHANGED <<now, made, arriving, waiting, client, calm_since, faults>>

\* A session ends, well or with an error; only an error makes a pause.
SessionEnds(c) ==
    /\ connector[c].at = "serving"
    /\ \E pause \in {0, RELAY_RECONNECT_DELAY} :
           connector' = [connector EXCEPT ![c] = Idle(now + pause)]
    /\ UNCHANGED <<now, made, arriving, waiting, client, calm_since, faults>>

-----------------------------------------------------------------------------
(***************************************************************************)
(* The relay (handle_connection, wait_for_node_stream_with_ttl).           *)
(***************************************************************************)
RelayNodeHello(s) ==
    /\ s \in arriving
    /\ arriving' = arriving \ {s}
    /\ waiting' = Append(waiting, [on |-> s, connected_at |-> now])
    /\ UNCHANGED <<now, connector, made, client, calm_since, faults>>

RelayClientHello(k) ==
    /\ client[k].at = "new"
    /\ client' = [client EXCEPT ![k] = [at |-> "looking", tries |-> TRIES, next |-> now]]
    /\ UNCHANGED <<now, connector, made, arriving, waiting, calm_since, faults>>

\* Seeded bug: a socket as old as the TTL counts as expired.
YoungerThanTtl == {i \in DOMAIN waiting :
                     now - waiting[i].connected_at < RELAY_NODE_SOCKET_TTL}

\* The sockets whose age is within the TTL.
Usable == {i \in DOMAIN waiting :
             now - waiting[i].connected_at <= RELAY_NODE_SOCKET_TTL}

Newest(S) == CHOOSE i \in S : \A j \in S : j <= i

\* Sockets are popped until one is usable: those above it are dropped.
PopNode(k) ==
    /\ Usable # {}
    /\ client' = [client EXCEPT ![k] =
                    [at |-> "paired", on |-> waiting[Newest(Usable)].on, when |-> now]]
    /\ waiting' = SubSeq(waiting, 1, Newest(Usable) - 1)

\* One round of the client's task.
Look(k) ==
    /\ client[k].at = "looking" /\ client[k].tries > 0 /\ client[k].next <= now
    /\ \/ PopNode(k)
       \/ /\ Usable = {}
          /\ waiting' = <<>>
          /\ client' = [client EXCEPT ![k] = Looking(client[k].tries - 1)]
    /\ UNCHANGED <<now, connector, made, arriving, calm_since, faults>>

\* The last pause is over and nothing was found.
GiveUp(k) ==
    /\ client[k].at = "looking" /\ client[k].tries = 0 /\ client[k].next <= now
    /\ client' = [client EXCEPT ![k] = [at |-> "missed", when |-> now]]
    /\ UNCHANGED <<now, connector, made, arriving, waiting, calm_since, faults>>

-----------------------------------------------------------------------------
\* The node stops and is back at a later time.  The relay notices nothing: what
\* was sent to it still arrives, and the stack keeps the dead sockets.
NodeRestart ==
    \E t \in now + 1 .. now + MaxOutage :
        /\ Fault(t)
        /\ connector' = [c \in Connectors |-> Idle(t)]
        /\ UNCHANGED <<now, made, arriving, waiting, client>>

\* The relay loses its sockets; each connector that had one sees an error.
RelayRestart ==
    /\ Fault(now)
    /\ connector' = [c \in Connectors |->
                       IF connector[c].at = "idle" THEN connector[c]
                       ELSE Idle(now + RELAY_RECONNECT_DELAY)]
    /\ arriving' = {} /\ waiting' = <<>>
    /\ client' = [k \in Clients |-> IF client[k].at \in {"looking", "paired"}
                                   THEN [at |-> "cut"] ELSE client[k]]
    /\ UNCHANGED <<now, made>>

\* What is due is done before time passes.
Due ==
    \/ \E c \in Connectors :
           \/ connector[c].at = "idle" /\ connector[c].from <= now
           \/ connector[c].at = "waiting"
              /\ connector[c].on.opened + RELAY_NODE_IDLE_LEASE <= now
    \/ \E s \in arriving : s.opened + HelloDelay <= now
    \/ \E k \in Clients : client[k].at = "looking" /\ client[k].next <= now

Tick ==
    /\ now < MaxTime /\ ~ Due
    /\ now' = now + 1
    /\ UNCHANGED <<connector, made, arriving, waiting, client, calm_since, faults>>

Next ==
    \/ \E c \in Connectors :
           \/ Open(c) \/ OpenFails(c) \/ NodeReadsHello(c)
           \/ LeaseExpires(c) \/ SessionEnds(c)
    \/ \E s \in arriving : RelayNodeHello(s)
    \/ \E k \in Clients : RelayClientHello(k) \/ Look(k) \/ GiveUp(k)
    \/ NodeRestart \/ RelayRestart \/ Tick

Spec == Init /\ [][Next]_vars

-----------------------------------------------------------------------------
\* Two clients never share a node's socket, whatever the order of their tasks.
OneClientPerSocket ==
    \A j, k \in Clients :
        client[j].at = "paired" /\ client[k].at = "paired" /\ client[j].on = client[k].on
            => j = k

On(s, stack) == \E i \in DOMAIN stack : stack[i].on = s

\* A step in which a socket leaves the stack although its node still waits on it pairs
\* it: only the popping of PopNode does that, but for a restart of the relay.
DropsOnlyDead ==
    \A c \in Connectors :
        LET s == connector[c].on
        IN  /\ connector[c].at = "waiting" /\ connector'[c] = connector[c]
            /\ On(s, waiting) /\ ~ On(s, waiting')
            => \E k \in Clients : client'[k].at = "paired" /\ client'[k].on = s

\* The relay never drops a socket on which the node still waits: a socket that
\* leaves the stack, without the relay restarting, is paired or given up.
OnlyDeadDropped == [][DropsOnlyDead]_vars

\* The relay hands out no socket the node gave up long ago: the lease of one that
\* is paired began at most the TTL, and the time of its hello, before.
NotLongDead ==
    \A k \in Clients : client[k].at = "paired" =>
        client[k].when <= client[k].on.opened + RELAY_NODE_SOCKET_TTL + HelloDelay

\* With no more clients than connectors, a client finds no socket only when a
\* fault had just been: leases and pauses never leave it without one.
MissedOnlyAfterFault ==
    Cardinality(Clients) <= Cardinality(Connectors) =>
        \A k \in Clients : client[k].at = "missed" =>
            client[k].when <= calm_since + RELAY_RECONNECT_DELAY + HelloDelay + 1

(***************************************************************************)
(* The inductive invariant.  A socket is in one place: on its way to the   *)
(* relay, on the stack, or with one client.  The timers are never late: a  *)
(* hello is read within HelloDelay, a lease is not overrun, a pause not    *)
(* overslept.                                                              *)
(***************************************************************************)
Paired(k) == client[k].at = "paired"

SocketsAreOld ==
    /\ \A s \in arriving : s.id <= made[s.by]
    /\ \A i \in DOMAIN waiting : waiting[i].on.id <= made[waiting[i].on.by]
    /\ \A k \in Clients : Paired(k) => client[k].on.id <= made[client[k].on.by]

OnePlace ==
    /\ \A i, j \in DOMAIN waiting : waiting[i].on = waiting[j].on => i = j
    /\ \A i \in DOMAIN waiting : waiting[i].on \notin arriving
    /\ \A k \in Clients : Paired(k) =>
           client[k].on \notin arriving /\ \A i \in DOMAIN waiting : waiting[i].on # client[k].on

TimersHold ==
    /\ \A s \in arriving : s.opened <= now /\ now <= s.opened + HelloDelay
    /\ \A i \in DOMAIN waiting :
           waiting[i].connected_at \in waiting[i].on.opened .. waiting[i].on.opened + HelloDelay
    /\ \A c \in Connectors : connector[c].at = "waiting" =>
           now <= connector[c].on.opened + RELAY_NODE_IDLE_LEASE

Located ==
    /\ TypeOK /\ SocketsAreOld /\ OnePlace /\ TimersHold
    /\ OneClientPerSocket /\ NotLongDead

PausesHold ==
    /\ \A c \in Connectors : connector[c].at = "idle" =>
           /\ now <= connector[c].from
           /\ \/ connector[c].from <= now + RELAY_RECONNECT_DELAY
              \/ connector[c].from <= calm_since + RELAY_RECONNECT_DELAY
    /\ \A k \in Clients : client[k].at = "looking" => client[k].next \in now .. now + 1

\* A connector that waits has its socket somewhere, one that serves has a client.
NoSocketIsLost ==
    \A c \in Connectors : connector[c].at # "idle" =>
        /\ connector[c].on.by = c
        /\ \/ IsServed(connector[c].on)
           \/ /\ connector[c].at = "waiting"
              /\ connector[c].on \in arriving \/ On(connector[c].on, waiting)

(***************************************************************************)
(* Why no client waits in vain.  Each takes one socket at most, so that    *)
(* for one that looks in vain there is a connector none of whose sockets   *)
(* is taken.  Such a connector has a socket that is usable or on its way,  *)
(* except in a pause; and when the client first looks in vain, the end of  *)
(* the pause and the next hello are soon to come.                          *)
(***************************************************************************)
Taken(c) == \E k \in Clients : Paired(k) /\ client[k].on.by = c

Offers(c) ==
    \/ \E s \in arriving : s.by = c
    \/ \E i \in Usable : waiting[i].on.by = c

PausesAreCovered ==
    \A c \in Connectors : connector[c].at = "idle" /\ ~ Taken(c) =>
        \/ connector[c].from <= calm_since + RELAY_RECONNECT_DELAY
        \/ connector[c].from < now + RELAY_RECONNECT_DELAY
        \/ Offers(c)

InVain(k) == client[k].at = "looking" /\ client[k].tries < TRIES
FirstLook(k) == client[k].next - (TRIES - client[k].tries)

\* t is at most a pause and a hello after the last fault, or less after the first look.
Soon(k, t) ==
    \/ t <= calm_since + RELAY_RECONNECT_DELAY + HelloDelay
    \/ t < FirstLook(k) + RELAY_RECONNECT_DELAY + HelloDelay

Prospect(k, c) ==
    \/ connector[c].at = "idle" /\ Soon(k, connector[c].from + HelloDelay)
    \/ \E s \in arriving : s.by = c /\ Soon(k, s.opened + HelloDelay)
    \/ \E i \in DOMAIN waiting : waiting[i].on.by = c /\ Soon(k, waiting[i].connected_at)

\* What is on the stack came after the last look.
SoonServed ==
    \A k \in Clients : InVain(k) =>
        /\ \A i \in DOMAIN waiting : client[k].next <= waiting[i].connected_at + 1
        /\ \A c \in Connectors : Taken(c) \/ Prospect(k, c)

IInv ==
    /\ Located /\ PausesHold /\ NoSocketIsLost /\ PausesAreCovered /\ SoonServed
    /\ MissedOnlyAfterFault

\* The relay pairs as it should (wait_for_node_stream_with_ttl, spawn_relay_connectors),
\* with the invariant that shows it.
ClientsArePaired ==
    IInv /\ OneClientPerSocket /\ NotLongDead /\ MissedOnlyAfterFault
=============================================================================
