------------------------------- MODULE Rendezvous -------------------------------
(***************************************************************************)
(* The UDP rendezvous: nodes tell the relay their address again and again, *)
(* a client asks the relay for a node's address, the relay tells each the  *)
(* address of the other, and both send bursts of PUNCH packets so that     *)
(* their NATs let the client's HELLO through.                              *)
(*                                                                         *)
(* Datagrams are lost and reordered; a node's NAT may give it a new port.  *)
(* A NAT lets in what comes from an address that has been sent to, and     *)
(* maps all destinations alike.  Network delays are shorter than the read  *)
(* timeout of a client (500 ms), and the session's own timeouts are those  *)
(* of module UdpListener.                                                  *)
(***************************************************************************)
EXTENDS Integers, FiniteSets

CONSTANTS
    Nodes, Clients,
    Wants,          \* the node of each client's grant
    Natted,         \* nodes and clients behind a NAT
    Unnamed,        \* nodes whose relay address is an IP address, not a name
    Trusted,        \* nodes with the relay's secret
    Receives,       \* receives of resolve_peer (5)
    PUNCH_BURST_PACKETS,
    MaxMoves,       \* bound on new ports of a node
    MaxLost,        \* bound on lost datagrams
    MaxRestarts     \* bound on restarts of the relay

VARIABLES
    nodes,      \* the relay: RendezvousNodes
    restarts,
    port,       \* a node's port, as its NAT shows it
    listening,  \* nodes whose UDP listener runs
    reader,     \* what is left of a node's punch burst: [peer, left]
    client,     \* [st, left, peer], what it received instead of the answer, and
                \* whether its node was registered when it asked
    holes,      \* addresses each has sent to since its NAT gave it a port
    net,        \* datagrams under way
    lost

vars == <<nodes, restarts, port, listening, reader, client, holes, net, lost>>

NoPeer == <<"none", 0>>
RelayAddr == <<"relay", 0>>
AddrOf(e) == IF e \in Nodes THEN <<e, port[e]>> ELSE <<e, 0>>
Datagram(from, to, kind, arg) == [from |-> from, to |-> to, kind |-> kind, arg |-> arg]

Init ==
    /\ nodes = <<>> /\ restarts = 0
    /\ port = [n \in Nodes |-> 0]
    /\ listening = {} /\ reader = [n \in Nodes |-> [peer |-> NoPeer, left |-> 0]]
    /\ client = [c \in Clients |-> [st |-> "idle", left |-> 0, peer |-> NoPeer, foreign |-> 0, known |-> FALSE]]
    /\ holes = [e \in Nodes \cup Clients |-> {}]
    /\ net = {} /\ lost = 0

-----------------------------------------------------------------------------
Passes(d) == d.to[1] \in Natted => d.from \in holes[d.to[1]]
Waiting(e) == {d \in net : d.to = AddrOf(e) /\ Passes(d)}

\* e sends: its NAT now lets answers in.
Sent(e, ds) == holes' = [holes EXCEPT ![e] = @ \cup {d.to : d \in ds}]

-----------------------------------------------------------------------------
(***************************************************************************)
(* The node.                                                               *)
(***************************************************************************)
\* run_udp_session_listener: without an address it can parse the listener ends.
StartListener(n) ==
    /\ n \notin listening /\ n \in Unnamed
    /\ listening' = listening \cup {n}
    /\ UNCHANGED <<nodes, restarts, port, reader, client, holes, net, lost>>

\* The registration thread, every second.
send_node_register(n) ==
    /\ n \in listening
    /\ LET d == Datagram(AddrOf(n), RelayAddr, "node", n)
       IN  net' = net \cup {d} /\ Sent(n, {d})
    /\ UNCHANGED <<nodes, restarts, port, listening, reader, client, lost>>

\* The reader thread: a Peer message starts a burst, a HELLO is acknowledged.
handle_listener_message(n, d) ==
    /\ n \in listening /\ reader[n].left = 0
    /\ d \in Waiting(n)
    /\ LET ack == IF d.kind = "hello" THEN {Datagram(AddrOf(n), d.from, "ack", 0)} ELSE {}
       IN  net' = (net \ {d}) \cup ack /\ Sent(n, ack)
    /\ reader' = IF d.kind # "peer" THEN reader
                 ELSE [reader EXCEPT ![n] = [peer |-> d.arg, left |-> PUNCH_BURST_PACKETS]]
    /\ UNCHANGED <<nodes, restarts, port, listening, client, lost>>

\* send_punch_burst, in the reader thread.
NodePunches(n) ==
    /\ reader[n].left > 0
    /\ reader' = [reader EXCEPT ![n].left = @ - 1]
    /\ LET d == Datagram(AddrOf(n), reader[n].peer, "punch", reader[n].left)
       IN  net' = net \cup {d} /\ Sent(n, {d})
    /\ UNCHANGED <<nodes, restarts, port, listening, client, lost>>

-----------------------------------------------------------------------------
(***************************************************************************)
(* The relay.                                                              *)
(***************************************************************************)
\* Seeded bug: the first address of a node is kept.
KeepFirst(d) == [n \in DOMAIN nodes \cup {d.arg} |-> IF n \in DOMAIN nodes THEN nodes[n] ELSE d.from]

RegisterNode(d) == [n \in DOMAIN nodes \cup {d.arg} |-> IF n = d.arg THEN d.from ELSE nodes[n]]

\* Seeded bug: only the client is told.
TellClient(d) == {Datagram(RelayAddr, d.from, "peer", nodes[d.arg])}

\* Seeded bug: any registered node will do.
AnyNode(d) == LET n == CHOOSE n \in DOMAIN nodes : DOMAIN nodes = {n} \/ n # d.arg
              IN  {Datagram(RelayAddr, d.from, "peer", nodes[n]), Datagram(RelayAddr, nodes[n], "peer", d.from)}

\* The client first, then the node.
PairPeers(d) == {Datagram(RelayAddr, d.from, "peer", nodes[d.arg]), Datagram(RelayAddr, nodes[d.arg], "peer", d.from)}

\* A registration needs the secret; a request needs a registered node.  The
\* token of a request is the grant's and names its node.
handle_udp_rendezvous_message(d) ==
    /\ d \in net /\ d.to = RelayAddr
    /\ \/ /\ d.kind = "node" /\ d.arg \in Trusted
          /\ nodes' = RegisterNode(d)
          /\ net' = (net \ {d}) \cup {Datagram(RelayAddr, d.from, "registered", 0)}
       \/ /\ d.kind = "client" /\ d.arg \in DOMAIN nodes
          /\ net' = (net \ {d}) \cup PairPeers(d)
          /\ UNCHANGED nodes
       \/ /\ \/ d.kind = "node" /\ d.arg \notin Trusted
             \/ d.kind = "client" /\ d.arg \notin DOMAIN nodes
          /\ net' = net \ {d} /\ UNCHANGED nodes
    /\ UNCHANGED <<restarts, port, listening, reader, client, holes, lost>>

RelayRestarts ==
    /\ restarts < MaxRestarts /\ restarts' = restarts + 1
    /\ nodes' = <<>>
    /\ UNCHANGED <<port, listening, reader, client, holes, net, lost>>

-----------------------------------------------------------------------------
(***************************************************************************)
(* The client: resolve_peer, then the HELLO of the session.                *)
(***************************************************************************)
Request(c) ==
    /\ client[c].st = "idle"
    /\ client' = [client EXCEPT ![c].st = "resolving", ![c].left = Receives,
                             ![c].known = Wants[c] \in DOMAIN nodes]
    /\ LET d == Datagram(AddrOf(c), RelayAddr, "client", Wants[c])
       IN  net' = net \cup {d} /\ Sent(c, {d})
    /\ UNCHANGED <<nodes, restarts, port, listening, reader, lost>>

\* One receive is over without the answer.
Missed(c, foreign) ==
    client' = [client EXCEPT ![c].left = @ - 1, ![c].foreign = @ + foreign,
                             ![c].st = IF client[c].left = 1 THEN "unresolved" ELSE @]

resolve_peer(c) ==
    /\ client[c].st = "resolving"
    /\ \E d \in Waiting(c) :
           /\ net' = net \ {d}
           /\ IF d.from = RelayAddr /\ d.kind = "peer"
              THEN client' = [client EXCEPT ![c].st = "punching", ![c].peer = d.arg, ![c].left = PUNCH_BURST_PACKETS]
              ELSE Missed(c, 1)
    /\ UNCHANGED <<nodes, restarts, port, listening, reader, holes, lost>>

\* The read timeout: nothing is under way to the client, nor its request.
Asked(c) == \E d \in net : d.kind = "client" /\ d.from = AddrOf(c)
ResolveTimeout(c) ==
    /\ client[c].st = "resolving" /\ Waiting(c) = {} /\ ~Asked(c)
    /\ Missed(c, 0)
    /\ UNCHANGED <<nodes, restarts, port, listening, reader, holes, net, lost>>

ClientPunches(c) ==
    /\ client[c].st = "punching"
    /\ client' = [client EXCEPT ![c].left = @ - 1, ![c].st = IF client[c].left = 1 THEN "hello" ELSE @]
    /\ LET d == Datagram(AddrOf(c), client[c].peer, "punch", client[c].left)
       IN  net' = net \cup {d} /\ Sent(c, {d})
    /\ UNCHANGED <<nodes, restarts, port, listening, reader, lost>>

\* UdpSessionStream::connect repeats its HELLO until it is acknowledged.
SendHello(c) ==
    /\ client[c].st = "hello"
    /\ LET d == Datagram(AddrOf(c), client[c].peer, "hello", 0)
       IN  net' = net \cup {d} /\ Sent(c, {d})
    /\ UNCHANGED <<nodes, restarts, port, listening, reader, client, lost>>

ReceiveAck(c) ==
    /\ client[c].st = "hello"
    /\ \E d \in Waiting(c) :
           /\ net' = net \ {d}
           /\ client' = IF d.kind = "ack" /\ d.from = client[c].peer
                        THEN [client EXCEPT ![c].st = "connected"] ELSE client
    /\ UNCHANGED <<nodes, restarts, port, listening, reader, holes, lost>>

-----------------------------------------------------------------------------
(***************************************************************************)
(* The network.                                                            *)
(***************************************************************************)
\* A datagram for a closed NAT, or for a port that is gone.
Filtered ==
    /\ \E d \in net : /\ d.to # RelayAddr /\ (d.to # AddrOf(d.to[1]) \/ ~Passes(d))
                      /\ net' = net \ {d}
    /\ UNCHANGED <<nodes, restarts, port, listening, reader, client, holes, lost>>

Lose ==
    /\ lost < MaxLost /\ lost' = lost + 1
    /\ \E d \in net : net' = net \ {d}
    /\ UNCHANGED <<nodes, restarts, port, listening, reader, client, holes>>

\* The NAT of a node gives it a new port.
Move(n) ==
    /\ n \in listening \cap Natted /\ port[n] < MaxMoves
    /\ port' = [port EXCEPT ![n] = @ + 1]
    /\ holes' = [holes EXCEPT ![n] = {}]
    /\ UNCHANGED <<nodes, restarts, listening, reader, client, net, lost>>

NodeStep(n) == \/ StartListener(n) \/ send_node_register(n) \/ NodePunches(n)
               \/ \E d \in net : handle_listener_message(n, d)
ClientStep(c) == \/ Request(c) \/ resolve_peer(c) \/ ResolveTimeout(c)
                 \/ ClientPunches(c) \/ SendHello(c) \/ ReceiveAck(c)
Next == \/ \E n \in Nodes : NodeStep(n) \/ Move(n)
        \/ \E c \in Clients : ClientStep(c)
        \/ \E d \in net : handle_udp_rendezvous_message(d)
        \/ RelayRestarts \/ Filtered \/ Lose

Spec == Init /\ [][Next]_vars

-----------------------------------------------------------------------------
TypeOK ==
    /\ \A n \in DOMAIN nodes : n \in Nodes /\ nodes[n] \in {n} \X (0 .. MaxMoves)
    /\ listening \subseteq Nodes
    /\ \A c \in Clients : client[c].st \in {"idle", "resolving", "unresolved", "punching", "hello", "connected"}

\* The address that a client gets is one of the node that its grant names, from a
\* registration with the relay's secret (handle_udp_rendezvous_message).
PeerIsTheNode ==
    \A c \in Clients : client[c].peer # NoPeer => client[c].peer[1] = Wants[c] /\ Wants[c] \in Trusted

\* resolve_peer sends one request.  For a registered node, and while no datagram
\* is lost and the relay does not restart, it fails for one reason only: as many
\* packets of the node's burst overtook the relay's answer as it has receives.
ResolveFailsForAReason ==
    \A c \in Clients : client[c].st = "unresolved" /\ client[c].known /\ lost = 0 /\ restarts = 0
                           => client[c].foreign = Receives

\* The relay always learns the address that a trusted node has now, after its NAT
\* moved it, after a restart of the relay, and when an old registration arrives
\* late.
RegistrationCatchesUp ==
    \A n \in Nodes \cap Trusted \cap Unnamed : []<>(n \in DOMAIN nodes /\ nodes[n] = AddrOf(n))
=============================================================================
