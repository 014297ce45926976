------------------------------- MODULE MCClients -------------------------------
(***************************************************************************)
(* What clients do, for TLC: the walk over the candidates of a grant       *)
(* (ConnectSession), the rendezvous that is one of them (Rendezvous), the  *)
(* session of the Apple client (SwiftUdpSession), and a UDP session whose  *)
(* peer does not wait for ACKs (UdpSession), side by side.  The first      *)
(* state chooses one of the four, and the others stay as they start.       *)
(***************************************************************************)
EXTENDS ConnectSession

A(class, n) == [class |-> class, n |-> n]
Has(a) == [has |-> TRUE, addr |-> a]
None == [has |-> FALSE, addr |-> NoAddr]

Config(hosts, local, icePublic, public) ==
    [ice_host_addrs |-> hosts, local_ips |-> local, ice_public |-> icePublic,
     public |-> public, bind |-> A("unspecified", 0)]

\* A laptop on a LAN without any public address, a node behind NAT with a
\* forwarded DNS name, a node with two networks that also lists one by hand, and
\* a configuration with an address that does not parse.
Laptop == Config(<<>>, <<A("loopback", 0), A("private", 1)>>, NoAddr, NoAddr)
MCConfigs ==
    {Laptop,
     Config(<<>>, <<A("private", 1)>>, NoAddr, A("name", 1)),
     Config(<<A("public", 1)>>, <<A("public", 1), A("private", 1)>>, A("public", 1), NoAddr),
     Config(<<A("bad", 1)>>, <<>>, NoAddr, NoAddr)}

NoRelay == [relay |-> None, wss |-> None, ice_relay |-> None]
MCControls ==
    {[relay |-> Has(A("public", 9)), wss |-> Has(A("name", 9)), ice_relay |-> None],
     NoRelay,
     [relay |-> Has(A("name", 8)), wss |-> None, ice_relay |-> Has(A("public", 8))]}

-----------------------------------------------------------------------------
VARIABLES part, nodes, restarts, port, listening, burst, client, holes, datagrams, lost
rendezvousVars == <<nodes, restarts, port, listening, burst, client, holes, datagrams, lost>>

\* Two nodes, a client, one lost datagram and one new port.
Rend == INSTANCE Rendezvous WITH
    Nodes <- {"n1", "n2"}, Clients <- {"c1"}, Wants <- [c \in {"c1"} |-> "n1"],
    Natted <- {"n1"}, Unnamed <- {"n1", "n2"}, Trusted <- {"n1", "n2"}, Receives <- 2,
    PUNCH_BURST_PACKETS <- 2, MaxMoves <- 1, MaxLost <- 1, MaxRestarts <- 0,
    reader <- burst, net <- datagrams

-----------------------------------------------------------------------------
VARIABLES send_seq, recv_seq, pending_packets, received, taken, reader, writer, current, tries,
          accepted, net, sent
sessionVars == <<send_seq, recv_seq, pending_packets, received, taken, reader, writer, current,
                 tries, accepted, net, sent>>

Bytes(request, response) == [e \in {"client", "node"} |-> IF e = "client" THEN request ELSE response]

\* The Apple client and the node's bridge both give up a session when a write times
\* out.  A request of two bytes and a response of one, the repeats of which the
\* client takes in without end: ReceivedBound limits what it is handed.
Swift == INSTANCE SwiftUdpSession WITH
    MAX_PAYLOAD_LEN <- 2, RETRIES <- 2, StreamLen <- Bytes(2, 1), TwoThreaded <- {"node"},
    Closers <- {"client"}, OnTimeout <- [e \in {"client", "node"} |-> "abort"]
ASSUME SwiftAssumption == Swift!SwiftConstants

MaxReceived == 2
ReceivedBound == Len(received["client"]) <= MaxReceived

\* The peer of the test stream_buffers_out_of_order_data_without_reporting_eof: it
\* sends all its DATA without waiting for ACKs, one byte a packet.
Session == INSTANCE UdpSession WITH
    MAX_PAYLOAD_LEN <- 2, RETRIES <- 2, StreamLen <- Bytes(4, 0), TwoThreaded <- {"node"},
    Closers <- {}, OnTimeout <- [e \in {"client", "node"} |-> "abort"]

Pipelined == {Session!DataPacket("node", i - 1, [lo |-> i, hi |-> i]) : i \in 1 .. 4}
PipelinedInit ==
    /\ send_seq = Bytes(4, 0) /\ recv_seq = Bytes(0, 0) /\ taken = Bytes(0, 0) /\ tries = Bytes(0, 0)
    /\ accepted = Bytes(0, 0) /\ pending_packets = Bytes({}, {}) /\ received = Bytes(<<>>, <<>>)
    /\ reader = Bytes("done", "idle") /\ writer = Bytes("done", "idle")
    /\ current = Bytes(Session!NoPayload, Session!NoPayload)
    /\ net = Pipelined /\ sent = Pipelined

-----------------------------------------------------------------------------
MCInit ==
    /\ part \in {"connect", "rendezvous", "swift", "pipelined"}
    /\ Init /\ Rend!Init
    /\ part # "connect" =>
           opts.client = "session" /\ up = {} /\ grant = issue_session_grant(Laptop, NoRelay)
    /\ IF part = "pipelined" THEN PipelinedInit ELSE Swift!Init
MCNext ==
    \/ part = "connect" /\ Next /\ UNCHANGED <<part, rendezvousVars, sessionVars>>
    \/ part = "rendezvous" /\ Rend!Next /\ UNCHANGED <<part, vars, sessionVars>>
    \/ part = "swift" /\ Swift!SwiftNext /\ UNCHANGED <<part, vars, rendezvousVars>>
    \/ part = "pipelined" /\ Session!Next /\ UNCHANGED <<part, vars, rendezvousVars>>
MCSpec == MCInit /\ [][MCNext]_<<part, vars, rendezvousVars, sessionVars>>

-----------------------------------------------------------------------------
\* A walk gives up only when every candidate it wants has failed as often as it has
\* attempts, and passes over none that answered during the whole walk
\* (connect_session_service_tls, connect_session, connect_session_grant).
NoPathIsMissed == GivesUpAfterAll /\ SteadyPathWins

\* Attempts are made on the nearest path first, and with --relay on no address of the
\* node itself (ice_checklist, ordered_legacy_candidates_for_mode); with the types.
TriesInOrder == TypeOK /\ NearestFirst /\ RelayOnlyAvoidsNode

\* The address that a client gets is one of the node that its grant names
\* (handle_udp_rendezvous_message), and for a registered node resolve_peer fails
\* without a lost datagram only when as many packets of the node's burst overtook the
\* answer as it has receives; with the types of Rendezvous.
LookupIsRight == Rend!TypeOK /\ Rend!PeerIsTheNode /\ Rend!ResolveFailsForAReason

\* The request reaches the node intact, whatever the Swift client does with the
\* packets of the response (ForegroundUdpSession).
RequestIntact == part = "swift" => Swift!RequestIntact

\* What a pipelining peer sends is delivered in order; an ACK is sent only for DATA
\* that the receiver has or holds back for later; and whoever fills a gap delivers
\* everything behind it (handle_data_packet).
BufferedIsDelivered ==
    part = "pipelined" => Session!InOrder /\ Session!AckedIsKept /\ Session!NothingHeldBack
=============================================================================
