--------------------------------- MODULE MCNode ---------------------------------
(***************************************************************************)
(* The home node for TLC: a session from its hello to its end (NodeSession),*)
(* the bridge of a UDP session (NodeBridge), and the registration with the *)
(* relay and the punching (Rendezvous), side by side.  The first state     *)
(* chooses one of the three, and the others stay as they start.            *)
(***************************************************************************)
EXTENDS NodeSession

Req(len, head, length, eager) == [len |-> len, head |-> head, length |-> length, eager |-> eager]
Short == Req(2, 1, TRUE, FALSE)
Requests == {Short, Req(1, 1, TRUE, FALSE), Req(3, 1, FALSE, FALSE),
             Req(3, 2, TRUE, TRUE), Req(4, 1, TRUE, TRUE), Req(5, 1, TRUE, FALSE)}
Session(carrier, mode, target, claims, request) ==
    [carrier |-> carrier, mode |-> mode, target |-> target, claims |-> claims, request |-> request]

Carriers == {"tcp", "relay", "wss"}
Granted == {Session(c, m, t, "ok", r) : c \in Carriers, m \in {"http", "raw", "plain"}, t \in {"up", "down"}, r \in Requests}
Refused == {Session(c, "http", "up", x, Short) : c \in Carriers, x \in {"malformed", "expired", "service", "node", "unknown"}}
AllSessions == Granted \cup Refused

-----------------------------------------------------------------------------
VARIABLES part, inbox, pending, reader, chunk, writer, seq, tries, acked, toTcp, fromTcp,
          service, data, resp, closed, eof, returned
bridgeVars == <<inbox, pending, reader, chunk, writer, seq, tries, acked, toTcp, fromTcp, service,
                data, resp, closed, eof, returned>>

Bridge == INSTANCE NodeBridge WITH RETRIES <- 2, MaxData <- 3, MaxResp <- 2

-----------------------------------------------------------------------------
VARIABLES nodes, restarts, port, listening, burst, visitor, holes, net, lost
rendezvousVars == <<nodes, restarts, port, listening, burst, visitor, holes, net, lost>>

\* Node and client are both behind a NAT; nothing is lost.
Punch == INSTANCE Rendezvous WITH
    Nodes <- {"n1", "n2"}, Clients <- {"c"}, Wants <- [c \in {"c"} |-> "n1"], Natted <- {"n1", "c"},
    Unnamed <- {"n1", "n2"}, Trusted <- {"n1"}, Receives <- 2, PUNCH_BURST_PACKETS <- 2,
    MaxMoves <- 0, MaxLost <- 0, MaxRestarts <- 0, reader <- burst, client <- visitor

\* One node's registrations, with several faults.
Moves == INSTANCE Rendezvous WITH
    Nodes <- {"n1"}, Clients <- {}, Wants <- <<>>, Natted <- {"n1"}, Unnamed <- {"n1"},
    Trusted <- {"n1"}, Receives <- 2, PUNCH_BURST_PACKETS <- 2,
    MaxMoves <- 3, MaxLost <- 2, MaxRestarts <- 2, reader <- burst, client <- visitor

-----------------------------------------------------------------------------
MCInit ==
    /\ part \in {"session", "bridge", "punch", "moves"}
    /\ Init /\ Bridge!Init /\ (IF part = "punch" THEN Punch!Init ELSE Moves!Init)
    /\ part # "session" => setup = Session("tcp", "http", "up", "ok", Short)
MCNext ==
    \/ part = "session" /\ Next /\ UNCHANGED <<part, bridgeVars, rendezvousVars>>
    \/ part = "bridge" /\ Bridge!Next /\ UNCHANGED <<part, vars, rendezvousVars>>
    \/ part = "punch" /\ Punch!Next /\ UNCHANGED <<part, vars, bridgeVars>>
    \/ part = "moves" /\ Moves!Next /\ UNCHANGED <<part, vars, bridgeVars>>

\* The handler's task runs when it can, its timers fire, and TCP delivers.
SessionFair == WF_vars(part = "session" /\ Handler) /\ WF_vars(part = "session" /\ ClientReceives)

\* The threads of the bridge run; client and service may stop at any time.
BridgeFair ==
    /\ WF_bridgeVars(part = "bridge" /\ Bridge!Open) /\ WF_bridgeVars(part = "bridge" /\ Bridge!Join)
    /\ WF_bridgeVars(part = "bridge" /\ Bridge!Reader) /\ WF_bridgeVars(part = "bridge" /\ Bridge!Writer)

\* The threads of a node and the client go on, and a datagram that is sent again and
\* again arrives.
Punching == part = "punch"
Reaches(from, kind, arg) ==
    Punching /\ Punch!handle_listener_message("n1", Punch!Datagram(from, Punch!AddrOf("n1"), kind, arg))
PunchFair ==
    /\ WF_rendezvousVars(Punching /\ Punch!StartListener("n1"))
    /\ WF_rendezvousVars(Punching /\ Punch!send_node_register("n1"))
    /\ WF_rendezvousVars(Punching /\ Punch!NodePunches("n1"))
    /\ SF_rendezvousVars(Punching /\ Punch!handle_udp_rendezvous_message(
                             Punch!Datagram(Punch!AddrOf("n1"), Punch!RelayAddr, "node", "n1")))
    /\ SF_rendezvousVars(Reaches(Punch!RelayAddr, "peer", <<"c", 0>>))
    /\ SF_rendezvousVars(Reaches(<<"c", 0>>, "hello", 0))
    /\ WF_rendezvousVars(Punching /\ Punch!ClientPunches("c")) /\ WF_rendezvousVars(Punching /\ Punch!SendHello("c"))
    /\ SF_rendezvousVars(Punching /\ Punch!ReceiveAck("c") /\ visitor'["c"].st = "connected")
Moving == part = "moves"
MovesFair ==
    /\ WF_rendezvousVars(Moving /\ Moves!StartListener("n1"))
    /\ WF_rendezvousVars(Moving /\ Moves!send_node_register("n1"))
    /\ SF_rendezvousVars(Moving /\ Moves!handle_udp_rendezvous_message(
                             Moves!Datagram(Moves!AddrOf("n1"), Moves!RelayAddr, "node", "n1")))

MCSpec ==
    /\ MCInit /\ [][MCNext]_<<part, vars, bridgeVars, rendezvousVars>>
    /\ SessionFair /\ BridgeFair /\ PunchFair /\ MovesFair

-----------------------------------------------------------------------------
\* A target only hears of sessions that were granted; it gets the beginning of what
\* the client sent behind the hello, and the client the beginning of the answer, or all
\* of it when nobody left (handle_connection_with_hello, handle_wss_connection);
\* with the types.
SessionIsIntact == TypeOK /\ OnlyGranted /\ RequestIntact /\ AnswerIntact

\* The pages 502 and 504 tell the truth, and over TCP a target that is down is reported
\* (write_service_unavailable_response, forward_first_http_response_chunk).
PagesTellTheTruth == PagesAreTrue /\ DownTargetIsReported

\* The properties of NodeBridge.  The bytes that the session has acknowledged are
\* all on their way to the service as long as the reader runs, whichever thread took
\* them from the inbox, and they arrive, unless the client closes the session or the
\* service is gone (copy_blocking, wait_for_ack).
AckedReachesService == [](Bridge!IInv /\ Bridge!AckedIsHeld) /\ Bridge!AckedReachesService

\* A CLOSE in the inbox of a running bridge ends one of its threads; and when the
\* reader took it and the service has ended too, the bridge returns
\* (bridge_udp_session_to_tcp_proxy).
BridgeEnds == Bridge!CloseEndsAThread /\ Bridge!BridgeReturns

\* The properties of Rendezvous.  A client that was told the node's address gets
\* through to it although both are behind a NAT (send_punch_burst).
HoleOpens ==
    (Punching /\ visitor["c"].st = "hello") ~> (Punching => visitor["c"].st = "connected")

\* The relay always learns the address that a trusted node has now, after its NAT
\* moved it, after a restart of the relay, and when an old registration arrives
\* late (send_node_register).
RegistrationCatchesUp == part = "moves" => Moves!RegistrationCatchesUp
=============================================================================
