--------------------------------- MODULE MCApps ---------------------------------
(***************************************************************************)
(* The proxies inside the apps for TLC: the browser proxy of the Apple app *)
(* (BrowserProxy) and the Android tunnel (AndroidTunnel on Netstack), side *)
(* by side.  The first state chooses one of them, and the other stays as   *)
(* it starts.                                                              *)
(***************************************************************************)
EXTENDS BrowserProxy, TLC

\* Two sessions of one service, the second without a TCP candidate, and another
\* service that has no ICE candidate.
MCGrants ==
    {[session |-> 1, service |-> "web", ice |-> TRUE, tcp |-> TRUE],
     [session |-> 2, service |-> "web", ice |-> TRUE, tcp |-> FALSE],
     [session |-> 3, service |-> "api", ice |-> FALSE, tcp |-> TRUE]}

-----------------------------------------------------------------------------
CONSTANT Conns
VARIABLES part, slots, next_tcp_stream, sockets, tun, backends, streams, pending, idle, stage, events,
          todo, ended, cut
tunnelVars == <<slots, next_tcp_stream, sockets, tun, backends, streams, pending, idle, stage, events,
                todo, ended, cut>>

Tunnel == INSTANCE AndroidTunnel WITH
    Services <- <<"web">>, Dests <- {<<"web", 80>>, <<"web", 443>>}, MaxSent <- 1, TxBuffer <- 1,
    Granted <- {"web"}, IDLE_BACKENDS_PER_SERVICE <- 1, MaxBackends <- 4, MaxOut <- 1, MaxTun <- 2,
    conn <- sockets

ASSUME TunnelAssumption == Tunnel!TunnelConstants

-----------------------------------------------------------------------------
MCInit ==
    /\ part \in {"tunnel", "browser"}
    /\ Init /\ Tunnel!Init
    /\ part = "browser" => backends = <<>> /\ \A c \in Conns : sockets[c].dest[2] = 443
MCNext ==
    \/ part = "tunnel" /\ Tunnel!Next /\ UNCHANGED <<part, vars>>
    \/ part = "browser" /\ Next /\ UNCHANGED <<part, tunnelVars>>
MCSpec == MCInit /\ [][MCNext]_<<part, vars, tunnelVars>>

\* Connections of a browser are interchangeable.
Symmetry == Permutations(Conns) \cup Permutations(Browsers)

-----------------------------------------------------------------------------
\* What a node gets over a backend is the request of one connection, what the browser
\* sees is the response of that backend or one of the stack's own answers, and on port
\* 80 nothing but the redirect (pump_tcp, pump_reads); with the types.
BytesIntact == Tunnel!TypeOK /\ Tunnel!RequestsIntact /\ Tunnel!ResponsesIntact /\ Tunnel!RedirectOnly

\* No error of send_tcp ends the loop, and every connection finds a listening socket
\* (pump_reads, ensure_tcp_listeners).
TunnelServes == Tunnel!TunnelKeepsRunning /\ Tunnel!NeverRefused

\* At the head of the loop each stream of the stack has a backend and each backend in
\* use a stream (remove_stream, close_tcp, handle_closed).
StreamsMatchSlots == Tunnel!StreamsMatchSlots
=============================================================================
