------------------------------- MODULE MCAppsLive -------------------------------
(***************************************************************************)
(* What must happen in the apps, for TLC: the race of the Apple app's      *)
(* candidates (UdpConnector), the Android tunnel (AndroidTunnel) and the   *)
(* browser proxy (BrowserProxy), side by side.  The first state chooses    *)
(* one of the three, and the others stay as they start.                    *)
(***************************************************************************)
EXTENDS UdpConnector

VARIABLES part, slots, next_tcp_stream, conn, tun, backends, streams, pending, idle, stage, events,
          todo, ended, cut
tunnelVars == <<slots, next_tcp_stream, conn, tun, backends, streams, pending, idle, stage, events,
                todo, ended, cut>>

\* One connection, with a request and a response longer than the send buffer.
Tunnel == INSTANCE AndroidTunnel WITH
    Services <- <<"web">>, Conns <- {"c1"}, Dests <- {<<"web", 80>>, <<"web", 443>>},
    MaxSent <- 3, TxBuffer <- 2, Granted <- {"web"}, IDLE_BACKENDS_PER_SERVICE <- 1,
    MaxBackends <- 3, MaxOut <- 3, MaxTun <- 3

-----------------------------------------------------------------------------
VARIABLES generation, grant, listening, starting, pool, warming, waiters, jobs, bypass, live,
          pages, starts, stops
browserVars == <<generation, grant, listening, starting, pool, warming, waiters, jobs, bypass, live,
                 pages, starts, stops>>

\* The session has both kinds of candidate, or none over TCP.
MCGrants ==
    {[session |-> 1, service |-> "web", ice |-> TRUE, tcp |-> TRUE],
     [session |-> 2, service |-> "web", ice |-> TRUE, tcp |-> FALSE]}
Browsers == {"b1", "b2"}

Proxy == INSTANCE BrowserProxy WITH
    Grants <- MCGrants, NoGrant <- [session |-> 0], MaxStarts <- 1, MaxStops <- 1, MaxChunks <- 1,
    conn <- pages

-----------------------------------------------------------------------------
MCInit ==
    /\ part \in {"connector", "tunnel", "browser"}
    /\ Init /\ Tunnel!Init /\ Proxy!Init
    /\ part # "tunnel" => backends = <<>> /\ conn["c1"].dest[2] = 443
MCNext ==
    \/ part = "connector" /\ Next /\ UNCHANGED <<part, tunnelVars, browserVars>>
    \/ part = "tunnel" /\ Tunnel!Next /\ UNCHANGED <<part, vars, browserVars>>
    \/ part = "browser" /\ Proxy!Next /\ UNCHANGED <<part, vars, tunnelVars>>

\* Dispatched tasks run, and every attempt to connect has a timeout.
Races == part = "connector"
ConnectorFair == WF_vars(Races /\ Return) /\ \A c \in Candidates : WF_vars(Races /\ Step(c))

\* The loop goes on as long as it runs.
Loops == part = "tunnel"
TunnelFair == WF_stage(Loops /\ Tunnel!Polled) /\ WF_tunnelVars(Loops /\ Tunnel!Work)

\* The queue runs its blocks, an attempt to connect ends (it has a timeout), the timer
\* fires, and the system calls the completion of a send.  Nothing obliges the browser
\* to send its request or the service to answer it.
Proxies == part = "browser"
BrowserFair ==
    /\ WF_browserVars(Proxies /\ \E j \in jobs : Proxy!Warm(j))
    /\ \A b \in Browsers :
           /\ WF_browserVars(Proxies /\ Proxy!handleBrowserConnection(b))
           /\ WF_browserVars(Proxies /\ Proxy!Connecting(b))
           /\ WF_browserVars(Proxies /\ Proxy!ResponseTimeout(b))
           /\ WF_browserVars(Proxies /\ Proxy!PageSent(b))

MCSpec ==
    /\ MCInit /\ [][MCNext]_<<part, vars, tunnelVars, browserVars>>
    /\ ConnectorFair /\ TunnelFair /\ BrowserFair

-----------------------------------------------------------------------------
\* The caller of the race returns and every task ends (connectFirstSuccessful).
RaceSettles == Races => Settles

\* A backend that has ended is given up, whatever its stream still has to write
\* (pump_reads, remove_stream).
BackendsReleased == Tunnel!BackendsReleased

\* What fits into no send buffer is cut, and nothing else of a response is lost or
\* changed (send_tcp).
ResponsesIntact == Tunnel!ResponsesIntact

\* An accepted browser connection gets a response or an error page, or ends, unless
\* the proxy is stopped or restarted meanwhile (handleBrowserConnection).
Answered == Proxy!Answered
=============================================================================
