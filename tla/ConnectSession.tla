----------------------------- MODULE ConnectSession -----------------------------
(***************************************************************************)
(* How a client turns a grant into a connection: it walks its checklists   *)
(* (module SessionGrant) one attempt at a time until one succeeds.  Three  *)
(* clients do this:                                                        *)
(*   "tls"      connect_session_service_tls, behind every CLI command; an  *)
(*              attempt includes the end-to-end TLS handshake with the     *)
(*              service, and legacy candidates get several attempts;       *)
(*   "session"  connect_session of the same library, without TLS;          *)
(*   "android"  connect_session_grant of the Android tunnel, again and     *)
(*              again with the one grant the tunnel was started with,      *)
(*              remembering the ICE path that worked last.                 *)
(* The network changes under the client.  Time is counted in I/O timeouts  *)
(* of the TLS handshake (100 ms).                                          *)
(***************************************************************************)
EXTENDS SessionGrant

CONSTANTS
    Clients,       \* the clients of this instance, among the three above
    Configs,       \* node configurations
    Controls,      \* control plane configurations (relay addresses)
    TlsDeadline,   \* SERVICE_TLS_CANDIDATE_HANDSHAKE_TIMEOUT
    Delays,        \* how many I/O timeouts a service may take to answer
    MaxChanges,    \* bound on changes of the network
    MaxConnects    \* bound on the connections of an Android tunnel

ASSUME ConnectAssumption ==
    /\ Clients \subseteq {"tls", "session", "android"}
    /\ TlsDeadline \in Nat \ {0}
    /\ Delays \subseteq Nat

VARIABLES
    opts,      \* client, mode and attempts of this connection
    grant,     \* the candidates the client was given
    preferred, \* selected_ice_paths of the service: empty or one ICE candidate
    todo,      \* attempts not made yet, the current one first
    stage,     \* where the current attempt is
    waited,    \* I/O timeouts in the current TLS handshake
    up,        \* ways that answer now
    steady,    \* ways that have answered since the walk began
    delay,     \* how long the service takes to answer over each kind of path
    changes, connects,
    failed,    \* attempts of this walk that failed, in order
    path       \* the candidate that connected, as a set

vars == <<opts, grant, preferred, todo, stage, waited, up, steady, delay,
          changes, connects, failed, path>>

\* How a client connects: only the CLI asks for relay transport, and only then
\* for a second attempt (proxy_via_medium_session).
Options ==
    [client : Clients \cap {"tls"}, mode : {"auto"}, attempts : {1}]
      \cup [client : Clients \cap {"tls"}, mode : {"relay_only"}, attempts : {2}]
      \cup [client : Clients \cap {"session", "android"}, mode : {"auto"}, attempts : {1}]

Ice(c) == c.kind \in {"host", "srflx", "relay"}
Usable(c) == ~is_unusable_backend_candidate_addr(c.addr)
Candidates(g) == {g.ice[i] : i \in DOMAIN g.ice} \cup {g.legacy[i] : i \in DOMAIN g.legacy}
\* Whether a candidate can be reached: UDP may be blocked where TCP is not.
Way(c) == <<Ice(c), c.addr>>
\* The way from the client to the peer address that a rendezvous tells.
PeerWay == <<TRUE, NoAddr>>
\* The way that the session itself takes.
Link(c) == IF c.kind = "relay" THEN PeerWay ELSE Way(c)
Ways(g) == UNION {{Way(c), Link(c)} : c \in Candidates(g)}
Kinds == {"host", "srflx", "relay", "direct_tcp", "relay_tcp", "wss_relay"}

TypeOK ==
    /\ opts \in Options
    /\ preferred \subseteq Candidates(grant) /\ Cardinality(preferred) <= 1
    /\ \A i \in DOMAIN todo : todo[i].of \in Candidates(grant) /\ todo[i].n \in 1 .. opts.attempts
    /\ stage \in {"idle", "resolve", "connect", "tls", "connected", "failed"}
    /\ waited \in 0 .. TlsDeadline
    /\ steady \subseteq up /\ up \subseteq Ways(grant)
    /\ path \subseteq Candidates(grant)

Init ==
    /\ opts \in Options
    /\ \E cfg \in Configs, cp \in Controls :
           GrantOk(cfg, cp) /\ grant = issue_session_grant(cfg, cp)
    /\ up \in SUBSET Ways(grant)
    /\ \E d, w \in (IF opts.client = "tls" THEN Delays ELSE {0}) :
           delay = [k \in Kinds |-> IF k = "wss_relay" THEN w ELSE d]
    /\ preferred = {} /\ todo = <<>> /\ stage = "idle" /\ waited = 0
    /\ steady = {} /\ changes = 0 /\ connects = 0 /\ failed = <<>> /\ path = {}

-----------------------------------------------------------------------------
(***************************************************************************)
(* The attempts of a walk.  Candidates with an unusable address are        *)
(* skipped, except that connect_session_service_tls does not look at the   *)
(* addresses of legacy candidates.                                         *)
(***************************************************************************)
Attempt(c, n) == [of |-> c, n |-> n]

Once(list) == [i \in DOMAIN list |-> Attempt(list[i], 1)]
Times(list, per) ==
    [i \in 1 .. Len(list) * per |-> Attempt(list[1 + ((i - 1) \div per)], 1 + ((i - 1) % per))]

\* connect_session: try_connect_ice_udp, then connect_legacy_candidate.
SessionIce ==
    IF opts.mode = "auto" THEN SelectSeq(ice_checklist(grant, preferred), Usable) ELSE <<>>
SessionLegacy == SelectSeq(ordered_legacy_candidates_for_mode(grant, opts.mode), Usable)

\* connect_session_service_tls: each legacy candidate has all its attempts
\* before the next one is tried.
TlsWalk ==
    Once(SessionIce) \o Times(ordered_legacy_candidates_for_mode(grant, opts.mode), opts.attempts)

\* connect_session_grant of the tunnel: its own try_connect_ice_udp, with the
\* path of the last stream, and its own loop over the legacy candidates.
AndroidIce == SelectSeq(ice_checklist(grant, preferred), Usable)
AndroidLegacy == SelectSeq(SortByKey(grant.legacy, LAMBDA c : <<-c.priority>>), Usable)

Walk ==
    CASE opts.client = "session" -> Once(SessionIce \o SessionLegacy)
      [] opts.client = "tls" -> TlsWalk
      [] opts.client = "android" -> Once(AndroidIce \o AndroidLegacy)

\* A relay candidate of the ICE list is a rendezvous address to ask first.
FirstStage(list) ==
    IF list = <<>> THEN "failed" ELSE IF list[1].of.kind = "relay" THEN "resolve" ELSE "connect"

Start ==
    /\ stage = "idle"
    /\ todo' = Walk
    /\ stage' = FirstStage(todo')
    /\ steady' = up /\ waited' = 0 /\ failed' = <<>> /\ path' = {}
    /\ UNCHANGED <<opts, grant, preferred, up, delay, changes, connects>>

\* The current attempt failed: the next one, or the walk is over.
Fail ==
    /\ failed' = Append(failed, todo[1])
    /\ todo' = Tail(todo)
    /\ stage' = FirstStage(Tail(todo))
    /\ waited' = 0
    /\ UNCHANGED <<opts, grant, preferred, up, steady, delay, changes, connects, path>>

\* resolve_peer: the relay tells the node's address, or does not answer.
Resolve ==
    /\ stage = "resolve"
    /\ \/ /\ Way(todo[1].of) \in up
          /\ stage' = "connect"
          /\ UNCHANGED <<opts, grant, preferred, todo, waited, up, steady, delay,
                         changes, connects, failed, path>>
       \/ Way(todo[1].of) \notin up /\ Fail

\* Seeded bug: the first path is kept for ever.
RememberFirst(c) ==
    IF opts.client = "android" /\ Ice(c) /\ preferred = {} THEN {c} ELSE preferred

\* selected_ice_paths of the Android tunnel keeps the last ICE path.
Remember(c) == IF opts.client = "android" /\ Ice(c) THEN {c} ELSE preferred

Connected(c) ==
    /\ stage' = "connected"
    /\ path' = {c}
    /\ preferred' = Remember(c)
    /\ connects' = connects + 1
    /\ UNCHANGED <<opts, grant, todo, waited, up, steady, delay, changes, failed>>

\* A CLI connection goes on with TLS, the others are done.
Reached(c) ==
    \/ opts.client # "tls" /\ Connected(c)
    \/ /\ opts.client = "tls"
       /\ stage' = "tls"
       /\ UNCHANGED <<opts, grant, preferred, todo, waited, up, steady, delay,
                      changes, connects, failed, path>>

\* One attempt to get through to a candidate of some kinds.
Try(kinds) ==
    /\ stage = "connect" /\ todo[1].of.kind \in kinds
    /\ \/ Link(todo[1].of) \in up /\ Reached(todo[1].of)
       \/ Link(todo[1].of) \notin up /\ Fail

\* The UDP handshake with a candidate, and with the peer that the relay told.
ConnectUdp == Try({"host", "srflx"})
ConnectPeer == Try({"relay"})

\* TCP, or a WebSocket, and the hellos for the relay and for the session.
\* Nobody waits for an answer to a hello.
ConnectTcp == Try({"direct_tcp", "relay_tcp"})
ConnectWss == Try({"wss_relay"})

\* The service's part of the handshake arrives.
TlsAnswer ==
    /\ stage = "tls"
    /\ Link(todo[1].of) \in up
    /\ waited = delay[todo[1].of.kind]
    /\ Connected(todo[1].of)

TlsNewDeadline ==
    /\ stage = "tls"
    /\ waited < delay[todo[1].of.kind] \/ Link(todo[1].of) \notin up
    /\ waited' = 1 - waited
    /\ UNCHANGED <<opts, grant, preferred, todo, stage, up, steady, delay,
                   changes, connects, failed, path>>
TlsNoRetry ==
    /\ stage = "tls"
    /\ waited < delay[todo[1].of.kind] \/ Link(todo[1].of) \notin up
    /\ Fail

\* Nothing came within the I/O timeout.  complete_io reports it as an error
\* that is_timeout recognises, so that the handshake goes on until the
\* deadline; but WssByteStream::read turns every error into ErrorKind::Other.
TlsTimeout ==
    /\ stage = "tls"
    /\ waited < delay[todo[1].of.kind] \/ Link(todo[1].of) \notin up
    /\ \/ /\ todo[1].of.kind # "wss_relay"
          /\ waited + 1 < TlsDeadline
          /\ waited' = waited + 1
          /\ UNCHANGED <<opts, grant, preferred, todo, stage, up, steady, delay,
                         changes, connects, failed, path>>
       \/ /\ todo[1].of.kind = "wss_relay" \/ waited + 1 >= TlsDeadline
          /\ Fail

\* A stream of the Android tunnel is over, and the browser opens another one.
Reconnect ==
    /\ opts.client = "android" /\ stage \in {"connected", "failed"}
    /\ connects < MaxConnects
    /\ stage' = "idle"
    /\ UNCHANGED <<opts, grant, preferred, todo, waited, up, steady, delay,
                   changes, connects, failed, path>>

\* A way starts or stops answering.
NetworkChange ==
    /\ changes < MaxChanges
    /\ changes' = changes + 1
    /\ \E a \in Ways(grant) :
           /\ up' = IF a \in up THEN up \ {a} ELSE up \cup {a}
           /\ steady' = steady \ {a}
    /\ UNCHANGED <<opts, grant, preferred, todo, stage, waited, delay, connects, failed, path>>

Client == Start \/ Resolve \/ ConnectUdp \/ ConnectPeer \/ ConnectTcp \/ ConnectWss
            \/ TlsAnswer \/ TlsTimeout
Next == Client \/ Reconnect \/ NetworkChange

-----------------------------------------------------------------------------
Failures(c) == {i \in DOMAIN failed : failed[i].of = c}

\* Candidates of the grant that this client means to try at all.
Wanted(c) ==
    /\ Ice(c) => opts.mode = "auto" /\ Usable(c)
    /\ ~Ice(c) => /\ opts.mode = "auto" \/ c.kind \in {"relay_tcp", "wss_relay"}
                  /\ opts.client = "tls" \/ Usable(c)

\* A walk gives up only when every candidate it wants has failed as often as it
\* has attempts, whatever the network did and whichever path was remembered
\* (connect_session_service_tls, connect_session, connect_session_grant).
GivesUpAfterAll ==
    stage = "failed" =>
        \A c \in Candidates(grant) : Wanted(c) =>
            Cardinality(Failures(c)) = IF Ice(c) THEN 1 ELSE opts.attempts

IsSteady(c) == {Way(c), Link(c)} \subseteq steady

\* What a service needs from a path: an answer before the deadline, and over a
\* WebSocket even before the first I/O timeout.
AnswersInTime(c) ==
    opts.client = "tls" =>
        /\ delay[c.kind] < TlsDeadline
        /\ c.kind = "wss_relay" => delay[c.kind] = 0

\* A candidate that answered during the whole walk is never passed over: each
\* attempt before the one that connected was on an address that was down at
\* some time, or on a service too slow for its kind of path.
SteadyPathWins ==
    stage \in {"connected", "failed"} =>
        \A i \in DOMAIN failed :
            ~IsSteady(failed[i].of) \/ ~AnswersInTime(failed[i].of)

\* The order of the attempts: the remembered path first, then the ICE
\* candidates on the node's own network before the public ones before the
\* rendezvous, then TCP (ice_checklist_orders_host_then_srflx_then_relay).
Rank(c) ==
    CASE c \in preferred -> -1
      [] c.kind = "host" -> 0 [] c.kind = "srflx" -> 1 [] c.kind = "relay" -> 2
      [] c.kind = "direct_tcp" -> 3 [] OTHER -> 4
Walked == failed \o todo
NearestFirst ==
    stage \notin {"idle", "connected"} =>
        \A i, j \in DOMAIN Walked : i < j => Rank(Walked[i].of) <= Rank(Walked[j].of)

\* With --relay no attempt goes to an address of the node itself
\* (README: "skip direct candidates and force relay transport").
RelayOnlyAvoidsNode ==
    opts.mode = "relay_only" =>
        \A i \in DOMAIN todo : todo[i].of.kind \in {"relay_tcp", "wss_relay"}

\* The ICE path of an Android stream is the first one the next stream tries,
\* also when it replaced another one in between that had stopped working
\* (take_or_connect_backend, ensure_idle_backend).
LastPathGoesFirst ==
    [][stage = "idle" /\ stage' # "idle" /\ opts.client = "android" /\ (\E c \in path : Ice(c))
          => todo'[1].of \in path]_vars
=============================================================================
