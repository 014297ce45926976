------------------------------ MODULE SessionGrant ------------------------------
(***************************************************************************)
(* From a node's configuration to the order in which a client tries to     *)
(* reach it: the endpoints the node registers (home-node control.rs), the  *)
(* candidates the control plane puts into a grant (routes/sessions.rs),    *)
(* and the client's checklists (medium-session lib.rs, used by the CLI and *)
(* by the Android tunnel).                                                 *)
(*                                                                         *)
(* An address is abstracted to the class of its host, which is all that    *)
(* these functions look at; distinct model addresses of a class differ in  *)
(* the second field.  Ports follow from the host here and are left out.    *)
(***************************************************************************)
EXTENDS Integers, Sequences, FiniteSets, TLC

\* Host classes.  "public" is any other IP address, "name" a DNS name and
\* "bad" a string without host or port, which no parser accepts.
Classes == {"unspecified", "loopback", "link_local", "benchmark", "private",
            "public", "name", "bad"}
Address == [class : Classes, n : Nat]
NoAddr == [class |-> "bad", n |-> 0]

-----------------------------------------------------------------------------
(***************************************************************************)
(* The node: build_registration.                                           *)
(***************************************************************************)
is_usable_host_ip(a) ==
    a.class \notin {"unspecified", "loopback", "link_local", "benchmark"}

\* push_ice_endpoint: an address already seen is not listed again.
PushEndpoint(list, a, p) ==
    IF \E i \in DOMAIN list : list[i].addr = a
    THEN list
    ELSE Append(list, [addr |-> a, priority |-> p])

\* A recursive function rather than a loop over the addresses of one origin.
PushAll(list, addrs, p) ==
    LET push[i \in 0 .. Len(addrs)] ==
            IF i = 0 THEN list ELSE PushEndpoint(push[i - 1], addrs[i], p)
    IN  push[Len(addrs)]

\* cfg.ice_public_addr, else the host of public_addr if it has one, else the
\* bind address.
effective_ice_public_addr(cfg) ==
    IF cfg.ice_public # NoAddr THEN cfg.ice_public
    ELSE IF cfg.public.class # "bad" THEN cfg.public
    ELSE cfg.bind

build_ice_udp_endpoints(cfg) ==
    LET configured == PushAll(<<>>, cfg.ice_host_addrs, 300)
        discovered == PushAll(configured, SelectSeq(cfg.local_ips, is_usable_host_ip), 250)
    IN  PushEndpoint(discovered, effective_ice_public_addr(cfg), 100)

\* The address of the node's only tcp_proxy endpoint.
TcpAddr(cfg) == IF cfg.public # NoAddr THEN cfg.public ELSE cfg.bind

-----------------------------------------------------------------------------
(***************************************************************************)
(* Stable sorting by a key, smallest first: Rust's sort_by, and the        *)
(* registry's "order by priority desc, id asc" over rows in insertion      *)
(* order.  Keys are tuples of integers compared lexicographically.         *)
(***************************************************************************)
KeyLess(k, l) ==
    \E i \in DOMAIN k : k[i] < l[i] /\ \A j \in 1 .. i - 1 : k[j] = l[j]

SortByKey(s, Key(_)) ==
    LET before(i, j) == \/ KeyLess(Key(s[i]), Key(s[j]))
                        \/ Key(s[i]) = Key(s[j]) /\ i < j
        order == SortSeq([i \in DOMAIN s |-> i], before)
    IN  [p \in DOMAIN s |-> s[order[p]]]

-----------------------------------------------------------------------------
(***************************************************************************)
(* The control plane: issue_session_grant for a resolved route.            *)
(***************************************************************************)
\* RegistryStore::endpoints, for the rows of one registration.
RegistryOrder(endpoints) == SortByKey(endpoints, LAMBDA e : <<-e.priority>>)

classify_node_udp_candidate(a) ==
    IF a.class \in {"private", "loopback", "link_local", "unspecified"}
    THEN "host" ELSE "srflx"

IceCandidate(kind, a, p, f) ==
    [kind |-> kind, addr |-> a, priority |-> p, foundation |-> f]

\* The whole grant fails when one address does not parse.
IceParses(endpoints, relay) ==
    /\ \A i \in DOMAIN endpoints : endpoints[i].addr.class # "bad"
    /\ relay.has => relay.addr.class # "bad"

\* foundation is "<kind>-udp-<index>": compared only between candidates of one
\* kind, where it orders them by their index (one digit here).
build_ice_grant(endpoints, relay) ==
    LET host(i) == IceCandidate(classify_node_udp_candidate(endpoints[i].addr),
                                endpoints[i].addr, endpoints[i].priority, i)
        node == [i \in DOMAIN endpoints |-> host(i)]
    IN  IF relay.has THEN Append(node, IceCandidate("relay", relay.addr, 10, 1)) ELSE node

\* ice_relay_addr, or else relay_addr.
IceRelay(cp) == IF cp.ice_relay.has THEN cp.ice_relay ELSE cp.relay

Optional(kind, o) ==
    IF o.has THEN <<[kind |-> kind, addr |-> o.addr, priority |-> 10]>> ELSE <<>>

LegacyCandidates(cfg, cp) ==
    <<[kind |-> "direct_tcp", addr |-> TcpAddr(cfg), priority |-> 100]>>
      \o Optional("relay_tcp", cp.relay) \o Optional("wss_relay", cp.wss)

GrantOk(cfg, cp) == IceParses(RegistryOrder(build_ice_udp_endpoints(cfg)), IceRelay(cp))

issue_session_grant(cfg, cp) ==
    [ice    |-> build_ice_grant(RegistryOrder(build_ice_udp_endpoints(cfg)), IceRelay(cp)),
     legacy |-> LegacyCandidates(cfg, cp)]

-----------------------------------------------------------------------------
(***************************************************************************)
(* The client: which candidates, in which order.                           *)
(***************************************************************************)
is_unusable_backend_candidate_addr(a) ==
    a.class \in {"unspecified", "loopback", "benchmark"}

ice_kind_rank(kind) == CASE kind = "host" -> 0 [] kind = "srflx" -> 1 [] kind = "relay" -> 2

candidate_preference_rank(c, preferred) ==
    IF \E p \in preferred : p.kind = c.kind /\ p.addr = c.addr THEN 0 ELSE 1

\* Seeded bug: priority is compared before the kind.
PriorityFirst(grant, preferred) ==
    SortByKey(grant.ice, LAMBDA c : <<candidate_preference_rank(c, preferred),
                                      -c.priority, ice_kind_rank(c.kind), c.foundation>>)

\* preferred is the empty set or a singleton.
ice_checklist(grant, preferred) ==
    SortByKey(grant.ice, LAMBDA c : <<candidate_preference_rank(c, preferred),
                                      ice_kind_rank(c.kind), -c.priority, c.foundation>>)

ordered_legacy_candidates_for_mode(grant, mode) ==
    SortByKey(SelectSeq(grant.legacy,
                        LAMBDA c : mode = "relay_only" => c.kind \in {"relay_tcp", "wss_relay"}),
              LAMBDA c : <<-c.priority>>)
=============================================================================
