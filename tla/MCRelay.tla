-------------------------------- MODULE MCRelay --------------------------------
(***************************************************************************)
(* The relay for TLC: SessionToken, what it takes for a valid token, and   *)
(* Relay, how it pairs sockets, side by side.  The first state chooses one *)
(* of them, and the other stays as it starts.                              *)
(*                                                                         *)
(* Relay has two connectors and two clients, a lease as long as the TTL    *)
(* and a pause of one unit: the tightest values that RelayAssumption       *)
(* allows.                                                                 *)
(***************************************************************************)
EXTENDS SessionToken, Relay, TLC

CONSTANTS n1, n2, s1, s2, k1, k2

MCNodes == {n1, n2}
MCServices == {s1, s2}
MCSecrets == {k1, k2}

VARIABLE part

MCInit ==
    /\ part \in {"token", "relay"} /\ TokenInit /\ Init
    /\ part = "relay" => \A h \in Hosts : offset[h] = 0 /\ secret[h] = k1
MCNext ==
    \/ part = "token" /\ TokenNext /\ UNCHANGED <<part, vars>>
    \/ part = "relay" /\ Next /\ UNCHANGED <<part, tokenVars>>
MCSpec == MCInit /\ [][MCNext]_<<part, vars, tokenVars>>

\* What holds of a check is settled when it is made, and tokens do not bear on each
\* other.  Before the first one is issued time makes no difference.
OneCheck == checks = {} /\ Cardinality(tokens) <= 1 /\ (tokens = {} => time = 0)

\* Connectors are interchangeable, and so are clients.
Symmetry == Permutations(Connectors) \cup Permutations(Clients)
=============================================================================
