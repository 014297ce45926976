------------------------------ MODULE SessionToken ------------------------------
(***************************************************************************)
(* Session tokens (overlay-crypto): the control plane issues them, the     *)
(* relay's rendezvous and the nodes check them, each by its own clock and  *)
(* with its own copy of the shared secret.  A signature is the secret it   *)
(* was made with: HMAC is a library.                                       *)
(*                                                                         *)
(* offset[h] is how far the clock of h is from true time.  Clocks may be   *)
(* set at any moment, but no two are ever more than the allowed skew apart.*)
(* The secret of a host changes when it is set up again.                   *)
(***************************************************************************)
EXTENDS Integers

CONSTANTS
    Nodes, Services, Secrets,
    Relay, Control, \* the other hosts
    Ttl,            \* SESSION_TOKEN_TTL_MINUTES
    Skew,           \* SESSION_TOKEN_CLOCK_SKEW_MINUTES
    Drift,          \* how far a clock is from true time
    MaxMinutes         \* bound of the model

ASSUME ConstantsAssumption ==
    /\ Ttl \in Nat /\ Skew \in Nat /\ Drift \in Nat /\ MaxMinutes \in Nat
    /\ 2 * Drift <= Skew
    /\ Relay \notin Nodes /\ Control \notin Nodes /\ Relay # Control

Hosts == Nodes \cup {Relay, Control}
Offsets == (-Drift) .. Drift
Token == [service : Services, node : Nodes, secret : Secrets, expires_at : Int, issued : Nat]
Check == [token : Token, host : Hosts, node : Nodes, service : Services, secret : Secrets, at : Nat, ok : BOOLEAN]

VARIABLES
    time,    \* true time
    offset,  \* of the clocks
    secret,  \* each host's copy of the shared secret
    tokens,  \* issued, with the true time of issue
    checks   \* made, with the true time and the outcome

tokenVars == <<time, offset, secret, tokens, checks>>

Now(h) == time + offset[h]

TokenInit ==
    /\ time = 0 /\ tokens = {} /\ checks = {}
    /\ offset \in [Hosts -> Offsets]
    /\ \E s \in Secrets : secret = [h \in Hosts |-> s]

Elapse ==
    /\ time < MaxMinutes
    /\ time' = time + 1
    /\ UNCHANGED <<offset, secret, tokens, checks>>

SetClock(h) ==
    /\ \E d \in Offsets : offset' = [offset EXCEPT ![h] = d]
    /\ UNCHANGED <<time, secret, tokens, checks>>

\* A control plane that is initialised anew has a new secret, and so has the relay
\* beside it; a node keeps its own until it is set up with the new invite.
Reconfigure ==
    /\ \E s \in Secrets : secret' = [secret EXCEPT ![Control] = s, ![Relay] = s]
    /\ UNCHANGED <<time, offset, tokens, checks>>

Rejoin(n) ==
    /\ secret' = [secret EXCEPT ![n] = secret[Control]]
    /\ UNCHANGED <<time, offset, tokens, checks>>

issue_session_token(service, node) ==
    /\ tokens' = tokens \cup {[service |-> service, node |-> node, secret |-> secret[Control],
                               expires_at |-> Now(Control) + Ttl, issued |-> time]}
    /\ UNCHANGED <<time, offset, secret, checks>>

\* Seeded bug: without leeway.
NoLeeway(h, t) == secret[h] = t.secret /\ ~(t.expires_at < Now(h))

verify_session_token(h, t) ==
    /\ secret[h] = t.secret
    /\ ~(t.expires_at + Skew < Now(h))

\* The node wants its own id and the service of the hello, the relay the id of the
\* node that the client looks for.
Matches(h, t, node, service) ==
    IF h = Relay THEN t.node = node ELSE t.node = h /\ t.service = service

Present(h, t, node, service) ==
    /\ checks' = checks \cup {[token |-> t, host |-> h, node |-> node, service |-> service,
                               secret |-> secret[h], at |-> time,
                               ok |-> verify_session_token(h, t) /\ Matches(h, t, node, service)]}
    /\ UNCHANGED <<time, offset, secret, tokens>>

TokenNext ==
    \/ Elapse \/ Reconfigure
    \/ \E h \in Hosts : SetClock(h)
    \/ \E n \in Nodes : Rejoin(n)
    \/ \E s \in Services, n \in Nodes : issue_session_token(s, n)
    \/ \E h \in Hosts \ {Control}, t \in tokens, n \in Nodes, s \in Services : Present(h, t, n, s)

TokenSpec == TokenInit /\ [][TokenNext]_tokenVars

-----------------------------------------------------------------------------
TokenTypeOK ==
    /\ time \in Nat
    /\ offset \in [Hosts -> Offsets]
    /\ secret \in [Hosts -> Secrets]
    /\ tokens \subseteq Token
    /\ checks \subseteq Check

Age(c) == c.at - c.token.issued

\* A token that is shown where it belongs is accepted for the whole of its lifetime
\* by every host that shares the control plane's secret, however the clocks differ
\* and are set (verify_session_token: that is what the leeway is for).
FreshIsAccepted ==
    \A c \in checks :
        /\ c.secret = c.token.secret
        /\ Matches(c.host, c.token, c.node, c.service)
        /\ Age(c) <= Ttl
        => c.ok

\* The leeway extends a token's life by at most itself and the difference of the
\* clocks.
StaleIsRefused == \A c \in checks : c.ok => Age(c) <= Ttl + Skew + 2 * Drift

\* A node admits a session, and the relay tells an address, only for a token that
\* was issued for that very node under the secret that the host has.
OnlyItsOwn ==
    \A c \in checks : c.ok =>
        /\ c.token \in tokens /\ c.token.secret = c.secret
        /\ c.token.node = (IF c.host = Relay THEN c.node ELSE c.host)
        /\ c.host # Relay => c.token.service = c.service

\* A check comes out as it should, by age, by claims and by secret
\* (verify_session_token and its callers).
JudgedRight == FreshIsAccepted /\ StaleIsRefused /\ OnlyItsOwn

\* What the checks rest on: a token expires its lifetime after its issue, up to the
\* error of the control plane's clock.
TokenInv ==
    /\ TokenTypeOK
    /\ \A t \in tokens : t.issued <= time /\ t.expires_at - t.issued \in (Ttl - Drift) .. (Ttl + Drift)
    /\ \A c \in checks : c.token \in tokens
    /\ JudgedRight
=============================================================================
