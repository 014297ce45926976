--------------------------- MODULE SessionTokenProofs ---------------------------
(***************************************************************************)
(* Proofs about session tokens for every lifetime, leeway, set of nodes    *)
(* and history of clocks whose errors stay within half of the leeway.      *)
(***************************************************************************)
EXTENDS SessionToken, TLAPS

\* A clock never shows more than Drift before or after true time.
LEMMA ClockError ==
    ASSUME TokenTypeOK, NEW h \in Hosts
    PROVE  /\ Now(h) \in Int
           /\ time - Drift <= Now(h) /\ Now(h) <= time + Drift
<1>1. offset[h] \in Offsets /\ time \in Nat
  BY DEF TokenTypeOK
<1> QED
  BY <1>1, ConstantsAssumption DEF Offsets, Now

\* The arithmetic of the leeway: a token is refused only when it is older than its
\* lifetime, and accepted only while it is not much older.
LEMMA LeewayBounds ==
    ASSUME TokenTypeOK, NEW h \in Hosts, NEW t \in Token,
           t.expires_at - t.issued \in (Ttl - Drift) .. (Ttl + Drift)
    PROVE  /\ t.expires_at + Skew < Now(h) => time - t.issued > Ttl
           /\ ~(t.expires_at + Skew < Now(h)) => time - t.issued <= Ttl + Skew + 2 * Drift
<1>1. t.expires_at \in Int /\ t.issued \in Nat /\ time \in Nat
  BY DEF Token, TokenTypeOK
<1>2. Now(h) \in Int /\ time - Drift <= Now(h) /\ Now(h) <= time + Drift
  BY ClockError
<1>3. Ttl - Drift <= t.expires_at - t.issued /\ t.expires_at - t.issued <= Ttl + Drift
  BY <1>1, ConstantsAssumption
<1> QED
  BY <1>1, <1>2, <1>3, ConstantsAssumption

\* Issuing keeps the invariant: the expiry is off by the control plane's clock only.
LEMMA IssueKeepsTokenInv ==
    ASSUME TokenInv, NEW s \in Services, NEW n \in Nodes, issue_session_token(s, n)
    PROVE  TokenInv'
<1> DEFINE t == [service |-> s, node |-> n, secret |-> secret[Control],
                 expires_at |-> Now(Control) + Ttl, issued |-> time]
<1>1. TokenTypeOK /\ Control \in Hosts
  BY DEF TokenInv, Hosts
<1>2. Now(Control) \in Int /\ time - Drift <= Now(Control) /\ Now(Control) <= time + Drift
  BY <1>1, ClockError
<1>3. t \in Token
  BY <1>1, <1>2, ConstantsAssumption DEF Token, TokenTypeOK
<1>4. t.issued <= time /\ t.expires_at - t.issued \in (Ttl - Drift) .. (Ttl + Drift)
  BY <1>1, <1>2, ConstantsAssumption DEF TokenTypeOK
<1>5. tokens' = tokens \cup {t} /\ UNCHANGED <<time, offset, secret, checks>>
  BY DEF issue_session_token
<1> HIDE DEF t
<1>6. TokenTypeOK'
  BY <1>1, <1>3, <1>5 DEF TokenTypeOK
<1>7. \A u \in tokens' : u.issued <= time' /\ u.expires_at - u.issued \in (Ttl - Drift) .. (Ttl + Drift)
  BY <1>4, <1>5 DEF TokenInv
<1>8. \A c \in checks' : c.token \in tokens'
  BY <1>5 DEF TokenInv
<1>9. FreshIsAccepted' /\ StaleIsRefused' /\ OnlyItsOwn'
  BY <1>5 DEF TokenInv, JudgedRight, FreshIsAccepted, StaleIsRefused, OnlyItsOwn, Age, Matches
<1> QED
  BY <1>6, <1>7, <1>8, <1>9 DEF TokenInv, JudgedRight

\* A check keeps the invariant: the outcome is right for its token and its time.
LEMMA PresentKeepsTokenInv ==
    ASSUME TokenInv, NEW h \in Hosts \ {Control}, NEW t \in tokens, NEW n \in Nodes, NEW s \in Services,
           Present(h, t, n, s)
    PROVE  TokenInv'
<1> DEFINE accepted == verify_session_token(h, t) /\ Matches(h, t, n, s)
           new == [token |-> t, host |-> h, node |-> n, service |-> s,
                   secret |-> secret[h], at |-> time, ok |-> accepted]
<1>1. TokenTypeOK /\ h \in Hosts /\ t \in Token
  BY DEF TokenInv, TokenTypeOK
<1>2. checks' = checks \cup {new} /\ UNCHANGED <<time, offset, secret, tokens>>
  BY DEF Present
<1>3. accepted \in BOOLEAN
  BY DEF verify_session_token, Matches
<1>4. new \in Check
  BY <1>1, <1>3 DEF Check, TokenTypeOK
<1>5. /\ new.token = t /\ new.host = h /\ new.node = n /\ new.service = s
      /\ new.secret = secret[h] /\ new.at = time /\ new.ok = accepted
  OBVIOUS
<1>6. /\ t.expires_at + Skew < Now(h) => time - t.issued > Ttl
      /\ ~(t.expires_at + Skew < Now(h)) => time - t.issued <= Ttl + Skew + 2 * Drift
  BY <1>1, LeewayBounds DEF TokenInv
<1>7. time \in Nat /\ t.issued \in Nat
  BY <1>1 DEF TokenTypeOK, Token
<1>8. new.secret = new.token.secret /\ Matches(new.host, new.token, new.node, new.service) /\ Age(new) <= Ttl => new.ok
  <2> SUFFICES ASSUME secret[h] = t.secret, Matches(h, t, n, s), time - t.issued <= Ttl
               PROVE  accepted
    BY <1>5 DEF Age
  <2>1. ~(t.expires_at + Skew < Now(h))
    BY <1>6, <1>7, ConstantsAssumption
  <2> QED
    BY <2>1 DEF verify_session_token
<1>9. new.ok => Age(new) <= Ttl + Skew + 2 * Drift
  BY <1>5, <1>6 DEF Age, verify_session_token
<1>10. new.ok => /\ new.token \in tokens /\ new.token.secret = new.secret
                 /\ new.token.node = (IF new.host = Relay THEN new.node ELSE new.host)
                 /\ new.host # Relay => new.token.service = new.service
  BY <1>5 DEF verify_session_token, Matches
<1> HIDE DEF new
<1>11. TokenTypeOK'
  BY <1>1, <1>2, <1>4 DEF TokenTypeOK
<1>12. FreshIsAccepted'
  BY <1>2, <1>8 DEF TokenInv, JudgedRight, FreshIsAccepted, Age, Matches
<1>13. StaleIsRefused'
  BY <1>2, <1>9 DEF TokenInv, JudgedRight, StaleIsRefused, Age
<1>14. OnlyItsOwn'
  BY <1>2, <1>10 DEF TokenInv, JudgedRight, OnlyItsOwn
<1>15. \A c \in checks' : c.token \in tokens'
  BY <1>2, <1>5 DEF TokenInv
<1> QED
  BY <1>2, <1>11, <1>12, <1>13, <1>14, <1>15 DEF TokenInv, JudgedRight

\* TokenInv is inductive.
LEMMA TokenInvInductive == TokenInv /\ [TokenNext]_tokenVars => TokenInv'
<1> SUFFICES ASSUME TokenInv, [TokenNext]_tokenVars PROVE TokenInv'
  OBVIOUS
<1> USE DEF TokenInv, JudgedRight
<1>1. CASE Elapse
  <2>1. time \in Nat /\ time' = time + 1 /\ UNCHANGED <<offset, secret, tokens, checks>>
    BY <1>1 DEF Elapse, TokenTypeOK
  <2>2. TokenTypeOK'
    BY <2>1 DEF TokenTypeOK
  <2>3. \A t \in tokens' : t.issued <= time' /\ t.expires_at - t.issued \in (Ttl - Drift) .. (Ttl + Drift)
    BY <2>1 DEF TokenTypeOK, Token
  <2> QED
    BY <2>1, <2>2, <2>3 DEF FreshIsAccepted, StaleIsRefused, OnlyItsOwn, Age, Matches
<1>2. ASSUME NEW h \in Hosts, SetClock(h) PROVE TokenInv'
  <2>1. PICK d \in Offsets : offset' = [offset EXCEPT ![h] = d]
    BY <1>2 DEF SetClock
  <2>2. TokenTypeOK' /\ UNCHANGED <<time, tokens, checks>>
    BY <1>2, <2>1 DEF SetClock, TokenTypeOK
  <2> QED
    BY <2>2 DEF FreshIsAccepted, StaleIsRefused, OnlyItsOwn, Age, Matches
<1>3. CASE Reconfigure
  <2>1. PICK s \in Secrets : secret' = [secret EXCEPT ![Control] = s, ![Relay] = s]
    BY <1>3 DEF Reconfigure
  <2>2. TokenTypeOK' /\ UNCHANGED <<time, tokens, checks>>
    BY <1>3, <2>1 DEF Reconfigure, TokenTypeOK
  <2> QED
    BY <2>2 DEF FreshIsAccepted, StaleIsRefused, OnlyItsOwn, Age, Matches
<1>4. ASSUME NEW n \in Nodes, Rejoin(n) PROVE TokenInv'
  <2>1. TokenTypeOK' /\ UNCHANGED <<time, tokens, checks>>
    BY <1>4 DEF Rejoin, TokenTypeOK, Hosts
  <2> QED
    BY <2>1 DEF FreshIsAccepted, StaleIsRefused, OnlyItsOwn, Age, Matches
<1>5. CASE UNCHANGED tokenVars
  BY <1>5 DEF tokenVars, TokenTypeOK, FreshIsAccepted, StaleIsRefused, OnlyItsOwn, Age, Matches
<1> QED
  BY <1>1, <1>2, <1>3, <1>4, <1>5, IssueKeepsTokenInv, PresentKeepsTokenInv DEF TokenNext

\* For all clocks within half of the leeway: a fresh token is accepted where it
\* belongs, a token older than lifetime, leeway and clock difference is refused, and
\* no host accepts a token that is not for it.
THEOREM TokensAreJudgedRight == TokenSpec => []JudgedRight
<1>1. TokenInit => TokenInv
  BY ConstantsAssumption DEF TokenInit, TokenInv, JudgedRight, TokenTypeOK, FreshIsAccepted, StaleIsRefused, OnlyItsOwn, Hosts
<1>2. TokenInv => JudgedRight
  BY DEF TokenInv
<1> QED
  BY <1>1, <1>2, TokenInvInductive, PTL DEF TokenSpec
=============================================================================
