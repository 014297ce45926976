------------------------------ MODULE RelayProofs ------------------------------
(***************************************************************************)
(* For every number of connectors and clients and every TTL, lease, pause  *)
(* and delay that RelayAssumption allows: the relay pairs soundly, drops   *)
(* no socket on which the node still waits, and leaves no client without   *)
(* one but for a fault.                                                    *)
(*                                                                         *)
(* What is dropped is older than the TTL.  The relay's clock for a socket  *)
(* starts when it reads the hello, not before the lease began, and no      *)
(* lease is overrun: such a socket has been given up.  A client that looks *)
(* in vain has a connector that no client has taken; at the first look it  *)
(* is in a pause or its hello is on the way, and the last look comes after *)
(* both.                                                                   *)
(***************************************************************************)
EXTENDS Relay, FiniteSetTheorems, WellFoundedInduction, SequenceTheorems, TLAPS

\* A set of positions in the stack has a last one.
LEMMA NewestIsLast ==
    ASSUME NEW n \in Nat, NEW S \in SUBSET (1 .. n), S # {}
    PROVE  Newest(S) \in S /\ \A j \in S : j <= Newest(S)
<1> DEFINE R == {p \in Nat \X Nat : p[1] < p[2]}
           T == {m \in Nat : \E i \in S : m = n - i}
<1>1. IsWellFoundedOn(R, Nat)
  BY NatLessThanWellFounded DEF OpToRel
<1>2. T \subseteq Nat /\ T # {}
  <2>1. PICK i \in S : TRUE
    BY Zenon
  <2>2. n - i \in T
    BY <2>1
  <2> QED
    BY <2>2, Zenon
<1> HIDE DEF R
<1>3. PICK x \in T : \A y \in T : ~ (<<y, x>> \in R)
  BY <1>1, <1>2, WFMin, Zenon
<1>4. \A y \in T : x <= y
  <2> TAKE y \in T
  <2>1. x \in Nat /\ y \in Nat /\ <<y, x>> \notin R
    BY <1>2, <1>3
  <2> QED
    BY <2>1 DEF R
<1>5. PICK m \in S : x = n - m
  BY <1>3
<1>6. \A j \in S : j <= m
  <2> TAKE j \in S
  <2>1. n - j \in T
    OBVIOUS
  <2> QED
    BY <2>1, <1>4, <1>5
<1> QED
  BY <1>6, Zenon DEF Newest

\* What TypeOK says of the records that the state holds.
LEMMA ConnectorKinds ==
    ASSUME TypeOK, NEW c \in Connectors
    PROVE  /\ connector[c].at \in {"idle", "waiting", "serving"}
           /\ connector[c].at = "idle" => connector[c].from \in Nat
           /\ connector[c].at # "idle" =>
                  /\ connector[c] \in [at : {"waiting", "serving"}, on : Socket]
                  /\ connector[c].on \in Socket /\ connector[c].on.opened \in Nat
BY DEF TypeOK, Socket

LEMMA ClientKinds ==
    ASSUME TypeOK, NEW k \in Clients
    PROVE  /\ client[k].at = "looking" =>
                  client[k].tries \in 0 .. TRIES /\ client[k].next \in Nat
           /\ client[k].at = "paired" =>
                  /\ client[k].on \in Socket /\ client[k].when \in Nat
                  /\ client[k].on.id \in Nat /\ client[k].on.opened \in Nat
BY Zenon DEF TypeOK, Socket

LEMMA StackKinds ==
    ASSUME TypeOK
    PROVE  /\ Len(waiting) \in Nat /\ DOMAIN waiting = 1 .. Len(waiting)
           /\ \A i \in DOMAIN waiting :
                  /\ waiting[i] \in [on : Socket, connected_at : Nat]
                  /\ waiting[i].on \in Socket /\ waiting[i].connected_at \in Nat
                  /\ waiting[i].on.id \in Nat /\ waiting[i].on.opened \in Nat
<1> DEFINE Entry == [on : Socket, connected_at : Nat]
<1>0. waiting \in Seq(Entry)
  BY DEF TypeOK
<1> HIDE DEF Entry
<1>1. /\ Len(waiting) \in Nat /\ DOMAIN waiting = 1 .. Len(waiting)
      /\ \A i \in DOMAIN waiting : waiting[i] \in Entry
  BY <1>0
<1> USE DEF Entry
<1> QED
  BY <1>1 DEF Socket

LEMMA ArrivingKinds ==
    ASSUME TypeOK, NEW s \in arriving
    PROVE  s \in Socket /\ s.id \in Nat /\ s.opened \in Nat
<1>1. s \in Socket
  BY DEF TypeOK
<1> QED
  BY <1>1 DEF Socket

\* The numbers that the timers are made of.
LEMMA Numbers ==
    ASSUME TypeOK
    PROVE  /\ now \in Nat /\ calm_since \in Nat
           /\ RELAY_NODE_SOCKET_TTL \in Nat /\ RELAY_NODE_IDLE_LEASE \in Nat
           /\ 1 <= RELAY_NODE_IDLE_LEASE /\ RELAY_NODE_IDLE_LEASE <= RELAY_NODE_SOCKET_TTL
           /\ RELAY_RECONNECT_DELAY \in Nat /\ 1 <= RELAY_RECONNECT_DELAY
           /\ HelloDelay \in Nat /\ TRIES \in Nat
           /\ RELAY_RECONNECT_DELAY + HelloDelay < TRIES
BY RelayAssumption DEF TypeOK

LEMMA InitLocated == Init => Located
<1> SUFFICES ASSUME Init PROVE Located
  OBVIOUS
<1>1. TypeOK
  BY RelayAssumption DEF Init, TypeOK, Idle
<1> QED
  BY <1>1 DEF Init, Located, Idle, SocketsAreOld, OnePlace, TimersHold, OneClientPerSocket, NotLongDead, Paired

\* The new socket has an identity of its own, and a lease that begins now.
LEMMA OpenKeepsLocated ==
    ASSUME Located, NEW c \in Connectors, Open(c)
    PROVE  Located'
<1> DEFINE s == [by |-> c, id |-> made[c] + 1, opened |-> now]
<1>0. TypeOK /\ now \in Nat /\ made \in [Connectors -> Nat]
  BY RelayAssumption DEF Located, TypeOK
<1>1. s \in Socket /\ s.by = c /\ s.id = made[c] + 1 /\ s.opened = now
  BY <1>0 DEF Socket
<1>2. /\ arriving' = arriving \cup {s} /\ made' = [made EXCEPT ![c] = @ + 1]
      /\ connector' = [connector EXCEPT ![c] = [at |-> "waiting", on |-> s]]
      /\ UNCHANGED <<now, waiting, client, calm_since, faults>>
  BY DEF Open
<1> HIDE DEF s
<1>3. TypeOK'
  BY <1>0, <1>1, <1>2 DEF TypeOK
<1>4. SocketsAreOld'
  <2>1. \A r \in arriving' : r.id <= made'[r.by]
    BY <1>0, <1>1, <1>2 DEF Located, SocketsAreOld, TypeOK, Socket
  <2>2. \A i \in DOMAIN waiting : waiting[i].on.id <= made'[waiting[i].on.by]
    BY <1>0, <1>2, StackKinds DEF Located, SocketsAreOld
  <2>3. \A k \in Clients : Paired(k) => client[k].on.id <= made'[client[k].on.by]
    BY <1>0, <1>2, ClientKinds DEF Located, SocketsAreOld, Paired
  <2> QED
    BY <2>1, <2>2, <2>3, <1>2 DEF SocketsAreOld, Paired
<1>5. OnePlace'
  BY <1>0, <1>1, <1>2, ClientKinds, StackKinds DEF Located, SocketsAreOld, OnePlace, Paired
<1>6. TimersHold'
  <2>1. \A d \in Connectors : connector'[d].at = "waiting" =>
           now <= connector'[d].on.opened + RELAY_NODE_IDLE_LEASE
    BY <1>0, <1>1, <1>2, RelayAssumption DEF Located, TimersHold, TypeOK
  <2>2. \A r \in arriving' : r.opened <= now /\ now <= r.opened + HelloDelay
    BY <1>0, <1>1, <1>2, RelayAssumption DEF Located, TimersHold
  <2> QED
    BY <2>1, <2>2, <1>2 DEF Located, TimersHold
<1> QED
  BY <1>2, <1>3, <1>4, <1>5, <1>6 DEF Located, OneClientPerSocket, NotLongDead

\* A step of the node that starts no lease: sockets stay where they are.
LEMMA ConnectorsKeepLocated ==
    ASSUME Located, TypeOK', UNCHANGED <<now, made, arriving, waiting, client>>,
           \A c \in Connectors : connector'[c].at = "waiting" => connector'[c] = connector[c]
    PROVE  Located'
BY DEF Located, SocketsAreOld, OnePlace, TimersHold, OneClientPerSocket, NotLongDead, Paired

LEMMA PausesKeepLocated ==
    ASSUME Located, NEW c \in Connectors,
           OpenFails(c) \/ LeaseExpires(c) \/ SessionEnds(c)
    PROVE  Located'
<1>0. TypeOK /\ now \in Nat
  BY RelayAssumption DEF Located, TypeOK
<1>1. PICK t \in Nat : connector' = [connector EXCEPT ![c] = Idle(t)]
  BY <1>0, RelayAssumption DEF OpenFails, LeaseExpires, SessionEnds
<1>2. /\ UNCHANGED <<now, made, arriving, waiting, client>>
      /\ faults' \in 0 .. MaxFaults /\ calm_since' \in Nat
  <2>1. faults \in 0 .. MaxFaults /\ calm_since \in Nat /\ MaxFaults \in Nat
    BY <1>0, RelayAssumption DEF TypeOK
  <2>2. CASE OpenFails(c)
    BY <1>0, <2>1, <2>2 DEF OpenFails, Fault
  <2>3. CASE LeaseExpires(c)
    BY <2>1, <2>3 DEF LeaseExpires
  <2>4. CASE SessionEnds(c)
    BY <2>1, <2>4 DEF SessionEnds
  <2> QED
    BY <2>2, <2>3, <2>4
<1>3. TypeOK'
  BY <1>0, <1>1, <1>2 DEF TypeOK, Idle
<1>4. \A d \in Connectors : connector'[d].at = "waiting" => connector'[d] = connector[d]
  BY <1>0, <1>1 DEF TypeOK, Idle
<1> QED
  BY <1>2, <1>3, <1>4, ConnectorsKeepLocated

LEMMA NodeReadsHelloKeepsLocated ==
    ASSUME Located, NEW c \in Connectors, NodeReadsHello(c)
    PROVE  Located'
<1>0. TypeOK
  BY DEF Located
<1>1. connector' = [connector EXCEPT ![c] = [at |-> "serving", on |-> connector[c].on]]
  <2>1. connector[c] \in [at : {"waiting", "serving"}, on : Socket]
    BY <1>0, ConnectorKinds DEF NodeReadsHello
  <2>2. [connector[c] EXCEPT !.at = "serving"] = [at |-> "serving", on |-> connector[c].on]
    BY <2>1
  <2>3. connector' = [connector EXCEPT ![c] = [connector[c] EXCEPT !.at = "serving"]]
    BY DEF NodeReadsHello
  <2> QED
    BY <2>2, <2>3, Zenon
<1>2. UNCHANGED <<now, made, arriving, waiting, client, calm_since, faults>>
  BY DEF NodeReadsHello
<1>3. TypeOK'
  BY <1>0, <1>1, <1>2, ConnectorKinds DEF TypeOK, NodeReadsHello
<1>4. \A d \in Connectors : connector'[d].at = "waiting" => connector'[d] = connector[d]
  BY <1>0, <1>1 DEF TypeOK
<1> QED
  BY <1>2, <1>3, <1>4, ConnectorsKeepLocated

LEMMA NodeRestartKeepsLocated == ASSUME Located, NodeRestart PROVE Located'
<1>0. TypeOK /\ now \in Nat
  BY RelayAssumption DEF Located, TypeOK
<1>1. PICK t \in now + 1 .. now + MaxOutage :
          /\ Fault(t) /\ connector' = [c \in Connectors |-> Idle(t)]
          /\ UNCHANGED <<now, made, arriving, waiting, client>>
  BY DEF NodeRestart
<1>2. t \in Nat
  BY <1>0, RelayAssumption
<1>3. TypeOK'
  BY <1>0, <1>1, <1>2, RelayAssumption DEF TypeOK, Idle, Fault
<1>4. \A d \in Connectors : connector'[d].at = "waiting" => connector'[d] = connector[d]
  BY <1>1 DEF Idle
<1> QED
  BY <1>1, <1>3, <1>4, ConnectorsKeepLocated

LEMMA RelayRestartKeepsLocated == ASSUME Located, RelayRestart PROVE Located'
<1>0. TypeOK /\ now \in Nat
  BY RelayAssumption DEF Located, TypeOK
<1>1. TypeOK'
  <2>1. connector' \in [Connectors -> [at : {"idle"}, from : Nat]
                                      \cup [at : {"waiting", "serving"}, on : Socket]]
    BY <1>0, RelayAssumption DEF RelayRestart, TypeOK, Idle
  <2>2. client' \in [Clients -> [at : {"new", "cut"}]
                              \cup [at : {"looking"}, tries : 0 .. TRIES, next : Nat]
                              \cup [at : {"paired"}, on : Socket, when : Nat]
                              \cup [at : {"missed"}, when : Nat]]
    BY <1>0 DEF RelayRestart, TypeOK
  <2>3. calm_since' \in Nat /\ faults' \in 0 .. MaxFaults
    <3>1. faults \in 0 .. MaxFaults /\ calm_since \in Nat /\ MaxFaults \in Nat
      BY <1>0, RelayAssumption DEF TypeOK
    <3> QED
      BY <1>0, <3>1 DEF RelayRestart, Fault
  <2>4. waiting' \in Seq([on : Socket, connected_at : Nat])
    BY EmptySeq DEF RelayRestart
  <2> QED
    BY <1>0, <2>1, <2>2, <2>3, <2>4 DEF RelayRestart, TypeOK
<1>2. \A k \in Clients : ~ Paired(k)'
  BY <1>0 DEF RelayRestart, Paired
<1>3. \A c \in Connectors : connector'[c].at # "waiting"
  BY <1>0, ConnectorKinds DEF RelayRestart, Idle
<1> QED
  BY <1>1, <1>2, <1>3
  DEF RelayRestart, Located, SocketsAreOld, OnePlace, TimersHold, OneClientPerSocket, NotLongDead, Paired

\* Time passes only when no hello and no lease is due.
LEMMA TickKeepsLocated == ASSUME Located, Tick PROVE Located'
<1>0. TypeOK /\ now \in Nat
  BY RelayAssumption DEF Located, TypeOK
<1>1. TypeOK'
  BY <1>0, RelayAssumption DEF Tick, TypeOK
<1>2. TimersHold'
  <2>1. \A s \in arriving : now + 1 <= s.opened + HelloDelay
    BY <1>0, RelayAssumption DEF Tick, Due, TypeOK, Socket
  <2>2. \A c \in Connectors : connector[c].at = "waiting" =>
            now + 1 <= connector[c].on.opened + RELAY_NODE_IDLE_LEASE
    BY <1>0, ConnectorKinds, RelayAssumption DEF Tick, Due
  <2>3. \A s \in arriving : s.opened <= now + 1
    BY <1>0 DEF Located, TimersHold, TypeOK, Socket
  <2> QED
    BY <2>1, <2>2, <2>3 DEF Tick, Located, TimersHold
<1> QED
  BY <1>1, <1>2
  DEF Tick, Located, SocketsAreOld, OnePlace, OneClientPerSocket, NotLongDead, Paired

\* The socket moves to the top of the stack, within HelloDelay of its opening.
LEMMA RelayNodeHelloKeepsLocated ==
    ASSUME Located, NEW s \in arriving, RelayNodeHello(s)
    PROVE  Located'
<1> DEFINE Entry == [on : Socket, connected_at : Nat]
           e == [on |-> s, connected_at |-> now]
           n == Len(waiting)
<1>0. TypeOK /\ now \in Nat /\ s \in Socket /\ s.id \in Nat /\ s.opened \in Nat
  <2>1. TypeOK
    BY DEF Located
  <2> QED
    BY <2>1, Numbers, ArrivingKinds
<1>1. /\ arriving' = arriving \ {s} /\ waiting' = Append(waiting, e)
      /\ UNCHANGED <<now, connector, made, client, calm_since, faults>>
  BY DEF RelayNodeHello
<1>2. e \in Entry /\ e.on = s /\ e.connected_at = now /\ waiting \in Seq(Entry) /\ n \in Nat
  BY <1>0, StackKinds DEF TypeOK
<1> HIDE DEF e, Entry
<1>3. /\ waiting' \in Seq(Entry) /\ DOMAIN waiting = 1 .. n /\ DOMAIN waiting' = 1 .. n + 1
      /\ \A i \in 1 .. n : waiting'[i] = waiting[i]
      /\ waiting'[n + 1] = e
  BY <1>1, <1>2, AppendProperties, LenProperties
<1> HIDE DEF n
<1>4. \A i \in DOMAIN waiting' : i \in DOMAIN waiting \/ i = n + 1
  BY <1>2, <1>3
<1>5. TypeOK'
  BY <1>0, <1>1, <1>3 DEF TypeOK, Entry
<1>6. SocketsAreOld'
  BY <1>1, <1>2, <1>3, <1>4 DEF Located, SocketsAreOld, Paired
<1>7. OnePlace'
  <2>1. \A i, j \in DOMAIN waiting' : waiting'[i].on = waiting'[j].on => i = j
    BY <1>2, <1>3, <1>4 DEF Located, OnePlace
  <2>2. \A i \in DOMAIN waiting' : waiting'[i].on \notin arriving'
    BY <1>1, <1>2, <1>3, <1>4 DEF Located, OnePlace
  <2>3. \A k \in Clients : Paired(k) =>
           client[k].on \notin arriving' /\ \A i \in DOMAIN waiting' : waiting'[i].on # client[k].on
    BY <1>1, <1>2, <1>3, <1>4 DEF Located, OnePlace
  <2> QED
    BY <2>1, <2>2, <2>3, <1>1 DEF OnePlace, Paired
<1>8. TimersHold'
  <2>1. now \in s.opened .. s.opened + HelloDelay
    BY <1>0, RelayAssumption DEF Located, TimersHold
  <2> QED
    BY <2>1, <1>1, <1>2, <1>3, <1>4 DEF Located, TimersHold
<1> QED
  BY <1>1, <1>5, <1>6, <1>7, <1>8 DEF Located, OneClientPerSocket, NotLongDead

\* A client's task that gets no socket disturbs no pair.
LEMMA ClientsKeepLocated ==
    ASSUME Located, TypeOK', UNCHANGED <<now, connector, made, arriving>>,
           waiting' = waiting \/ waiting' = <<>>,
           \A k \in Clients : client'[k].at = "paired" => client'[k] = client[k]
    PROVE  Located'
BY DEF Located, SocketsAreOld, OnePlace, TimersHold, OneClientPerSocket, NotLongDead, Paired

LEMMA RelayClientHelloKeepsLocated ==
    ASSUME Located, NEW k \in Clients, RelayClientHello(k)
    PROVE  Located'
<1>0. TypeOK /\ now \in Nat
  BY RelayAssumption DEF Located, TypeOK
<1>1. TypeOK'
  BY <1>0, RelayAssumption DEF RelayClientHello, TypeOK
<1>2. \A j \in Clients : client'[j].at = "paired" => client'[j] = client[j]
  BY <1>0 DEF RelayClientHello, TypeOK
<1> QED
  BY <1>1, <1>2, ClientsKeepLocated DEF RelayClientHello

LEMMA GiveUpKeepsLocated ==
    ASSUME Located, NEW k \in Clients, GiveUp(k)
    PROVE  Located'
<1>0. TypeOK /\ now \in Nat
  BY RelayAssumption DEF Located, TypeOK
<1>1. TypeOK'
  BY <1>0 DEF GiveUp, TypeOK
<1>2. \A j \in Clients : client'[j].at = "paired" => client'[j] = client[j]
  BY <1>0 DEF GiveUp, TypeOK
<1> QED
  BY <1>1, <1>2, ClientsKeepLocated DEF GiveUp

LEMMA LookInVainKeepsLocated ==
    ASSUME Located, NEW k \in Clients, Look(k), ~ PopNode(k)
    PROVE  Located'
<1>0. TypeOK /\ now \in Nat
  BY RelayAssumption DEF Located, TypeOK
<1>1. /\ waiting' = <<>> /\ client' = [client EXCEPT ![k] = Looking(client[k].tries - 1)]
      /\ UNCHANGED <<now, connector, made, arriving, calm_since, faults>>
  BY DEF Look
<1>2. client[k].tries - 1 \in 0 .. TRIES
  <2>1. client[k].tries \in 0 .. TRIES /\ client[k].tries > 0
    BY <1>0, ClientKinds DEF Look
  <2> QED
    BY <2>1, RelayAssumption
<1>3. TypeOK'
  BY <1>0, <1>1, <1>2, EmptySeq DEF TypeOK, Looking
<1>4. \A j \in Clients : client'[j].at = "paired" => client'[j] = client[j]
  BY <1>0, <1>1 DEF Looking, TypeOK
<1> QED
  BY <1>1, <1>3, <1>4, ClientsKeepLocated

\* What PopNode takes and what it leaves.
LEMMA WhatPopNodeLeaves ==
    ASSUME TypeOK, NEW k \in Clients, PopNode(k), NEW n, n = Newest(Usable)
    PROVE  /\ n \in Usable /\ n \in DOMAIN waiting /\ \A j \in Usable : j <= n
           /\ waiting' \in Seq([on : Socket, connected_at : Nat])
           /\ DOMAIN waiting' = 1 .. n - 1
           /\ \A i \in 1 .. n - 1 : i \in DOMAIN waiting /\ waiting'[i] = waiting[i]
<1> DEFINE Entry == [on : Socket, connected_at : Nat]
<1>1. waiting \in Seq(Entry) /\ Len(waiting) \in Nat /\ DOMAIN waiting = 1 .. Len(waiting)
  BY StackKinds DEF TypeOK
<1> HIDE DEF Entry
<1>2. Usable # {} /\ Usable \in SUBSET (1 .. Len(waiting))
  BY <1>1 DEF PopNode, Usable
<1>3. n \in Usable /\ \A j \in Usable : j <= n
  BY <1>1, <1>2, NewestIsLast, Zenon
<1>4. n \in 1 .. Len(waiting)
  BY <1>2, <1>3
<1>5. waiting' = SubSeq(waiting, 1, n - 1)
  BY DEF PopNode
<1>6. \A i \in 1 .. n - 1 : waiting[i] \in Entry /\ i \in DOMAIN waiting
  BY <1>1, <1>4, ElementOfSeq
<1>7. /\ waiting' \in Seq(Entry) /\ Len(waiting') = n - 1
      /\ \A i \in 1 .. n - 1 : waiting'[i] = waiting[i]
  BY <1>4, <1>5, <1>6, SubSeqProperties
<1>8. DOMAIN waiting' = 1 .. n - 1
  BY <1>7, LenProperties
<1> QED
  BY <1>1, <1>3, <1>4, <1>6, <1>7, <1>8 DEF Entry

\* The socket moves from the stack to the client, not older than the TTL.
LEMMA PopNodeKeepsLocated ==
    ASSUME Located, NEW k \in Clients, Look(k), PopNode(k)
    PROVE  Located'
<1> DEFINE n == Newest(Usable)
           s == waiting[n].on
<1>0. TypeOK /\ now \in Nat
  BY RelayAssumption DEF Located, TypeOK
<1>1. /\ client' = [client EXCEPT ![k] = [at |-> "paired", on |-> s, when |-> now]]
      /\ UNCHANGED <<now, connector, made, arriving, calm_since, faults>>
  BY DEF Look, PopNode
<1> HIDE DEF n
<1>2. /\ n \in Usable /\ n \in DOMAIN waiting
      /\ waiting' \in Seq([on : Socket, connected_at : Nat])
      /\ DOMAIN waiting' = 1 .. n - 1
      /\ \A i \in DOMAIN waiting' : i \in DOMAIN waiting /\ waiting'[i] = waiting[i] /\ i # n
  <2>1. n = Newest(Usable)
    BY DEF n
  <2>2. /\ n \in Usable /\ n \in DOMAIN waiting
        /\ waiting' \in Seq([on : Socket, connected_at : Nat])
        /\ DOMAIN waiting' = 1 .. n - 1
        /\ \A i \in 1 .. n - 1 : i \in DOMAIN waiting /\ waiting'[i] = waiting[i]
    BY <1>0, <2>1, WhatPopNodeLeaves, Zenon
  <2>3. n \in Nat
    BY <1>0, <2>2, StackKinds
  <2> QED
    BY <2>2, <2>3
<1>3. s \in Socket /\ s.id <= made[s.by] /\ s \notin arriving /\ s.opened \in Nat
  BY <1>0, <1>2, StackKinds DEF Located, SocketsAreOld, OnePlace
<1>4. \A j \in Clients : Paired(j) => client[j].on # s
  BY <1>2 DEF Located, OnePlace
<1>5. \A i \in DOMAIN waiting' : waiting'[i].on # s
  BY <1>2 DEF Located, OnePlace
<1>6. now <= s.opened + RELAY_NODE_SOCKET_TTL + HelloDelay
  <2>1. waiting[n].connected_at <= s.opened + HelloDelay /\ waiting[n].connected_at \in Nat
    BY <1>0, <1>2, StackKinds DEF Located, TimersHold
  <2>2. now - waiting[n].connected_at <= RELAY_NODE_SOCKET_TTL
    BY <1>2 DEF Usable
  <2> QED
    BY <2>1, <2>2, <1>0, <1>3, RelayAssumption
<1> HIDE DEF s
<1>7. TypeOK'
  BY <1>0, <1>1, <1>2, <1>3 DEF TypeOK
<1>8. \A j \in Clients : client'[j] = IF j = k THEN [at |-> "paired", on |-> s, when |-> now]
                                      ELSE client[j]
  BY <1>0, <1>1 DEF TypeOK
<1>9. SocketsAreOld'
  BY <1>1, <1>2, <1>3, <1>8 DEF Located, SocketsAreOld, Paired
<1>10. OnePlace'
  <2>1. \A i, j \in DOMAIN waiting' : waiting'[i].on = waiting'[j].on => i = j
    BY <1>2 DEF Located, OnePlace
  <2>2. \A i \in DOMAIN waiting' : waiting'[i].on \notin arriving
    BY <1>2 DEF Located, OnePlace
  <2>3. ASSUME NEW j \in Clients, client'[j].at = "paired"
        PROVE  client'[j].on \notin arriving /\ \A i \in DOMAIN waiting' : waiting'[i].on # client'[j].on
    BY <2>3, <1>2, <1>3, <1>5, <1>8 DEF Located, OnePlace, Paired
  <2> QED
    BY <2>1, <2>2, <2>3, <1>1 DEF OnePlace, Paired
<1>11. TimersHold'
  BY <1>1, <1>2 DEF Located, TimersHold
<1>12. OneClientPerSocket'
  BY <1>4, <1>8 DEF Located, OneClientPerSocket, Paired
<1>13. NotLongDead'
  BY <1>6, <1>8 DEF Located, NotLongDead
<1> QED
  BY <1>7, <1>9, <1>10, <1>11, <1>12, <1>13 DEF Located

LEMMA NextKeepsLocated == Located /\ [Next]_vars => Located'
<1> SUFFICES ASSUME Located, [Next]_vars PROVE Located'
  OBVIOUS
<1>1. CASE UNCHANGED vars
  BY <1>1 DEF vars, Located, TypeOK, SocketsAreOld, OnePlace, TimersHold, OneClientPerSocket, NotLongDead, Paired
<1>2. ASSUME NEW c \in Connectors,
             Open(c) \/ OpenFails(c) \/ NodeReadsHello(c) \/ LeaseExpires(c) \/ SessionEnds(c)
      PROVE  Located'
  BY <1>2, OpenKeepsLocated, PausesKeepLocated, NodeReadsHelloKeepsLocated
<1>3. ASSUME NEW s \in arriving, RelayNodeHello(s) PROVE Located'
  BY <1>3, RelayNodeHelloKeepsLocated
<1>4. ASSUME NEW k \in Clients, RelayClientHello(k) \/ Look(k) \/ GiveUp(k) PROVE Located'
  BY <1>4, RelayClientHelloKeepsLocated, LookInVainKeepsLocated, PopNodeKeepsLocated, GiveUpKeepsLocated
<1>5. CASE NodeRestart \/ RelayRestart \/ Tick
  BY <1>5, NodeRestartKeepsLocated, RelayRestartKeepsLocated, TickKeepsLocated
<1> QED
  BY <1>1, <1>2, <1>3, <1>4, <1>5 DEF Next

-----------------------------------------------------------------------------
\* A socket on which the node waits is usable.
LEMMA WaitedOnIsUsable ==
    ASSUME Located, NEW c \in Connectors, connector[c].at = "waiting",
           NEW i \in DOMAIN waiting, waiting[i].on = connector[c].on
    PROVE  i \in Usable
<1>0. TypeOK
  BY DEF Located
<1>1. /\ waiting[i].on.opened <= waiting[i].connected_at
      /\ waiting[i].on.opened \in Nat /\ waiting[i].connected_at \in Nat
  BY <1>0, StackKinds DEF Located, TimersHold
<1>2. now <= waiting[i].on.opened + RELAY_NODE_IDLE_LEASE
  BY DEF Located, TimersHold
<1> QED
  BY <1>0, <1>1, <1>2, Numbers DEF Usable

\* So is one that came after a client's last look in vain.
LEMMA NewIsUsable ==
    ASSUME Located, PausesHold, SoonServed, NEW k \in Clients, InVain(k),
           NEW i \in DOMAIN waiting
    PROVE  i \in Usable
<1>0. TypeOK
  BY DEF Located
<1>1. waiting[i].connected_at \in Nat /\ client[k].next \in Nat
  BY <1>0, StackKinds, ClientKinds DEF InVain
<1>2. now <= client[k].next /\ client[k].next <= waiting[i].connected_at + 1
  BY <1>0, Numbers DEF PausesHold, SoonServed, InVain
<1> QED
  BY <1>0, <1>1, <1>2, Numbers DEF Usable

\* A served socket is taken from its connector.
LEMMA ServedIsTaken ==
    ASSUME NEW c \in Connectors, IsServed(connector[c].on), connector[c].on.by = c
    PROVE  Taken(c)
BY DEF IsServed, Taken, Paired

\* An untaken connector has its socket to offer as long as it waits on it.
LEMMA WaitingOffers ==
    ASSUME Located, NoSocketIsLost, NEW c \in Connectors, connector[c].at # "idle", ~ Taken(c)
    PROVE  /\ connector[c].at = "waiting" /\ connector[c].on.by = c
           /\ \/ connector[c].on \in arriving
              \/ \E i \in Usable : waiting[i].on = connector[c].on
           /\ Offers(c)
<1>1. connector[c].on.by = c /\ ~ IsServed(connector[c].on)
  BY ServedIsTaken DEF NoSocketIsLost
<1>2. /\ connector[c].at = "waiting"
      /\ connector[c].on \in arriving \/ On(connector[c].on, waiting)
  BY <1>1 DEF NoSocketIsLost
<1>3. connector[c].on \in arriving \/ \E i \in Usable : waiting[i].on = connector[c].on
  BY <1>2, WaitedOnIsUsable DEF On
<1> QED
  BY <1>1, <1>2, <1>3 DEF Offers

LEMMA InitIInv == Init => IInv
<1> SUFFICES ASSUME Init PROVE IInv
  OBVIOUS
<1>1. Located
  BY InitLocated
<1>2. \A c \in Connectors : connector[c].at = "idle" /\ connector[c].from = 0
  BY DEF Init, Idle
<1>3. \A k \in Clients : client[k].at = "new"
  BY DEF Init
<1>4. now = 0 /\ calm_since = 0 /\ RELAY_RECONNECT_DELAY \in Nat
  BY RelayAssumption DEF Init
<1> QED
  BY <1>1, <1>2, <1>3, <1>4
  DEF IInv, PausesHold, NoSocketIsLost, PausesAreCovered, SoonServed, InVain, MissedOnlyAfterFault

(***************************************************************************)
(* What a step may do to a connector: it begins a pause, opens a socket,   *)
(* or serves a client.                                                     *)
(***************************************************************************)
Pauses(c) ==
    /\ connector'[c].at = "idle" /\ now <= connector'[c].from
    /\ \/ connector'[c].from <= calm_since' + RELAY_RECONNECT_DELAY
       \/ /\ connector'[c].from <= now + RELAY_RECONNECT_DELAY
          /\ Taken(c) \/ connector[c].at = "waiting"
Opens(c) ==
    /\ connector[c].at = "idle" /\ connector[c].from = now
    /\ connector'[c].at = "waiting" /\ connector'[c].on \in arriving'
    /\ connector'[c].on.by = c /\ connector'[c].on.opened = now
Serves(c) ==
    /\ connector[c].at # "idle" /\ connector'[c].at = "serving"
    /\ connector'[c].on = connector[c].on /\ IsServed(connector[c].on)

\* Steps of the node leave the invariant: a pause that begins is covered by the socket
\* that was given up, and the socket of a pause that ends is soon at the relay.
LEMMA NodeKeepsIInv ==
    ASSUME IInv, Located', UNCHANGED <<now, waiting, client>>,
           arriving \subseteq arriving', calm_since <= calm_since',
           \A c \in Connectors :
               connector'[c] = connector[c] \/ Pauses(c) \/ Opens(c) \/ Serves(c)
    PROVE  IInv'
<1>0. /\ TypeOK /\ TypeOK' /\ calm_since' \in Nat
      /\ Located /\ PausesHold /\ NoSocketIsLost /\ PausesAreCovered /\ SoonServed
  BY DEF IInv, Located, TypeOK
<1>1. /\ \A c \in Connectors : Taken(c)' <=> Taken(c)
      /\ \A s : IsServed(s)' <=> IsServed(s)
      /\ Usable' = Usable
  BY DEF Taken, Paired, IsServed, Usable
<1>2. PausesHold'
  <2>1. ASSUME NEW c \in Connectors, connector'[c].at = "idle"
        PROVE  /\ now <= connector'[c].from
               /\ \/ connector'[c].from <= now + RELAY_RECONNECT_DELAY
                  \/ connector'[c].from <= calm_since' + RELAY_RECONNECT_DELAY
    <3>1. CASE connector'[c] = connector[c]
      <4>1. connector[c].from \in Nat
        BY <1>0, <2>1, <3>1, ConnectorKinds
      <4> QED
        BY <1>0, <2>1, <3>1, <4>1, Numbers DEF PausesHold
    <3> QED
      BY <2>1, <3>1 DEF Pauses, Opens, Serves
  <2> QED
    BY <1>0, <2>1 DEF PausesHold
<1>3. NoSocketIsLost'
  <2>1. ASSUME NEW c \in Connectors, connector'[c].at # "idle"
        PROVE  /\ connector'[c].on.by = c
               /\ \/ IsServed(connector'[c].on)
                  \/ /\ connector'[c].at = "waiting"
                     /\ connector'[c].on \in arriving' \/ On(connector'[c].on, waiting)
    BY <1>0, <2>1 DEF NoSocketIsLost, Pauses, Opens, Serves
  <2> QED
    BY <1>1, <2>1 DEF NoSocketIsLost
<1>4. PausesAreCovered'
  <2>1. ASSUME NEW c \in Connectors, Offers(c) PROVE Offers(c)'
    BY <1>1, <2>1 DEF Offers
  <2>2. ASSUME NEW c \in Connectors, connector'[c].at = "idle", ~ Taken(c)
        PROVE  \/ connector'[c].from <= calm_since' + RELAY_RECONNECT_DELAY
               \/ connector'[c].from < now + RELAY_RECONNECT_DELAY
               \/ Offers(c)'
    <3>1. CASE connector'[c] = connector[c]
      <4>1. connector[c].from \in Nat
        BY <1>0, <2>2, <3>1, ConnectorKinds
      <4> QED
        BY <1>0, <2>1, <2>2, <3>1, <4>1, Numbers DEF PausesAreCovered
    <3>2. CASE Pauses(c) /\ connector[c].at = "waiting"
      BY <1>0, <2>1, <2>2, <3>2, WaitingOffers
    <3> QED
      BY <2>2, <3>1, <3>2 DEF Pauses, Opens, Serves
  <2> QED
    BY <1>1, <2>2 DEF PausesAreCovered
<1>5. SoonServed'
  <2>1. ASSUME NEW k \in Clients, InVain(k)
        PROVE  \A c \in Connectors : Taken(c) \/ Prospect(k, c)'
    <3>1. \A t \in Nat : Soon(k, t) => Soon(k, t)'
      <4>1. FirstLook(k)' = FirstLook(k)
        BY DEF FirstLook
      <4> QED
        BY <1>0, <4>1, Numbers DEF Soon
    <3>2. \A t \in Nat : t <= calm_since' + RELAY_RECONNECT_DELAY => Soon(k, t + HelloDelay)'
      BY <1>0, Numbers DEF Soon
    <3> SUFFICES ASSUME NEW c \in Connectors, ~ Taken(c) PROVE Prospect(k, c)'
      OBVIOUS
    <3>3. Prospect(k, c)
      BY <1>0, <2>1 DEF SoonServed
    <3>4. CASE \E s \in arriving : s.by = c /\ Soon(k, s.opened + HelloDelay)
      <4>1. \A s \in arriving : s.opened + HelloDelay \in Nat
        BY <1>0, Numbers, ArrivingKinds
      <4> QED
        BY <3>1, <3>4, <4>1 DEF Prospect
    <3>5. CASE \E i \in DOMAIN waiting : waiting[i].on.by = c /\ Soon(k, waiting[i].connected_at)
      BY <1>0, <3>1, <3>5, StackKinds DEF Prospect
    <3>6. CASE connector[c].at = "idle" /\ Soon(k, connector[c].from + HelloDelay)
      <4>1. connector[c].from \in Nat /\ connector[c].from + HelloDelay \in Nat
        <5>1. connector[c].from \in Nat
          BY <1>0, <3>6, ConnectorKinds
        <5> QED
          BY <1>0, <5>1, Numbers
      <4>2. CASE connector'[c] = connector[c]
        BY <3>1, <3>6, <4>1, <4>2 DEF Prospect
      <4>3. CASE Pauses(c)
        <5>1. connector'[c].from \in Nat
          BY <1>0, <4>3 DEF Pauses, TypeOK
        <5> QED
          BY <3>2, <3>6, <4>3, <5>1 DEF Pauses, Prospect
      <4>4. CASE Opens(c)
        BY <3>1, <3>6, <4>1, <4>4 DEF Opens, Prospect
      <4> QED
        BY <3>6, <4>2, <4>3, <4>4 DEF Serves
    <3> QED
      BY <3>3, <3>4, <3>5, <3>6 DEF Prospect
  <2> QED
    BY <1>0, <1>1, <2>1 DEF SoonServed, InVain
<1>6. MissedOnlyAfterFault'
  <2>1. \A k \in Clients : client[k].at = "missed" => client[k].when \in Nat
    BY <1>0, Zenon DEF TypeOK
  <2> QED
    BY <1>0, <2>1, Numbers DEF IInv, MissedOnlyAfterFault
<1> QED
  BY <1>2, <1>3, <1>4, <1>5, <1>6 DEF IInv

LEMMA PausesKeepIInv ==
    ASSUME IInv, NEW c \in Connectors, OpenFails(c) \/ LeaseExpires(c) \/ SessionEnds(c)
    PROVE  IInv'
<1>0. TypeOK /\ Located /\ NoSocketIsLost
  BY DEF IInv, Located
<1>1. Located'
  BY <1>0, PausesKeepLocated
<1>2. PICK t \in Nat :
          /\ connector' = [connector EXCEPT ![c] = Idle(t)] /\ now <= t
          /\ \/ t <= calm_since' + RELAY_RECONNECT_DELAY
             \/ t <= now + RELAY_RECONNECT_DELAY /\ connector[c].at \in {"waiting", "serving"}
  <2>1. CASE OpenFails(c)
    <3>1. now <= calm_since' /\ calm_since' \in Nat
      BY <1>0, <2>1, Numbers DEF OpenFails, Fault
    <3>2. /\ now + RELAY_RECONNECT_DELAY \in Nat /\ now <= now + RELAY_RECONNECT_DELAY
          /\ now + RELAY_RECONNECT_DELAY <= calm_since' + RELAY_RECONNECT_DELAY
      BY <1>0, <3>1, Numbers
    <3>3. connector' = [connector EXCEPT ![c] = Idle(now + RELAY_RECONNECT_DELAY)]
      BY <2>1 DEF OpenFails
    <3> QED
      BY <3>2, <3>3, Zenon
  <2>2. CASE LeaseExpires(c) \/ SessionEnds(c)
    <3>1. PICK pause \in {0, RELAY_RECONNECT_DELAY} :
              connector' = [connector EXCEPT ![c] = Idle(now + pause)]
      BY <2>2 DEF LeaseExpires, SessionEnds
    <3>2. connector[c].at \in {"waiting", "serving"}
      BY <2>2 DEF LeaseExpires, SessionEnds
    <3>3. now + pause \in Nat /\ now <= now + pause /\ now + pause <= now + RELAY_RECONNECT_DELAY
      BY <1>0, Numbers
    <3> QED
      BY <3>1, <3>2, <3>3, Zenon
  <2> QED
    BY <2>1, <2>2
<1>3. UNCHANGED <<now, waiting, client, arriving>> /\ calm_since <= calm_since'
  BY <1>0, Numbers DEF OpenFails, Fault, LeaseExpires, SessionEnds
<1>4. connector'[c] = Idle(t) /\ \A d \in Connectors \ {c} : connector'[d] = connector[d]
  BY <1>0, <1>2 DEF TypeOK
<1>5. connector[c].at = "serving" => Taken(c)
  BY <1>0, ServedIsTaken DEF NoSocketIsLost
<1>6. Pauses(c)
  BY <1>2, <1>4, <1>5 DEF Pauses, Idle
<1> QED
  BY <1>1, <1>3, <1>4, <1>6, NodeKeepsIInv

LEMMA OpenKeepsIInv == ASSUME IInv, NEW c \in Connectors, Open(c) PROVE IInv'
<1>0. TypeOK /\ Located /\ PausesHold
  BY DEF IInv, Located
<1>1. Located'
  BY <1>0, OpenKeepsLocated
<1>2. connector[c].at = "idle" /\ connector[c].from = now
  <2>1. connector[c].at = "idle" /\ connector[c].from <= now
    BY DEF Open
  <2>2. now <= connector[c].from /\ connector[c].from \in Nat
    BY <1>0, <2>1, ConnectorKinds DEF PausesHold
  <2> QED
    BY <1>0, <2>1, <2>2, Numbers
<1>3. PICK s : /\ s = [by |-> c, id |-> made[c] + 1, opened |-> now]
               /\ arriving' = arriving \cup {s}
               /\ connector' = [connector EXCEPT ![c] = [at |-> "waiting", on |-> s]]
  BY Zenon DEF Open
<1>4. UNCHANGED <<now, waiting, client, calm_since>>
  BY DEF Open
<1>5. /\ connector'[c] = [at |-> "waiting", on |-> s]
      /\ \A d \in Connectors \ {c} : connector'[d] = connector[d]
  BY <1>0, <1>3 DEF TypeOK
<1>6. Opens(c)
  BY <1>2, <1>3, <1>5 DEF Opens
<1> QED
  BY <1>0, <1>1, <1>3, <1>4, <1>5, <1>6, Numbers, NodeKeepsIInv

LEMMA NodeReadsHelloKeepsIInv ==
    ASSUME IInv, NEW c \in Connectors, NodeReadsHello(c)
    PROVE  IInv'
<1>0. TypeOK /\ Located
  BY DEF IInv, Located
<1>1. Located'
  BY <1>0, NodeReadsHelloKeepsLocated
<1>2. connector[c] \in [at : {"waiting", "serving"}, on : Socket]
  BY <1>0, ConnectorKinds DEF NodeReadsHello
<1>3. /\ connector'[c] = [connector[c] EXCEPT !.at = "serving"]
      /\ \A d \in Connectors \ {c} : connector'[d] = connector[d]
  BY <1>0 DEF NodeReadsHello, TypeOK
<1>4. connector'[c].at = "serving" /\ connector'[c].on = connector[c].on
  BY <1>2, <1>3
<1>5. Serves(c)
  BY <1>4 DEF NodeReadsHello, Serves
<1> QED
  BY <1>0, <1>1, <1>3, <1>5, Numbers, NodeKeepsIInv DEF NodeReadsHello

LEMMA NodeRestartKeepsIInv == ASSUME IInv, NodeRestart PROVE IInv'
<1>0. TypeOK /\ Located
  BY DEF IInv, Located
<1>1. Located'
  BY <1>0, NodeRestartKeepsLocated
<1>2. PICK t \in now + 1 .. now + MaxOutage :
          /\ Fault(t) /\ connector' = [c \in Connectors |-> Idle(t)]
          /\ UNCHANGED <<now, made, arriving, waiting, client>>
  BY DEF NodeRestart
<1>3. t \in Nat /\ now <= t /\ t <= calm_since' /\ calm_since <= calm_since' /\ calm_since' \in Nat
  BY <1>0, <1>2, Numbers, RelayAssumption DEF Fault
<1>4. \A c \in Connectors : Pauses(c)
  <2>1. t <= calm_since' + RELAY_RECONNECT_DELAY
    BY <1>0, <1>3, Numbers
  <2> QED
    BY <1>2, <1>3, <2>1 DEF Pauses, Idle
<1> QED
  BY <1>1, <1>2, <1>3, <1>4, NodeKeepsIInv

\* The relay forgets its clients, and all connectors pause.
LEMMA RelayRestartKeepsIInv == ASSUME IInv, RelayRestart PROVE IInv'
<1>0. TypeOK /\ Located /\ PausesHold
  BY DEF IInv, Located
<1>1. Located'
  BY <1>0, RelayRestartKeepsLocated
<1>2. now' = now /\ now <= calm_since' /\ calm_since <= calm_since' /\ calm_since' \in Nat
  BY <1>0, Numbers DEF RelayRestart, Fault
<1>3. \A k \in Clients : client'[k].at \notin {"looking", "paired"}
  BY <1>0 DEF RelayRestart, TypeOK
<1>4. \A c \in Connectors : /\ connector'[c].at = "idle" /\ now <= connector'[c].from
                            /\ connector'[c].from <= calm_since' + RELAY_RECONNECT_DELAY
  <2> SUFFICES ASSUME NEW c \in Connectors
               PROVE  /\ connector'[c].at = "idle" /\ now <= connector'[c].from
                      /\ connector'[c].from <= calm_since' + RELAY_RECONNECT_DELAY
    OBVIOUS
  <2>1. CASE connector[c].at = "idle"
    <3>1. connector[c].from \in Nat /\ connector'[c] = connector[c]
      BY <1>0, <2>1, ConnectorKinds DEF RelayRestart
    <3> QED
      BY <1>0, <1>2, <2>1, <3>1, Numbers DEF PausesHold
  <2>2. CASE connector[c].at # "idle"
    <3>1. connector'[c] = Idle(now + RELAY_RECONNECT_DELAY)
      BY <2>2 DEF RelayRestart
    <3> QED
      BY <1>0, <1>2, <3>1, Numbers DEF Idle
  <2> QED
    BY <2>1, <2>2
<1>5. MissedOnlyAfterFault'
  <2>1. \A k \in Clients : client'[k].at = "missed" => client'[k] = client[k] /\ client[k].when \in Nat
    BY <1>0 DEF RelayRestart, TypeOK
  <2> QED
    BY <1>0, <1>2, <2>1, Numbers DEF IInv, MissedOnlyAfterFault
<1> QED
  BY <1>1, <1>2, <1>3, <1>4, <1>5
  DEF IInv, PausesHold, NoSocketIsLost, PausesAreCovered, SoonServed, InVain

\* The hello of a socket comes within its time, so that the socket is a prospect still.
LEMMA RelayNodeHelloKeepsIInv ==
    ASSUME IInv, NEW s \in arriving, RelayNodeHello(s)
    PROVE  IInv'
<1>0. TypeOK /\ Located /\ PausesHold /\ NoSocketIsLost /\ PausesAreCovered /\ SoonServed
  BY DEF IInv, Located
<1>1. Located'
  BY <1>0, RelayNodeHelloKeepsLocated
<1>2. UNCHANGED <<now, connector, client, calm_since>> /\ arriving' = arriving \ {s}
  BY DEF RelayNodeHello
<1>3. PICK n \in Nat : /\ DOMAIN waiting = 1 .. n /\ DOMAIN waiting' = 1 .. n + 1
                       /\ \A i \in 1 .. n : waiting'[i] = waiting[i]
                       /\ waiting'[n + 1].on = s /\ waiting'[n + 1].connected_at = now
  <2> DEFINE e == [on |-> s, connected_at |-> now]
             Entry == [on : Socket, connected_at : Nat]
  <2>1. e \in Entry /\ e.on = s /\ e.connected_at = now
    BY <1>0, Numbers, ArrivingKinds
  <2>2. waiting \in Seq(Entry) /\ waiting' = Append(waiting, e)
    BY <1>0 DEF TypeOK, RelayNodeHello
  <2> HIDE DEF e, Entry
  <2>3. /\ Len(waiting) \in Nat /\ DOMAIN waiting = 1 .. Len(waiting)
        /\ DOMAIN waiting' = 1 .. Len(waiting) + 1
        /\ \A i \in 1 .. Len(waiting) : waiting'[i] = waiting[i]
        /\ waiting'[Len(waiting) + 1] = e
    BY <2>1, <2>2, AppendProperties, LenProperties
  <2> QED
    BY <2>1, <2>3
<1>4. /\ n + 1 \in DOMAIN waiting'
      /\ \A i \in DOMAIN waiting : i \in DOMAIN waiting' /\ waiting'[i] = waiting[i]
      /\ \A i \in DOMAIN waiting' : i \in DOMAIN waiting \/ i = n + 1
  BY <1>3
<1>5. \A c \in Connectors : Taken(c)' <=> Taken(c)
  BY <1>2 DEF Taken, Paired
<1>6. Usable \subseteq Usable' /\ n + 1 \in Usable'
  BY <1>0, <1>2, <1>3, <1>4, Numbers DEF Usable
<1>7. PausesHold' /\ MissedOnlyAfterFault'
  BY <1>0, <1>2 DEF IInv, PausesHold, MissedOnlyAfterFault
<1>8. NoSocketIsLost'
  <2>1. \A r : r \in arriving \/ On(r, waiting) => r \in arriving' \/ On(r, waiting')
    BY <1>2, <1>3, <1>4 DEF On
  <2> QED
    BY <1>0, <1>2, <2>1 DEF NoSocketIsLost, IsServed
<1>9. PausesAreCovered'
  <2>1. ASSUME NEW c \in Connectors, Offers(c) PROVE Offers(c)'
    <3>1. \A i \in Usable : waiting'[i] = waiting[i]
      BY <1>4 DEF Usable
    <3> QED
      BY <1>2, <1>3, <1>6, <2>1, <3>1 DEF Offers
  <2> QED
    BY <1>0, <1>2, <1>5, <2>1 DEF PausesAreCovered
<1>10. SoonServed'
  <2>1. ASSUME NEW k \in Clients, InVain(k)
        PROVE  \A i \in DOMAIN waiting' : client[k].next <= waiting'[i].connected_at + 1
    <3>1. client[k].next <= now + 1
      BY <1>0, <2>1, Numbers DEF PausesHold, InVain
    <3> QED
      BY <1>0, <1>3, <1>4, <2>1, <3>1 DEF SoonServed
  <2>2. ASSUME NEW k \in Clients, InVain(k), NEW c \in Connectors, Prospect(k, c)
        PROVE  Prospect(k, c)'
    <3>1. \A t : Soon(k, t)' <=> Soon(k, t)
      BY <1>2 DEF Soon, FirstLook
    <3>2. CASE s.by = c /\ Soon(k, s.opened + HelloDelay)
      <4>1. FirstLook(k) \in Int
        BY <1>0, <2>2, ClientKinds, Numbers DEF InVain, FirstLook
      <4>2. now <= s.opened + HelloDelay /\ s.opened \in Nat
        BY <1>0, ArrivingKinds DEF Located, TimersHold
      <4>3. Soon(k, now)
        BY <1>0, <3>2, <4>1, <4>2, Numbers DEF Soon
      <4> QED
        BY <1>3, <1>4, <3>1, <3>2, <4>3 DEF Prospect
    <3> QED
      BY <1>2, <1>4, <2>2, <3>1, <3>2 DEF Prospect
  <2> QED
    BY <1>0, <1>2, <1>5, <2>1, <2>2 DEF SoonServed, InVain
<1> QED
  BY <1>1, <1>7, <1>8, <1>9, <1>10 DEF IInv

\* Time passes only when nothing is due, a look or the end of a pause included.
LEMMA TickKeepsIInv == ASSUME IInv, Tick PROVE IInv'
<1>0. TypeOK /\ Located /\ PausesHold /\ NoSocketIsLost /\ PausesAreCovered /\ SoonServed
  BY DEF IInv, Located
<1>1. Located'
  BY <1>0, TickKeepsLocated
<1>2. now' = now + 1 /\ UNCHANGED <<connector, arriving, waiting, client, calm_since>>
  BY DEF Tick
<1>3. PausesHold'
  <2>1. ASSUME NEW c \in Connectors, connector[c].at = "idle"
        PROVE  /\ now + 1 <= connector[c].from
               /\ \/ connector[c].from <= now + 1 + RELAY_RECONNECT_DELAY
                  \/ connector[c].from <= calm_since + RELAY_RECONNECT_DELAY
    <3>1. connector[c].from \in Nat /\ ~ (connector[c].from <= now)
      BY <1>0, <2>1, ConnectorKinds DEF Tick, Due
    <3> QED
      BY <1>0, <2>1, <3>1, Numbers DEF PausesHold
  <2>2. ASSUME NEW k \in Clients, client[k].at = "looking"
        PROVE  client[k].next \in now + 1 .. now + 2
    <3>1. client[k].next \in Nat /\ ~ (client[k].next <= now)
      BY <1>0, <2>2, ClientKinds DEF Tick, Due
    <3> QED
      BY <1>0, <2>2, <3>1, Numbers DEF PausesHold
  <2>3. now + 1 + 1 = now + 2
    BY <1>0, Numbers
  <2> QED
    BY <1>2, <2>1, <2>2, <2>3 DEF PausesHold
<1>4. NoSocketIsLost' /\ MissedOnlyAfterFault'
  BY <1>0, <1>2 DEF IInv, NoSocketIsLost, IsServed, On, MissedOnlyAfterFault
<1>5. \A c \in Connectors : Taken(c)' <=> Taken(c)
  BY <1>2 DEF Taken, Paired
<1>6. PausesAreCovered'
  <2>1. ASSUME NEW c \in Connectors, connector[c].at = "idle"
        PROVE  \/ connector[c].from <= calm_since + RELAY_RECONNECT_DELAY
               \/ connector[c].from < now + 1 + RELAY_RECONNECT_DELAY
    <3>1. connector[c].from \in Nat
      BY <1>0, <2>1, ConnectorKinds
    <3> QED
      BY <1>0, <2>1, <3>1, Numbers DEF PausesHold
  <2> QED
    BY <1>2, <2>1 DEF PausesAreCovered
<1>7. SoonServed'
  BY <1>0, <1>2, <1>5 DEF SoonServed, InVain, Prospect, Soon, FirstLook
<1> QED
  BY <1>1, <1>3, <1>4, <1>6, <1>7 DEF IInv

\* A client's task that gets no socket leaves the invariant, if its own prospects hold:
\* what it drops is of no use to the others either.
LEMMA LooksKeepIInv ==
    ASSUME IInv, Located', NEW k \in Clients,
           UNCHANGED <<now, connector, arriving, calm_since>>,
           waiting' = waiting \/ (Usable = {} /\ waiting' = <<>>),
           client[k].at # "paired", client'[k].at # "paired",
           \A j \in Clients \ {k} : client'[j] = client[j],
           client'[k].at = "looking" => client'[k].next \in now .. now + 1,
           InVain(k)' => waiting' = <<>> /\ \A c \in Connectors : Taken(c) \/ Prospect(k, c)',
           client'[k].at = "missed" /\ Cardinality(Clients) <= Cardinality(Connectors) =>
               client'[k].when <= calm_since + RELAY_RECONNECT_DELAY + HelloDelay + 1
    PROVE  IInv'
<1>0. TypeOK /\ Located /\ PausesHold /\ NoSocketIsLost /\ PausesAreCovered /\ SoonServed
  BY DEF IInv, Located
<1>1. /\ \A c \in Connectors : Taken(c)' <=> Taken(c)
      /\ \A s : IsServed(s)' <=> IsServed(s)
  BY DEF Taken, Paired, IsServed
<1>2. \A i \in Usable : i \in Usable' /\ waiting'[i] = waiting[i]
  BY DEF Usable
<1>3. PausesHold'
  BY <1>0 DEF PausesHold
<1>4. NoSocketIsLost'
  <2>1. ASSUME NEW c \in Connectors, connector[c].at = "waiting", On(connector[c].on, waiting)
        PROVE  On(connector[c].on, waiting')
    BY <1>0, <2>1, WaitedOnIsUsable DEF On
  <2> QED
    BY <1>0, <1>1, <2>1 DEF NoSocketIsLost
<1>5. PausesAreCovered'
  <2>1. ASSUME NEW c \in Connectors, Offers(c) PROVE Offers(c)'
    BY <1>2, <2>1 DEF Offers
  <2> QED
    BY <1>0, <1>1, <2>1, Zenon DEF PausesAreCovered
<1>6. SoonServed'
  <2>1. ASSUME NEW j \in Clients \ {k}, InVain(j), NEW c \in Connectors, Prospect(j, c)
        PROVE  Prospect(j, c)'
    <3>1. \A t : Soon(j, t)' <=> Soon(j, t)
      BY DEF Soon, FirstLook
    <3>2. \A i \in DOMAIN waiting : i \in DOMAIN waiting' /\ waiting'[i] = waiting[i]
      BY <1>0, <2>1, NewIsUsable
    <3> QED
      BY <2>1, <3>1, <3>2 DEF Prospect
  <2>2. ASSUME NEW j \in Clients \ {k}, InVain(j)'
        PROVE  /\ InVain(j)
               /\ \A i \in DOMAIN waiting' : client'[j].next <= waiting'[i].connected_at + 1
    <3>1. client'[j] = client[j] /\ InVain(j)
      BY <2>2 DEF InVain
    <3> QED
      BY <1>0, <3>1 DEF SoonServed
  <2>3. InVain(k)' => /\ \A i \in DOMAIN waiting' : client'[k].next <= waiting'[i].connected_at + 1
                      /\ \A c \in Connectors : Taken(c)' \/ Prospect(k, c)'
    BY <1>1
  <2>4. ASSUME NEW j \in Clients \ {k}, InVain(j)', NEW c \in Connectors
        PROVE  Taken(c)' \/ Prospect(j, c)'
    BY <1>0, <1>1, <2>1, <2>2, <2>4 DEF SoonServed
  <2> QED
    BY <2>2, <2>3, <2>4, Zenon DEF SoonServed
<1>7. MissedOnlyAfterFault'
  BY DEF IInv, MissedOnlyAfterFault
<1> QED
  BY <1>3, <1>4, <1>5, <1>6, <1>7 DEF IInv

LEMMA RelayClientHelloKeepsIInv ==
    ASSUME IInv, NEW k \in Clients, RelayClientHello(k)
    PROVE  IInv'
<1>0. TypeOK /\ Located
  BY DEF IInv, Located
<1>1. Located'
  BY <1>0, RelayClientHelloKeepsLocated
<1>2. /\ client'[k] = [at |-> "looking", tries |-> TRIES, next |-> now]
      /\ \A j \in Clients \ {k} : client'[j] = client[j]
  BY <1>0 DEF RelayClientHello, TypeOK
<1>3. UNCHANGED <<now, connector, arriving, calm_since, waiting>> /\ client[k].at # "paired"
  BY DEF RelayClientHello
<1>4. now \in now .. now + 1 /\ ~ (TRIES < TRIES)
  BY <1>0, Numbers
<1>5. ~ InVain(k)' /\ client'[k].at = "looking" /\ client'[k].next \in now .. now + 1
  BY <1>2, <1>4 DEF InVain
<1> QED
  BY <1>1, <1>2, <1>3, <1>5, LooksKeepIInv

\* After the first look in vain each connector that is not taken is a prospect: its
\* pause began before the look, or its socket has not arrived yet.
LEMMA FirstLookLeavesProspects ==
    ASSUME Located, PausesHold, NoSocketIsLost, PausesAreCovered, Usable = {},
           UNCHANGED <<now, connector, arriving, calm_since>>,
           NEW k \in Clients, FirstLook(k)' = now, NEW c \in Connectors, ~ Taken(c)
    PROVE  Prospect(k, c)'
<1>0. TypeOK
  BY DEF Located
<1>1. \A t \in Nat : Soon(k, t)' <=>
          \/ t <= calm_since + RELAY_RECONNECT_DELAY + HelloDelay
          \/ t < now + RELAY_RECONNECT_DELAY + HelloDelay
  BY DEF Soon
<1>2. CASE Offers(c)
  <2>1. PICK s \in arriving : s.by = c
    BY <1>2 DEF Offers
  <2>2. s.opened \in Nat /\ s.opened <= now
    BY <1>0, ArrivingKinds DEF Located, TimersHold
  <2>3. s.opened + HelloDelay \in Nat /\ s.opened + HelloDelay < now + RELAY_RECONNECT_DELAY + HelloDelay
    BY <1>0, <2>2, Numbers
  <2> QED
    BY <1>1, <2>1, <2>3 DEF Prospect
<1>3. CASE ~ Offers(c)
  <2>1. connector[c].at = "idle"
    BY <1>3, WaitingOffers
  <2>2. /\ connector[c].from \in Nat
        /\ \/ connector[c].from <= calm_since + RELAY_RECONNECT_DELAY
           \/ connector[c].from < now + RELAY_RECONNECT_DELAY
    BY <1>0, <1>3, <2>1, ConnectorKinds DEF PausesAreCovered
  <2>3. /\ connector[c].from + HelloDelay \in Nat
        /\ \/ connector[c].from + HelloDelay <= calm_since + RELAY_RECONNECT_DELAY + HelloDelay
           \/ connector[c].from + HelloDelay < now + RELAY_RECONNECT_DELAY + HelloDelay
    BY <1>0, <2>2, Numbers
  <2> QED
    BY <1>1, <2>1, <2>3 DEF Prospect
<1> QED
  BY <1>2, <1>3

LEMMA LookInVainKeepsIInv ==
    ASSUME IInv, NEW k \in Clients, Look(k), ~ PopNode(k)
    PROVE  IInv'
<1>0. TypeOK /\ Located /\ PausesHold /\ NoSocketIsLost /\ PausesAreCovered /\ SoonServed
  BY DEF IInv, Located
<1>1. Located'
  BY <1>0, LookInVainKeepsLocated
<1>2. /\ Usable = {} /\ waiting' = <<>> /\ UNCHANGED <<now, connector, arriving, calm_since>>
      /\ client' = [client EXCEPT ![k] = Looking(client[k].tries - 1)]
      /\ client[k].at = "looking" /\ client[k].tries > 0 /\ client[k].next <= now
  BY DEF Look
<1>3. /\ client'[k] = [at |-> "looking", tries |-> client[k].tries - 1, next |-> now + 1]
      /\ \A j \in Clients \ {k} : client'[j] = client[j]
  BY <1>0, <1>2 DEF TypeOK, Looking
<1>4. client[k].next = now /\ client[k].tries \in 0 .. TRIES
  <2>1. client[k].next \in Nat /\ client[k].tries \in 0 .. TRIES /\ now <= client[k].next
    BY <1>0, <1>2, ClientKinds, Numbers DEF PausesHold
  <2> QED
    BY <1>0, <1>2, <2>1, Numbers
<1>5. FirstLook(k)' = now - (TRIES - client[k].tries)
  <2>1. FirstLook(k)' = (now + 1) - (TRIES - (client[k].tries - 1))
    BY <1>3 DEF FirstLook
  <2> QED
    BY <1>0, <1>4, <2>1, Numbers
<1>6. \A c \in Connectors : Taken(c) \/ Prospect(k, c)'
  <2>1. CASE client[k].tries = TRIES
    <3>1. FirstLook(k)' = now
      BY <1>0, <1>5, <2>1, Numbers
    <3> QED
      BY <1>0, <1>2, <3>1, FirstLookLeavesProspects
  <2>2. CASE client[k].tries # TRIES
    <3>1. InVain(k) /\ FirstLook(k)' = FirstLook(k)
      BY <1>0, <1>2, <1>4, <1>5, <2>2, Numbers DEF InVain, FirstLook
    <3>2. \A i \in DOMAIN waiting : FALSE
      BY <1>0, <1>2, <3>1, NewIsUsable
    <3>3. \A t : Soon(k, t)' <=> Soon(k, t)
      BY <1>2, <3>1 DEF Soon
    <3> QED
      BY <1>0, <1>2, <3>1, <3>2, <3>3 DEF SoonServed, Prospect
  <2> QED
    BY <2>1, <2>2
<1>7. now + 1 \in now .. now + 1
  BY <1>0, Numbers
<1>8. client'[k].at = "looking" /\ client'[k].next \in now .. now + 1
  BY <1>3, <1>7
<1> QED
  BY <1>1, <1>2, <1>3, <1>6, <1>8, LooksKeepIInv

\* With no more clients than connectors, a client that has no socket leaves a connector
\* of which no client has one.
LEMMA OneIsUntaken ==
    ASSUME Cardinality(Clients) <= Cardinality(Connectors),
           NEW k \in Clients, ~ Paired(k)
    PROVE  \E c \in Connectors : ~ Taken(c)
<1> SUFFICES ASSUME \A c \in Connectors : Taken(c) PROVE FALSE
  OBVIOUS
<1> DEFINE Rest == Clients \ {k}
           f == [c \in Connectors |-> CHOOSE j \in Rest : client[j].on.by = c]
<1>1. \A c \in Connectors : f[c] \in Rest /\ client[f[c]].on.by = c
  <2> TAKE c \in Connectors
  <2>1. \E j \in Rest : client[j].on.by = c
    BY DEF Taken
  <2> QED
    BY <2>1
<1> HIDE DEF f
<1>2. f \in Injection(Connectors, Rest)
  <2>1. f \in [Connectors -> Rest]
    BY <1>1 DEF f
  <2>2. \A c, d \in Connectors : f[c] = f[d] => c = d
    BY <1>1
  <2> QED
    BY <2>1, <2>2 DEF Injection, IsInjective
<1>3. /\ IsFiniteSet(Rest) /\ Cardinality(Rest) = Cardinality(Clients) - 1
      /\ Cardinality(Clients) \in Nat /\ Cardinality(Connectors) \in Nat
  BY RelayAssumption, FS_RemoveElement, FS_CardinalityType
<1>4. Cardinality(Connectors) <= Cardinality(Rest)
  BY <1>2, <1>3, FS_Injection
<1> QED
  BY <1>3, <1>4

\* The pause and the hello of a prospect are over before the last look, which would
\* have found its socket, unless a fault had just been.
LEMMA GiveUpKeepsIInv ==
    ASSUME IInv, NEW k \in Clients, GiveUp(k)
    PROVE  IInv'
<1>0. TypeOK /\ Located /\ PausesHold /\ SoonServed
  BY DEF IInv, Located
<1>1. Located'
  BY <1>0, GiveUpKeepsLocated
<1>2. /\ client'[k] = [at |-> "missed", when |-> now]
      /\ \A j \in Clients \ {k} : client'[j] = client[j]
  BY <1>0 DEF GiveUp, TypeOK
<1>3. /\ UNCHANGED <<now, connector, arriving, calm_since, waiting>>
      /\ client[k].at = "looking" /\ client[k].tries = 0 /\ client[k].next <= now
  BY DEF GiveUp
<1>4. client[k].next = now /\ FirstLook(k) = now - TRIES /\ InVain(k)
  <2>1. client[k].next \in Nat /\ now <= client[k].next
    BY <1>0, <1>3, ClientKinds, Numbers DEF PausesHold
  <2> QED
    BY <1>0, <1>3, <2>1, Numbers DEF FirstLook, InVain
<1>5. ASSUME Cardinality(Clients) <= Cardinality(Connectors),
             ~ (now <= calm_since + RELAY_RECONNECT_DELAY + HelloDelay + 1)
      PROVE  FALSE
  <2>1. \A t \in Nat : Soon(k, t) => t + 1 < now
    BY <1>0, <1>4, <1>5, Numbers DEF Soon
  <2>2. PICK c \in Connectors : ~ Taken(c)
    BY <1>3, <1>5, OneIsUntaken DEF Paired
  <2>3. CASE connector[c].at = "idle" /\ Soon(k, connector[c].from + HelloDelay)
    <3>1. connector[c].from \in Nat /\ now <= connector[c].from
      BY <1>0, <2>3, ConnectorKinds DEF PausesHold
    <3>2. connector[c].from + HelloDelay \in Nat /\ ~ (connector[c].from + HelloDelay + 1 < now)
      BY <1>0, <3>1, Numbers
    <3> QED
      BY <2>1, <2>3, <3>2
  <2>4. ASSUME NEW s \in arriving, Soon(k, s.opened + HelloDelay) PROVE FALSE
    <3>1. s.opened \in Nat /\ now <= s.opened + HelloDelay
      BY <1>0, ArrivingKinds DEF Located, TimersHold
    <3>2. s.opened + HelloDelay \in Nat /\ ~ (s.opened + HelloDelay + 1 < now)
      BY <1>0, <3>1, Numbers
    <3> QED
      BY <2>1, <2>4, <3>2
  <2>5. ASSUME NEW i \in DOMAIN waiting, Soon(k, waiting[i].connected_at) PROVE FALSE
    <3>1. waiting[i].connected_at \in Nat /\ now <= waiting[i].connected_at + 1
      BY <1>0, <1>4, StackKinds DEF SoonServed
    <3> QED
      BY <1>0, <2>1, <2>5, <3>1, Numbers
  <2>6. Prospect(k, c)
    BY <1>0, <1>4, <2>2 DEF SoonServed
  <2> QED
    BY <2>3, <2>4, <2>5, <2>6 DEF Prospect
<1>6. client'[k].at = "missed" /\ client'[k].when = now /\ ~ InVain(k)'
  BY <1>2 DEF InVain
<1> QED
  BY <1>1, <1>2, <1>3, <1>5, <1>6, LooksKeepIInv

\* A client that gets a socket takes its connector; no socket that is of use to another
\* client, or on which a connector waits, is dropped.
LEMMA PopNodeKeepsIInv ==
    ASSUME IInv, NEW k \in Clients, Look(k), PopNode(k)
    PROVE  IInv'
<1>0. TypeOK /\ Located /\ PausesHold /\ NoSocketIsLost /\ PausesAreCovered /\ SoonServed
  BY DEF IInv, Located
<1>1. Located'
  BY <1>0, PopNodeKeepsLocated
<1>2. PICK n : n = Newest(Usable)
  OBVIOUS
<1>3. PICK s : s = waiting[n].on
  OBVIOUS
<1>4. UNCHANGED <<now, connector, arriving, calm_since>> /\ client[k].at = "looking"
  BY DEF Look
<1>5. /\ client'[k] = [at |-> "paired", on |-> s, when |-> now]
      /\ \A j \in Clients \ {k} : client'[j] = client[j]
  BY <1>0, <1>2, <1>3 DEF PopNode, TypeOK
<1>6. /\ n \in Nat /\ n \in DOMAIN waiting /\ \A i \in Usable : i <= n
      /\ DOMAIN waiting' = 1 .. n - 1
      /\ \A i \in 1 .. n - 1 : i \in DOMAIN waiting /\ waiting'[i] = waiting[i]
  BY <1>0, <1>2, WhatPopNodeLeaves, StackKinds
<1>7. \A i \in Usable : i = n \/ (i \in DOMAIN waiting' /\ i \in Usable' /\ waiting'[i] = waiting[i])
  <2> SUFFICES ASSUME NEW i \in Usable, i # n
               PROVE  i \in DOMAIN waiting' /\ i \in Usable' /\ waiting'[i] = waiting[i]
    OBVIOUS
  <2>1. i \in Nat /\ 1 <= i /\ i <= n
    BY <1>0, <1>6, StackKinds DEF Usable
  <2>2. i \in DOMAIN waiting' /\ waiting'[i] = waiting[i]
    BY <1>6, <2>1
  <2> QED
    BY <1>4, <2>2 DEF Usable
<1>8. \A i \in DOMAIN waiting' : i \in DOMAIN waiting /\ waiting'[i] = waiting[i]
  BY <1>6
<1>9. \A c \in Connectors : ~ Taken(c)' => ~ Taken(c) /\ s.by # c
  BY <1>4, <1>5 DEF Taken, Paired
<1>10. \A r : IsServed(r)' <=> IsServed(r) \/ r = s
  BY <1>4, <1>5 DEF IsServed
<1>11. PausesHold' /\ MissedOnlyAfterFault'
  BY <1>0, <1>4, <1>5 DEF IInv, PausesHold, MissedOnlyAfterFault
<1>12. NoSocketIsLost'
  <2>1. ASSUME NEW c \in Connectors, connector[c].at = "waiting", On(connector[c].on, waiting)
        PROVE  On(connector[c].on, waiting') \/ connector[c].on = s
    <3>1. PICK i \in Usable : waiting[i].on = connector[c].on
      BY <1>0, <2>1, WaitedOnIsUsable DEF On
    <3> QED
      BY <1>3, <1>7, <3>1 DEF On
  <2> QED
    BY <1>0, <1>4, <1>10, <2>1 DEF NoSocketIsLost
<1>13. PausesAreCovered'
  <2>1. ASSUME NEW c \in Connectors, s.by # c, Offers(c) PROVE Offers(c)'
    BY <1>3, <1>4, <1>7, <2>1 DEF Offers
  <2> QED
    BY <1>0, <1>4, <1>9, <2>1, Zenon DEF PausesAreCovered
<1>14. SoonServed'
  <2> SUFFICES ASSUME NEW j \in Clients, InVain(j)'
               PROVE  /\ \A i \in DOMAIN waiting' : client'[j].next <= waiting'[i].connected_at + 1
                      /\ \A c \in Connectors : Taken(c)' \/ Prospect(j, c)'
    BY DEF SoonServed
  <2>1. j # k /\ client'[j] = client[j] /\ InVain(j)
    BY <1>5 DEF InVain
  <2>2. \A i \in DOMAIN waiting' : client'[j].next <= waiting'[i].connected_at + 1
    BY <1>0, <1>8, <2>1 DEF SoonServed
  <2>3. \A t : Soon(j, t)' <=> Soon(j, t)
    BY <1>4, <2>1 DEF Soon, FirstLook
  <2>4. \A i \in DOMAIN waiting : i = n \/ (i \in DOMAIN waiting' /\ waiting'[i] = waiting[i])
    BY <1>0, <1>7, <2>1, NewIsUsable
  <2>5. ASSUME NEW c \in Connectors, s.by # c, Prospect(j, c) PROVE Prospect(j, c)'
    BY <1>3, <1>4, <2>3, <2>4, <2>5 DEF Prospect
  <2> QED
    BY <1>0, <1>9, <2>1, <2>2, <2>5 DEF SoonServed
<1> QED
  BY <1>1, <1>11, <1>12, <1>13, <1>14 DEF IInv

LEMMA NextKeepsIInv == IInv /\ [Next]_vars => IInv'
<1> SUFFICES ASSUME IInv, [Next]_vars PROVE IInv'
  OBVIOUS
<1>1. CASE UNCHANGED vars
  <2>1. Located'
    BY <1>1, NextKeepsLocated DEF IInv
  <2>2. UNCHANGED <<now, waiting, client, connector, arriving, calm_since>>
    BY <1>1 DEF vars
  <2>3. calm_since <= calm_since'
    BY <2>2, Numbers DEF IInv, Located
  <2> QED
    BY <2>1, <2>2, <2>3, NodeKeepsIInv
<1>2. ASSUME NEW c \in Connectors,
             Open(c) \/ OpenFails(c) \/ NodeReadsHello(c) \/ LeaseExpires(c) \/ SessionEnds(c)
      PROVE  IInv'
  BY <1>2, OpenKeepsIInv, PausesKeepIInv, NodeReadsHelloKeepsIInv
<1>3. ASSUME NEW s \in arriving, RelayNodeHello(s) PROVE IInv'
  BY <1>3, RelayNodeHelloKeepsIInv
<1>4. ASSUME NEW k \in Clients, RelayClientHello(k) \/ Look(k) \/ GiveUp(k) PROVE IInv'
  BY <1>4, RelayClientHelloKeepsIInv, LookInVainKeepsIInv, PopNodeKeepsIInv, GiveUpKeepsIInv
<1>5. CASE NodeRestart \/ RelayRestart \/ Tick
  BY <1>5, NodeRestartKeepsIInv, RelayRestartKeepsIInv, TickKeepsIInv
<1> QED
  BY <1>1, <1>2, <1>3, <1>4, <1>5 DEF Next

\* For any number of connectors and clients, and with any faults: two clients never share
\* a node's socket, none gets one whose lease began longer ago than the TTL and the delay
\* of its hello, and with no more clients than connectors one goes without a socket only
\* just after a fault (wait_for_node_stream_with_ttl, spawn_relay_connectors).
THEOREM PairsAreSound == Spec => []ClientsArePaired
<1>1. IInv => ClientsArePaired
  BY DEF IInv, Located, ClientsArePaired
<1> QED
  BY <1>1, InitIInv, NextKeepsIInv, PTL DEF Spec

\* A socket on which the node waits is usable, so that popping stops at it at the latest.
LEMMA StepDropsOnlyDead ==
    Located /\ [Next]_vars => [DropsOnlyDead]_vars
<1> SUFFICES ASSUME Located, Next, NEW c \in Connectors,
                    connector[c].at = "waiting", connector'[c] = connector[c],
                    NEW i \in DOMAIN waiting, waiting[i].on = connector[c].on,
                    ~ On(connector[c].on, waiting')
             PROVE  \E k \in Clients :
                        client'[k].at = "paired" /\ client'[k].on = connector[c].on
  BY DEF DropsOnlyDead, On
<1>0. TypeOK /\ now \in Nat
  BY RelayAssumption DEF Located, TypeOK
<1>1. i \in Usable
  BY WaitedOnIsUsable
<1>2. waiting' # waiting
  BY DEF On
<1>3. ASSUME NEW s \in arriving, RelayNodeHello(s) PROVE FALSE
  <2>1. i \in DOMAIN waiting' /\ waiting'[i] = waiting[i]
    BY <1>0, <1>3, StackKinds, AppendProperties DEF RelayNodeHello, TypeOK
  <2> QED
    BY <2>1 DEF On
<1>4. ~ RelayRestart
  BY DEF RelayRestart, Idle
<1>5. PICK k \in Clients : Look(k)
  BY <1>2, <1>3, <1>4
  DEF Next, Open, OpenFails, NodeReadsHello, LeaseExpires, SessionEnds, RelayClientHello,
      GiveUp, NodeRestart, Tick
<1>6. PopNode(k)
  BY <1>1, <1>5 DEF Look
<1>7. i = Newest(Usable)
  <2>1. i <= Newest(Usable) /\ Newest(Usable) \in Nat /\ i \in Nat /\ i >= 1
    BY <1>0, <1>1, <1>6, WhatPopNodeLeaves, StackKinds
  <2>2. i \notin 1 .. Newest(Usable) - 1
    BY <1>0, <1>6, WhatPopNodeLeaves, Zenon DEF On
  <2> QED
    BY <2>1, <2>2
<1>8. client'[k] = [at |-> "paired", on |-> connector[c].on, when |-> now]
  BY <1>0, <1>6, <1>7 DEF PopNode, TypeOK
<1> QED
  BY <1>8

\* Because a lease is no longer than the TTL, the relay never drops a socket on which
\* the node still waits (RELAY_NODE_SOCKET_TTL against RELAY_NODE_IDLE_LEASE).
THEOREM DroppedSocketsAreDead == Spec => OnlyDeadDropped
BY InitLocated, NextKeepsLocated, StepDropsOnlyDead, PTL DEF Spec, OnlyDeadDropped
=============================================================================
