--------------------------- MODULE UdpListenerProofs ---------------------------
(***************************************************************************)
(* For every number of clients, and every timeout, window and delay: a     *)
(* node that remembers enough handshakes for long enough makes one session *)
(* of a connection, and keeps the promise of its HELLO_ACKs.               *)
(*                                                                         *)
(* A HELLO leaves its client before the timeout and lives HelloLife.  When *)
(* the handshake leaves the window all its HELLOs are gone; and the keys   *)
(* of the recent handshakes differ, so that none is pushed out before.     *)
(***************************************************************************)
EXTENDS UdpListener, FiniteSetTheorems, SequenceTheorems, WellFoundedInduction, TLAPS

\* A set of positions has a first one.
LEMMA MinIsLeast ==
    ASSUME NEW S \in SUBSET Nat, S # {}
    PROVE  Min(S) \in S /\ \A j \in S : Min(S) <= j
<1> DEFINE R == {p \in Nat \X Nat : p[1] < p[2]}
<1>1. IsWellFoundedOn(R, Nat)
  BY NatLessThanWellFounded DEF OpToRel
<1> HIDE DEF R
<1>2. PICK x \in S : \A y \in S : ~ (<<y, x>> \in R)
  BY <1>1, WFMin, Zenon
<1>3. \A y \in S : x <= y
  <2> TAKE y \in S
  <2>1. x \in Nat /\ y \in Nat /\ <<y, x>> \notin R
    BY <1>2
  <2> QED
    BY <2>1 DEF R
<1> QED
  BY <1>3 DEF Min

LEMMA NotInBurst == Waiting \notin Burst /\ Gone \notin Burst
BY DEF Waiting, Gone, Burst

\* What TypeOK says of the sequences of the state.
LEMMA RecentKinds ==
    ASSUME TypeOK
    PROVE  /\ recent \in Seq(Handshake) /\ Len(recent) \in Nat
           /\ DOMAIN recent = 1 .. Len(recent)
           /\ \A i \in DOMAIN recent : /\ recent[i] \in Handshake
                                       /\ recent[i].key \in Clients /\ recent[i].seen_at \in Nat
<1>1. recent \in Seq(Handshake)
  BY DEF TypeOK
<1>2. /\ Len(recent) \in Nat /\ DOMAIN recent = 1 .. Len(recent)
      /\ \A i \in DOMAIN recent : recent[i] \in Handshake
  BY <1>1
<1> QED
  BY <1>1, <1>2 DEF Handshake

LEMMA SessionKinds ==
    ASSUME TypeOK
    PROVE  /\ sessions \in Seq(Clients) /\ Len(sessions) \in Nat
           /\ DOMAIN sessions = 1 .. Len(sessions)
BY DEF TypeOK

LEMMA TypeAndTime == IInv => TypeOK /\ now \in Nat
BY ListenerAssumption DEF IInv, TypeOK

LEMMA InitIInv == Init => IInv
<1> SUFFICES ASSUME Init PROVE IInv
  OBVIOUS
<1> USE ListenerAssumption DEF Init
<1>1. TypeOK
  <2>1. recent \in Seq(Handshake) /\ Len(recent) = 0
    BY EmptySeq
  <2>2. sessions \in Seq(Clients) /\ Len(sessions) = 0
    BY EmptySeq
  <2>3. channel \in Seq(-1 .. Len(sessions))
    BY EmptySeq
  <2> QED
    BY <2>1, <2>2, <2>3 DEF TypeOK
<1>2. HellosAreTimely /\ RecentIsSound
  BY DEF HellosAreTimely, RecentIsSound
<1>3. HandledIsKnown /\ OneSession
  BY NotInBurst DEF HandledIsKnown, OneSession, HasSession, InBurst
<1>4. InboxIsKept /\ AckedIsServed
  BY NotInBurst DEF InboxIsKept, AckedIsServed, InBurst
<1> QED
  BY <1>1, <1>2, <1>3, <1>4 DEF IInv

\* A step that leaves handshakes and sessions alone.
LEMMA QuietKeepsIInv ==
    ASSUME IInv, TypeOK',
           UNCHANGED <<now, client, started, hello_until, acked, recent, sessions, active, routed>>,
           reader' = reader \/ (reader = Waiting /\ reader' = Gone),
           Failed => Failed'
    PROVE  IInv'
<1>1. \A c \in Clients : InBurst(c)' <=> InBurst(c)
  BY NotInBurst DEF InBurst, Burst
<1>2. \A c \in Clients : InBurst(c)' => reader' = reader
  BY NotInBurst DEF InBurst, Burst
<1>3. HellosAreTimely' /\ RecentIsSound' /\ InboxIsKept'
  BY DEF IInv, HellosAreTimely, RecentIsSound, InboxIsKept
<1>4. HandledIsKnown'
  BY <1>1 DEF IInv, HandledIsKnown, HasSession, Known
<1>5. OneSession'
  BY <1>1, <1>2 DEF IInv, OneSession, HasSession
<1>6. AckedIsServed'
  BY <1>1, <1>2 DEF IInv, AckedIsServed
<1> QED
  BY <1>3, <1>4, <1>5, <1>6 DEF IInv

LEMMA ReportKeepsType ==
    ASSUME TypeOK, NEW r \in -1 .. Len(sessions), Report(r)
    PROVE  channel' \in Seq(-1 .. Len(sessions))
BY AppendProperties DEF TypeOK, Report

LEMMA ReportFailureKeepsType ==
    ASSUME TypeOK, NEW r \in {Failure, TimedOut}, ReportFailure(r)
    PROVE  /\ channel' \in Seq(-1 .. Len(sessions))
           /\ failures' \in 0 .. MaxFailures /\ Failed'
<1>1. r \in -1 .. Len(sessions) /\ Report(r)
  BY LenProperties DEF Failure, TimedOut, ReportFailure, TypeOK
<1>2. channel' \in Seq(-1 .. Len(sessions))
  BY <1>1, ReportKeepsType
<1>3. failures' = failures + 1 /\ failures < MaxFailures /\ failures \in 0 .. MaxFailures
  BY DEF ReportFailure, TypeOK
<1> QED
  BY <1>2, <1>3, ListenerAssumption DEF Failed

LEMMA ReaderEndsKeepIInv ==
    ASSUME IInv, ReaderBadHello \/ ReaderFails \/ ReaderStops
    PROVE  IInv'
<1>0. TypeOK
  BY DEF IInv
<1>1. /\ UNCHANGED <<now, client, started, hello_until, acked, recent, sessions, active,
                     routed, bridges, accepting>>
      /\ reader' = reader \/ (reader = Waiting /\ reader' = Gone)
  BY DEF ReaderBadHello, ReaderFails, ReaderStops, clientVars, sessionVars
<1>2. /\ channel' \in Seq(-1 .. Len(sessions)) /\ failures' \in 0 .. MaxFailures
      /\ Failed => Failed'
  BY <1>0, ReportFailureKeepsType
  DEF ReaderBadHello, ReaderFails, ReaderStops, TypeOK, Failed
<1>3. TypeOK'
  BY <1>0, <1>1, <1>2 DEF TypeOK
<1> QED
  BY <1>1, <1>2, <1>3, QuietKeepsIInv

LEMMA AcceptLoopKeepsIInv == ASSUME IInv, Accept \/ Shutdown PROVE IInv'
<1>0. TypeOK
  BY DEF IInv
<1>1. UNCHANGED <<now, client, started, hello_until, acked, recent, sessions, active, routed,
                  reader, failures>>
  BY DEF Accept, Shutdown, clientVars, sessionVars
<1>2. /\ channel' \in Seq(-1 .. Len(sessions)) /\ accepting' \in BOOLEAN
      /\ bridges' \subseteq 1 .. Len(sessions)
  <2>1. CASE Accept
    <3>1. Head(channel) \in -1 .. Len(sessions) /\ Tail(channel) \in Seq(-1 .. Len(sessions))
      BY <1>0, <2>1, HeadTailProperties DEF Accept, TypeOK
    <3>2. Head(channel) > 0 => Head(channel) \in 1 .. Len(sessions)
      BY <1>0, <3>1, SessionKinds
    <3>3. channel' = Tail(channel)
      BY <2>1 DEF Accept
    <3>4. bridges' \subseteq 1 .. Len(sessions) /\ accepting' \in BOOLEAN
      BY <1>0, <2>1, <3>2 DEF Accept, TypeOK
    <3> QED
      BY <3>1, <3>3, <3>4
  <2>2. CASE Shutdown
    BY <1>0, <2>2 DEF Shutdown, sessionVars, TypeOK
  <2> QED
    BY <2>1, <2>2
<1>3. TypeOK'
  BY <1>0, <1>1, <1>2 DEF TypeOK
<1> QED
  BY <1>1, <1>3, QuietKeepsIInv DEF Failed

\* What is out of the window stays out of it.
LEMMA TickKeepsIInv == ASSUME IInv, Tick PROVE IInv'
<1>0. TypeOK /\ now \in Nat
  BY TypeAndTime
<1>1. /\ now' = now + 1
      /\ UNCHANGED <<client, started, hello_until, acked, recent, reader, channel, accepting,
                     sessions, active, bridges, routed, failures>>
  BY DEF Tick, clientVars, sessionVars
<1>2. TypeOK'
  BY <1>0, <1>1, ListenerAssumption DEF Tick, TypeOK
<1>3. HandledIsKnown'
  <2>1. \A c \in Clients : started[c] + DUPLICATE_HANDSHAKE_WINDOW < now
                           => started[c] + DUPLICATE_HANDSHAKE_WINDOW < now + 1
    BY <1>0, ListenerAssumption DEF TypeOK
  <2> QED
    BY <1>1, <2>1 DEF IInv, HandledIsKnown, HasSession, InBurst, Known
<1>4. HellosAreTimely' /\ RecentIsSound' /\ InboxIsKept'
  <2>1. \A c \in Clients : started[c] <= now + 1
    BY <1>0 DEF IInv, HellosAreTimely, TypeOK
  <2> QED
    BY <1>1, <2>1 DEF IInv, HellosAreTimely, RecentIsSound, InboxIsKept
<1>5. OneSession' /\ AckedIsServed'
  BY <1>1 DEF IInv, OneSession, AckedIsServed, HasSession, InBurst, Failed
<1> QED
  BY <1>2, <1>3, <1>4, <1>5 DEF IInv

\* No HELLO is sent that could outlive the window.
LEMMA ConnectKeepsIInv ==
    ASSUME RemembersEnough, IInv, NEW c \in Clients,
           Connect(c) \/ RepeatHello(c) \/ ConnectOk(c) \/ ConnectTimeout(c)
    PROVE  IInv'
<1>0. TypeOK /\ now \in Nat
  BY TypeAndTime
<1>1. /\ UNCHANGED <<now, acked, recent, reader, channel, accepting,
                     sessions, active, bridges, routed, failures>>
      /\ client' \in [Clients -> {"new", "trying", "connected", "failed"}]
      /\ client'[c] # "new"
      /\ \A d \in Clients : d # c => client'[d] = client[d]
      /\ client[c] = "new" \/ started' = started
      /\ started' \in [Clients -> Nat]
      /\ \A d \in Clients : d # c => started'[d] = started[d]
  <2>0. client \in [Clients -> {"new", "trying", "connected", "failed"}] /\ started \in [Clients -> Nat]
    BY <1>0 DEF TypeOK
  <2>1. CASE Connect(c)
    BY <1>0, <2>0, <2>1 DEF Connect, sessionVars
  <2>2. CASE RepeatHello(c)
    BY <2>0, <2>2 DEF RepeatHello, clientVars, sessionVars
  <2>3. CASE ConnectOk(c)
    BY <2>0, <2>3 DEF ConnectOk, clientVars, sessionVars
  <2>4. CASE ConnectTimeout(c)
    BY <2>0, <2>4 DEF ConnectTimeout, clientVars, sessionVars
  <2> QED
    BY <2>1, <2>2, <2>3, <2>4
<1>2. /\ hello_until' \in [Clients -> Nat \cup {-1}]
      /\ \A d \in Clients : d # c => hello_until'[d] = hello_until[d]
      /\ hello_until'[c] <= started'[c] + DUPLICATE_HANDSHAKE_WINDOW
  <2> USE ListenerAssumption
  <2>0. /\ hello_until \in [Clients -> Nat \cup {-1}] /\ started \in [Clients -> Nat]
        /\ now + HelloLife \in Nat
    BY <1>0 DEF TypeOK
  <2>1. CASE Connect(c)
    <3>1. started'[c] = now /\ hello_until' = [hello_until EXCEPT ![c] = now + HelloLife]
      BY <2>0, <2>1 DEF Connect
    <3> QED
      BY <1>0, <2>0, <3>1 DEF RemembersEnough
  <2>2. CASE RepeatHello(c)
    <3>1. /\ hello_until' = [hello_until EXCEPT ![c] = now + HelloLife]
          /\ started' = started /\ now < started[c] + HANDSHAKE_TIMEOUT
      BY <2>2 DEF RepeatHello, clientVars
    <3>2. now + HelloLife <= started[c] + DUPLICATE_HANDSHAKE_WINDOW
      BY <1>0, <2>0, <3>1 DEF RemembersEnough
    <3> QED
      BY <2>0, <3>1, <3>2
  <2>3. CASE ConnectOk(c) \/ ConnectTimeout(c)
    BY <1>0, <2>3 DEF IInv, HellosAreTimely, ConnectOk, ConnectTimeout, TypeOK
  <2> QED
    BY <2>1, <2>2, <2>3
<1>3. TypeOK'
  BY <1>0, <1>1, <1>2 DEF TypeOK
<1>4. HellosAreTimely'
  <2>1. started'[c] <= now
    BY <1>0 DEF IInv, HellosAreTimely, Connect, RepeatHello, ConnectOk, ConnectTimeout, clientVars, TypeOK
  <2> QED
    BY <1>1, <1>2, <2>1 DEF IInv, HellosAreTimely
<1>5. \A d \in Clients : client[d] # "new" => client'[d] # "new" /\ started'[d] = started[d]
  BY <1>1
<1>6. RecentIsSound'
  <2>1. \A i \in DOMAIN recent : recent[i].key \in Clients
    BY <1>0, RecentKinds
  <2> QED
    BY <1>1, <1>5, <2>1 DEF IInv, RecentIsSound
<1>7. HandledIsKnown'
  BY <1>1, <1>5 DEF IInv, HandledIsKnown, HasSession, InBurst, Known
<1>8. OneSession' /\ InboxIsKept'
  BY <1>1 DEF IInv, OneSession, InboxIsKept, HasSession, InBurst
<1>9. AckedIsServed'
  <2>1. client'[c] = "connected" => c \in acked
    BY <1>0 DEF Connect, RepeatHello, ConnectOk, ConnectTimeout, clientVars, TypeOK
  <2> QED
    BY <1>1, <2>1 DEF IInv, AckedIsServed, InBurst, Failed
<1> QED
  BY <1>3, <1>4, <1>6, <1>7, <1>8, <1>9 DEF IInv

LEMMA ReaderRouteKeepsIInv ==
    ASSUME IInv, NEW c \in Clients, ReaderRoute(c)
    PROVE  IInv'
<1>0. TypeOK
  BY DEF IInv
<1>1. /\ active[c] # 0 /\ routed' = [routed EXCEPT ![c] = routed[c] \cup {active[c]}]
      /\ UNCHANGED <<now, client, started, hello_until, acked, recent, reader, channel,
                     accepting, sessions, active, bridges, failures>>
  BY DEF ReaderRoute, clientVars
<1>2. active[c] \in 1 .. Len(sessions)
  BY <1>0, <1>1, LenProperties DEF TypeOK
<1>3. TypeOK'
  BY <1>0, <1>1, <1>2 DEF TypeOK
<1>4. InboxIsKept'
  BY <1>0, <1>1 DEF IInv, InboxIsKept, TypeOK
<1>5. HellosAreTimely' /\ RecentIsSound' /\ HandledIsKnown'
  BY <1>1 DEF IInv, HellosAreTimely, RecentIsSound, HandledIsKnown, HasSession, InBurst, Known
<1>6. OneSession' /\ AckedIsServed'
  BY <1>1 DEF IInv, OneSession, AckedIsServed, HasSession, InBurst, Failed
<1> QED
  BY <1>3, <1>4, <1>5, <1>6 DEF IInv

\* What is_duplicate_handshake forgets has left the window, the rest stays in order.
LEMMA FreshIsSuffix ==
    ASSUME TypeOK, now \in Nat
    PROVE  \E m \in 0 .. Len(recent) :
               /\ Fresh \in Seq(Handshake) /\ Len(Fresh) = Len(recent) - m
               /\ \A i \in 1 .. Len(recent) - m : Fresh[i] = recent[m + i]
               /\ \A i \in 1 .. m : recent[i].seen_at + DUPLICATE_HANDSHAKE_WINDOW < now
<1> USE ListenerAssumption
<1>1. /\ recent \in Seq(Handshake) /\ Len(recent) \in Nat
      /\ DOMAIN recent = 1 .. Len(recent)
      /\ \A i \in DOMAIN recent : recent[i] \in Handshake /\ recent[i].seen_at \in Nat
  BY RecentKinds
<1>2. \A i \in DOMAIN recent : i \notin InWindow =>
          recent[i].seen_at + DUPLICATE_HANDSHAKE_WINDOW < now
  BY <1>1 DEF InWindow
<1>3. CASE InWindow = {}
  <2>1. Fresh = <<>> /\ <<>> \in Seq(Handshake) /\ Len(<<>>) = 0
    BY <1>3, EmptySeq DEF Fresh
  <2> WITNESS Len(recent) \in 0 .. Len(recent)
  <2> QED
    BY <1>1, <1>2, <1>3, <2>1
<1>4. CASE InWindow # {}
  <2> DEFINE k == Min(InWindow)
  <2>1. k \in InWindow /\ \A j \in InWindow : k <= j
    <3>1. InWindow \in SUBSET Nat
      BY <1>1 DEF InWindow
    <3> QED
      BY <1>4, <3>1, MinIsLeast
  <2> HIDE DEF k
  <2>2. k \in 1 .. Len(recent)
    BY <1>1, <2>1 DEF InWindow
  <2>3. Fresh = SubSeq(recent, k, Len(recent))
    BY <1>4 DEF Fresh, k
  <2>4. \A i \in k .. Len(recent) : recent[i] \in Handshake
    BY <1>1, <2>2
  <2>5. /\ Fresh \in Seq(Handshake) /\ Len(Fresh) = Len(recent) - (k - 1)
        /\ \A i \in 1 .. Len(recent) - (k - 1) : Fresh[i] = recent[(k - 1) + i]
    <3>1. /\ Fresh \in Seq(Handshake)
          /\ Len(Fresh) = IF k <= Len(recent) THEN Len(recent) - k + 1 ELSE 0
          /\ \A i \in 1 .. Len(recent) - k + 1 : Fresh[i] = recent[k + i - 1]
      BY <1>1, <2>2, <2>3, <2>4, SubSeqProperties
    <3> QED
      BY <1>1, <2>2, <3>1
  <2>6. \A i \in 1 .. k - 1 : recent[i].seen_at + DUPLICATE_HANDSHAKE_WINDOW < now
    BY <1>1, <1>2, <2>1, <2>2
  <2>7. k - 1 \in 0 .. Len(recent)
    BY <1>1, <2>2
  <2> QED
    BY <2>5, <2>6, <2>7
<1> QED
  BY <1>3, <1>4

\* A sequence of handshakes with different keys is no longer than there are clients.
LEMMA KeysFit ==
    ASSUME RemembersEnough, NEW q \in Seq(Handshake),
           \A i, j \in DOMAIN q : q[i].key = q[j].key => i = j
    PROVE  Len(q) <= MAX_RECENT_HANDSHAKES
<1> DEFINE f == [i \in 1 .. Len(q) |-> q[i].key]
<1>1. Len(q) \in Nat /\ DOMAIN q = 1 .. Len(q)
  BY LenProperties
<1>2. f \in [1 .. Len(q) -> Clients]
  <2>1. \A i \in 1 .. Len(q) : q[i] \in Handshake
    BY ElementOfSeq
  <2> QED
    BY <2>1 DEF Handshake
<1>3. \A i, j \in 1 .. Len(q) : f[i] = f[j] => i = j
  BY <1>1
<1> HIDE DEF f
<1>4. IsFiniteSet(1 .. Len(q)) /\ Cardinality(1 .. Len(q)) = Len(q)
  BY <1>1, FS_Interval
<1>5. Cardinality(Clients) \in Nat /\ IsFiniteSet(Clients)
  BY FS_CardinalityType DEF RemembersEnough
<1>6. ASSUME Cardinality(Clients) < Cardinality(1 .. Len(q)) PROVE FALSE
  <2> DEFINE D == 1 .. Len(q)
  <2>1. IsFiniteSet(D) /\ Cardinality(Clients) < Cardinality(D) /\ f \in [D -> Clients]
    BY <1>2, <1>4, <1>6
  <2>2. \A i, j \in D : f[i] = f[j] => i = j
    BY <1>3
  <2> HIDE DEF D
  <2>3. \E x, y \in D : x # y /\ f[x] = f[y]
    BY <1>5, <2>1, FS_PigeonHole
  <2> QED
    BY <2>2, <2>3
<1> QED
  BY <1>1, <1>4, <1>5, <1>6, ListenerAssumption DEF RemembersEnough

\* What ReaderHello makes of the recent handshakes.
LEMMA WhatIsRemembered ==
    ASSUME RemembersEnough, IInv, NEW c \in Clients, ReaderHello(c)
    PROVE  /\ recent' \in Seq(Handshake) /\ Len(recent') <= MAX_RECENT_HANDSHAKES
           /\ \A i \in DOMAIN recent' :
                  \/ recent'[i] = [key |-> c, seen_at |-> now]
                  \/ \E j \in DOMAIN recent : recent'[i] = recent[j]
           /\ \A i, j \in DOMAIN recent' : recent'[i].key = recent'[j].key => i = j
           /\ Known(c)'
           /\ \A d \in Clients : Known(d) =>
                  Known(d)' \/ started[d] + DUPLICATE_HANDSHAKE_WINDOW < now
           /\ IsRecent(c) => Known(c)
           /\ ~ IsRecent(c) /\ Known(c) => started[c] + DUPLICATE_HANDSHAKE_WINDOW < now
<1> USE ListenerAssumption
<1> DEFINE l == Len(recent)
<1>0. TypeOK /\ now \in Nat
  BY TypeAndTime
<1>1. PICK m \in 0 .. l :
          /\ Fresh \in Seq(Handshake) /\ Len(Fresh) = l - m
          /\ \A i \in 1 .. l - m : Fresh[i] = recent[m + i]
          /\ \A i \in 1 .. m : recent[i].seen_at + DUPLICATE_HANDSHAKE_WINDOW < now
  BY <1>0, FreshIsSuffix
<1>2. l \in Nat /\ DOMAIN recent = 1 .. l /\ DOMAIN Fresh = 1 .. l - m
  BY <1>0, <1>1, RecentKinds, LenProperties
<1> HIDE DEF l
<1>3. \A i \in DOMAIN Fresh : m + i \in DOMAIN recent /\ Fresh[i] = recent[m + i]
  BY <1>1, <1>2
<1>4. \A i, j \in DOMAIN Fresh : Fresh[i].key = Fresh[j].key => i = j
  <2> TAKE i, j \in DOMAIN Fresh
  <2> HAVE Fresh[i].key = Fresh[j].key
  <2>1. m + i = m + j
    BY <1>3 DEF IInv, RecentIsSound
  <2> QED
    BY <1>2, <2>1
<1>5. \A j \in DOMAIN recent :
          \/ \E i \in DOMAIN Fresh : Fresh[i] = recent[j]
          \/ started[recent[j].key] + DUPLICATE_HANDSHAKE_WINDOW < now
  <2> TAKE j \in DOMAIN recent
  <2>1. CASE j <= m
    <3>1. recent[j].seen_at + DUPLICATE_HANDSHAKE_WINDOW < now
      BY <1>1, <1>2, <2>1
    <3>2. /\ started[recent[j].key] <= recent[j].seen_at
          /\ started[recent[j].key] \in Nat /\ recent[j].seen_at \in Nat
      BY <1>0, RecentKinds DEF IInv, RecentIsSound, TypeOK
    <3> QED
      BY <1>0, <3>1, <3>2
  <2>2. CASE m < j
    <3>1. j - m \in DOMAIN Fresh /\ m + (j - m) = j
      BY <1>1, <1>2, <2>2
    <3> QED
      BY <1>3, <3>1
  <2> QED
    BY <1>1, <1>2, <2>1, <2>2
<1>6. IsRecent(c) => Known(c)
  BY <1>3 DEF IsRecent, Known
<1>7. ~ IsRecent(c) /\ Known(c) => started[c] + DUPLICATE_HANDSHAKE_WINDOW < now
  BY <1>5 DEF IsRecent, Known
<1>8. CASE IsRecent(c)
  <2>1. recent' = Fresh
    BY <1>8 DEF ReaderHello
  <2>2. Len(Fresh) <= MAX_RECENT_HANDSHAKES
    BY <1>1, <1>4, KeysFit
  <2>3. Known(c)'
    BY <1>8, <2>1 DEF IsRecent, Known
  <2>4. \A d \in Clients : Known(d) =>
            Known(d)' \/ started[d] + DUPLICATE_HANDSHAKE_WINDOW < now
    BY <1>5, <2>1 DEF Known
  <2> QED
    BY <1>1, <1>3, <1>4, <1>6, <1>8, <2>1, <2>2, <2>3, <2>4
<1>9. CASE ~ IsRecent(c)
  <2> DEFINE h == [key |-> c, seen_at |-> now]
             all == Append(Fresh, h)
  <2>1. h \in Handshake /\ h.key = c
    BY <1>0 DEF Handshake
  <2> HIDE DEF h
  <2>2. /\ all \in Seq(Handshake) /\ DOMAIN all = 1 .. l - m + 1
        /\ \A i \in 1 .. l - m : all[i] = Fresh[i]
        /\ all[l - m + 1] = h
    BY <1>1, <2>1, AppendProperties, LenProperties
  <2>3. recent' = IF Len(all) > MAX_RECENT_HANDSHAKES THEN Tail(all) ELSE all
    BY <1>9 DEF ReaderHello, Remember, h
  <2> HIDE DEF all
  <2>4. /\ \A i \in DOMAIN all : i \in DOMAIN Fresh \/ i = l - m + 1
        /\ \A i \in DOMAIN Fresh : i \in DOMAIN all /\ all[i] = Fresh[i]
        /\ l - m + 1 \in DOMAIN all
    BY <1>1, <1>2, <2>2
  <2>5. \A i \in DOMAIN Fresh : Fresh[i].key # c
    BY <1>9 DEF IsRecent
  <2>6. \A i, j \in DOMAIN all : all[i].key = all[j].key => i = j
    BY <1>4, <2>1, <2>2, <2>4, <2>5
  <2>7. Len(all) <= MAX_RECENT_HANDSHAKES /\ Len(all) \in Nat
    BY <2>2, <2>6, KeysFit, LenProperties
  <2>8. recent' = all
    BY <2>3, <2>7
  <2>9. Known(c)'
    BY <2>1, <2>2, <2>4, <2>8 DEF Known
  <2>10. \A d \in Clients : Known(d) =>
            Known(d)' \/ started[d] + DUPLICATE_HANDSHAKE_WINDOW < now
    BY <1>5, <2>4, <2>8 DEF Known
  <2>11. \A i \in DOMAIN all : all[i] = h \/ \E j \in DOMAIN recent : all[i] = recent[j]
    BY <1>3, <2>2, <2>4
  <2> QED
    BY <1>7, <1>9, <2>2, <2>6, <2>7, <2>8, <2>9, <2>10, <2>11 DEF h
<1> QED
  BY <1>8, <1>9

\* A HELLO that is taken for a new one is of a client without a session.
LEMMA ReaderHelloKeepsIInv ==
    ASSUME RemembersEnough, IInv, NEW c \in Clients, ReaderHello(c)
    PROVE  IInv'
<1> USE ListenerAssumption
<1>0. TypeOK /\ now \in Nat
  BY TypeAndTime
<1>1. /\ reader = Waiting /\ now <= hello_until[c] /\ acked' = acked \cup {c}
      /\ reader' = [at |-> "burst", for |-> c, duplicate |-> IsRecent(c)]
      /\ UNCHANGED <<now, client, started, hello_until, channel, accepting,
                     sessions, active, bridges, routed, failures>>
  BY DEF ReaderHello, clientVars, sessionVars
<1>2. client[c] # "new" /\ ~ (started[c] + DUPLICATE_HANDSHAKE_WINDOW < now)
  BY <1>0, <1>1 DEF IInv, HellosAreTimely, TypeOK
<1>3. /\ recent' \in Seq(Handshake) /\ Len(recent') <= MAX_RECENT_HANDSHAKES
      /\ \A i \in DOMAIN recent' :
             \/ recent'[i] = [key |-> c, seen_at |-> now]
             \/ \E j \in DOMAIN recent : recent'[i] = recent[j]
      /\ \A i, j \in DOMAIN recent' : recent'[i].key = recent'[j].key => i = j
      /\ Known(c)'
      /\ \A d \in Clients : Known(d) =>
             Known(d)' \/ started[d] + DUPLICATE_HANDSHAKE_WINDOW < now
      /\ IsRecent(c) => Known(c)
      /\ ~ IsRecent(c) /\ Known(c) => started[c] + DUPLICATE_HANDSHAKE_WINDOW < now
  BY WhatIsRemembered
<1>4. IsRecent(c) \in BOOLEAN
  BY DEF IsRecent
<1>5. /\ reader' \in Burst /\ reader'.for = c /\ reader'.duplicate = IsRecent(c)
      /\ \A d \in Clients : ~ InBurst(d)
      /\ \A d \in Clients : InBurst(d)' <=> d = c
  BY <1>1, <1>4, NotInBurst DEF Burst, InBurst
<1>6. ~ IsRecent(c) => ~ HasSession(c)
  BY <1>2, <1>3 DEF IInv, HandledIsKnown
<1>7. IsRecent(c) => c \in acked
  BY <1>3 DEF IInv, RecentIsSound, Known
<1>8. TypeOK'
  BY <1>0, <1>1, <1>3, <1>5 DEF TypeOK
<1>9. HellosAreTimely' /\ InboxIsKept'
  BY <1>1 DEF IInv, HellosAreTimely, InboxIsKept
<1>10. RecentIsSound'
  <2>1. started[c] <= now
    BY <1>0, <1>1, <1>2 DEF IInv, HellosAreTimely
  <2>2. ASSUME NEW i \in DOMAIN recent'
        PROVE  /\ client'[recent'[i].key] # "new" /\ recent'[i].key \in acked'
               /\ started'[recent'[i].key] <= recent'[i].seen_at
    <3>1. CASE recent'[i] = [key |-> c, seen_at |-> now]
      BY <1>1, <1>2, <2>1, <3>1
    <3>2. CASE \E j \in DOMAIN recent : recent'[i] = recent[j]
      BY <1>1, <3>2 DEF IInv, RecentIsSound
    <3> QED
      BY <1>3, <3>1, <3>2
  <2> QED
    BY <1>3, <2>2 DEF RecentIsSound
<1>11. HandledIsKnown'
  BY <1>1, <1>2, <1>3, <1>5 DEF IInv, HandledIsKnown, HasSession
<1>12. OneSession'
  BY <1>1, <1>5, <1>6 DEF IInv, OneSession, HasSession
<1>13. AckedIsServed'
  BY <1>1, <1>5, <1>7 DEF IInv, AckedIsServed, Failed
<1> QED
  BY <1>8, <1>9, <1>10, <1>11, <1>12, <1>13 DEF IInv

\* A burst that ends without a session leaves its client served, or has failed.
LEMMA BurstOverKeepsIInv ==
    ASSUME IInv, TypeOK', reader \in Burst, reader' = Waiting,
           UNCHANGED <<now, client, started, hello_until, acked, recent, sessions, active, routed>>,
           reader.duplicate \/ Failed', Failed => Failed'
    PROVE  IInv'
<1>1. \A c \in Clients : ~ InBurst(c)'
  BY NotInBurst DEF InBurst, Burst
<1>2. HellosAreTimely' /\ RecentIsSound' /\ InboxIsKept'
  BY DEF IInv, HellosAreTimely, RecentIsSound, InboxIsKept
<1>3. HandledIsKnown' /\ OneSession'
  BY <1>1 DEF IInv, HandledIsKnown, OneSession, HasSession, Known
<1>4. AckedIsServed'
  BY <1>1 DEF IInv, AckedIsServed, InBurst
<1> QED
  BY <1>2, <1>3, <1>4 DEF IInv

\* A burst that ends with the session of its client, the first one.
LEMMA NewSessionKeepsIInv ==
    ASSUME IInv, TypeOK', reader \in Burst, ~ reader.duplicate, reader' \in {Waiting, Gone},
           sessions' = Append(sessions, reader.for),
           active' = [active EXCEPT ![reader.for] = Len(sessions) + 1],
           UNCHANGED <<now, client, started, hello_until, acked, recent, routed>>,
           Failed => Failed'
    PROVE  IInv'
<1> DEFINE c == reader.for
           n == Len(sessions)
<1>0. TypeOK
  BY DEF IInv
<1>1. c \in Clients /\ InBurst(c)
  BY DEF Burst, InBurst
<1>2. ~ HasSession(c)
  BY <1>1 DEF IInv, OneSession
<1>3. /\ n \in Nat /\ DOMAIN sessions = 1 .. n /\ DOMAIN sessions' = 1 .. n + 1
      /\ \A i \in 1 .. n : sessions'[i] = sessions[i]
      /\ sessions'[n + 1] = c
  BY <1>0, <1>1, SessionKinds, AppendProperties, LenProperties
<1>4. active \in [Clients -> 0 .. n] /\ active' = [active EXCEPT ![c] = n + 1]
  BY <1>0 DEF TypeOK
<1> HIDE DEF n, c
<1>5. \A i \in DOMAIN sessions' : i \in DOMAIN sessions \/ i = n + 1
  BY <1>3
<1>6. \A d \in Clients : ~ InBurst(d)'
  BY NotInBurst DEF InBurst
<1>7. active[c] = 0 /\ routed[c] = {}
  <2>1. active[c] # 0 => active[c] \in DOMAIN sessions
    BY <1>1, <1>3, <1>4
  <2>2. active[c] = 0
    BY <1>1, <1>2, <2>1 DEF IInv, InboxIsKept, HasSession
  <2> QED
    BY <1>1, <2>2 DEF IInv, InboxIsKept
<1>8. HellosAreTimely' /\ RecentIsSound'
  BY DEF IInv, HellosAreTimely, RecentIsSound
<1>9. HandledIsKnown'
  <2>1. \A d \in Clients : HasSession(d)' => HasSession(d) \/ InBurst(d)
    BY <1>1, <1>3, <1>5 DEF HasSession
  <2> QED
    BY <1>6, <2>1 DEF IInv, HandledIsKnown, Known
<1>10. OneSession'
  BY <1>2, <1>3, <1>5, <1>6 DEF IInv, OneSession, HasSession
<1>11. InboxIsKept'
  <2>1. ASSUME NEW d \in Clients, d # c
        PROVE  active'[d] = active[d] /\ (active[d] # 0 => sessions'[active[d]] = sessions[active[d]])
    BY <1>3, <1>4, <2>1
  <2>2. active'[c] = n + 1 /\ sessions'[n + 1] = c
    BY <1>1, <1>3, <1>4
  <2> QED
    BY <1>7, <2>1, <2>2 DEF IInv, InboxIsKept
<1>12. AckedIsServed'
  <2>1. \A d \in Clients : d # c => active'[d] = active[d] /\ ~ InBurst(d)
    BY <1>1, <1>4 DEF InBurst
  <2>2. active'[c] # 0
    BY <1>1, <1>3, <1>4
  <2> QED
    BY <1>6, <2>1, <2>2 DEF IInv, AckedIsServed
<1> QED
  BY <1>8, <1>9, <1>10, <1>11, <1>12 DEF IInv

\* The types after a burst that makes a session.
LEMMA NewSessionKeepsType ==
    ASSUME TypeOK, reader \in Burst, reader' \in {Waiting, Gone},
           sessions' = Append(sessions, reader.for),
           active' = [active EXCEPT ![reader.for] = Len(sessions) + 1],
           NEW r \in -1 .. Len(sessions) + 1, Report(r), failures' \in 0 .. MaxFailures,
           UNCHANGED <<now, client, started, hello_until, acked, recent, accepting, bridges, routed>>
    PROVE  TypeOK'
<1> DEFINE n == Len(sessions)
           A == -1 .. n
           B == -1 .. n + 1
<1>1. reader.for \in Clients
  BY DEF Burst
<1>2. n \in Nat /\ sessions' \in Seq(Clients) /\ Len(sessions') = n + 1
  BY <1>1, SessionKinds, AppendProperties
<1>3. channel' \in Seq(B)
  <2>1. channel \in Seq(A) /\ A \subseteq B /\ r \in B
    BY <1>2 DEF TypeOK
  <2> HIDE DEF A, B
  <2>2. channel \in Seq(B)
    BY <2>1, SeqMonotonic
  <2> QED
    BY <2>1, <2>2, AppendProperties DEF Report
<1>4. active' \in [Clients -> 0 .. n + 1]
  BY <1>1, <1>2 DEF TypeOK
<1>5. bridges \subseteq 1 .. n + 1 /\ routed \in [Clients -> SUBSET (1 .. n + 1)]
  <2>1. 1 .. n \subseteq 1 .. n + 1
    BY <1>2
  <2> QED
    BY <2>1 DEF TypeOK
<1> QED
  BY <1>2, <1>3, <1>4, <1>5 DEF TypeOK

LEMMA BurstDoneKeepsIInv == ASSUME IInv, BurstDone PROVE IInv'
<1>0. TypeOK
  BY DEF IInv
<1>1. /\ reader \in Burst
      /\ UNCHANGED <<now, client, started, hello_until, acked, recent, accepting, bridges,
                     routed, failures>>
  BY DEF BurstDone, clientVars
<1>2. CASE reader.duplicate
  <2>1. reader' = Waiting /\ UNCHANGED <<sessions, active, channel>>
    BY <1>2 DEF BurstDone
  <2>2. TypeOK'
    BY <1>0, <1>1, <2>1 DEF TypeOK
  <2> QED
    BY <1>1, <1>2, <2>1, <2>2, BurstOverKeepsIInv DEF Failed
<1>3. CASE ~ reader.duplicate
  <2>1. /\ reader' \in {Waiting, Gone} /\ sessions' = Append(sessions, reader.for)
        /\ active' = [active EXCEPT ![reader.for] = Len(sessions) + 1]
        /\ Report(Len(sessions) + 1)
    BY <1>3 DEF BurstDone, MakeSession
  <2>2. Len(sessions) + 1 \in -1 .. Len(sessions) + 1
    BY <1>0, SessionKinds
  <2>3. failures' \in 0 .. MaxFailures
    BY <1>0, <1>1 DEF TypeOK
  <2>4. TypeOK'
    BY <1>0, <1>1, <2>1, <2>2, <2>3, NewSessionKeepsType
  <2> QED
    BY <1>1, <1>3, <2>1, <2>4, NewSessionKeepsIInv DEF Failed
<1> QED
  BY <1>2, <1>3

LEMMA BurstFailsKeepsIInv == ASSUME IInv, BurstFails PROVE IInv'
<1>0. TypeOK
  BY DEF IInv
<1>1. /\ reader \in Burst /\ reader' = Waiting
      /\ UNCHANGED <<now, client, started, hello_until, acked, recent, accepting, bridges, routed>>
  BY DEF BurstFails, clientVars
<1>2. PICK r \in {Failure, TimedOut} :
          /\ ReportFailure(r)
          /\ \/ UNCHANGED <<sessions, active>>
             \/ /\ ~ reader.duplicate
                /\ sessions' = Append(sessions, reader.for)
                /\ active' = [active EXCEPT ![reader.for] = Len(sessions) + 1]
  BY DEF BurstFails
<1>3. channel' \in Seq(-1 .. Len(sessions)) /\ failures' \in 0 .. MaxFailures /\ Failed'
  BY <1>0, <1>2, ReportFailureKeepsType
<1>4. CASE UNCHANGED <<sessions, active>>
  <2>1. TypeOK'
    BY <1>0, <1>1, <1>3, <1>4 DEF TypeOK
  <2> QED
    BY <1>1, <1>3, <1>4, <2>1, BurstOverKeepsIInv
<1>5. CASE /\ ~ reader.duplicate
           /\ sessions' = Append(sessions, reader.for)
           /\ active' = [active EXCEPT ![reader.for] = Len(sessions) + 1]
  <2>1. r \in -1 .. Len(sessions) + 1 /\ Report(r)
    BY <1>0, <1>2, SessionKinds DEF Failure, TimedOut, ReportFailure
  <2>2. TypeOK'
    BY <1>0, <1>1, <1>3, <1>5, <2>1, NewSessionKeepsType
  <2> QED
    BY <1>1, <1>3, <1>5, <2>2, NewSessionKeepsIInv
<1> QED
  BY <1>2, <1>4, <1>5

LEMMA NextKeepsIInv == RemembersEnough /\ IInv /\ [Next]_vars => IInv'
<1> SUFFICES ASSUME RemembersEnough, IInv, [Next]_vars PROVE IInv'
  OBVIOUS
<1>1. CASE UNCHANGED vars
  <2>1. TypeOK'
    BY <1>1 DEF vars, IInv, TypeOK
  <2> QED
    BY <1>1, <2>1, QuietKeepsIInv DEF vars, Failed
<1>2. ASSUME NEW c \in Clients,
             \/ Connect(c) \/ RepeatHello(c) \/ ConnectOk(c) \/ ConnectTimeout(c)
             \/ ReaderHello(c) \/ ReaderRoute(c)
      PROVE  IInv'
  BY <1>2, ConnectKeepsIInv, ReaderHelloKeepsIInv, ReaderRouteKeepsIInv
<1>3. CASE ReaderBadHello \/ ReaderFails \/ ReaderStops
  BY <1>3, ReaderEndsKeepIInv
<1>4. CASE BurstDone \/ BurstFails
  BY <1>4, BurstDoneKeepsIInv, BurstFailsKeepsIInv
<1>5. CASE Accept \/ Shutdown \/ Tick
  BY <1>5, AcceptLoopKeepsIInv, TickKeepsIInv
<1> QED
  BY <1>1, <1>2, <1>3, <1>4, <1>5 DEF Next

\* The packets of a connection all go to one session, whatever HELLOs are late or
\* repeated, and a client whose connect() succeeded has one unless a failure was
\* reported (is_duplicate_handshake, run_listener_reader).
THEOREM HandshakesStaySound == ASSUME RemembersEnough PROVE Spec => []HandshakesAreSound
<1>1. IInv => OneSessionPerConnection
  BY DEF IInv, InboxIsKept, OneSessionPerConnection
<1>2. IInv => AckMeansSession
  BY DEF IInv, AckedIsServed, AckMeansSession, InBurst
<1>3. IInv => HandshakesAreSound
  BY <1>1, <1>2 DEF HandshakesAreSound
<1> QED
  BY <1>3, InitIInv, NextKeepsIInv, PTL DEF Spec
=============================================================================
