-------------------------- MODULE BrowserProxyProofs --------------------------
(***************************************************************************)
(* For every set of grants, every number of browsers, starts, stops and    *)
(* chunks: the pool of the browser proxy stays sound, and no response is   *)
(* followed by an error page.                                              *)
(***************************************************************************)
EXTENDS BrowserProxy, FiniteSetTheorems, SequenceTheorems, WellFoundedInduction, TLAPS

\* The services are finite in number, and so are the ids of streams.
LEMMA FiniteIds ==
    /\ IsFiniteSet(ServiceIds) /\ Cardinality(ServiceIds) \in Nat /\ Cardinality(Browsers) \in Nat
    /\ StreamIds = 1 .. Cardinality(Browsers) + Cardinality(ServiceIds) + 1
<1> DEFINE f == [g \in Grants |-> g.service]
<1>1. f \in Surjection(Grants, ServiceIds)
  BY DEF Surjection, ServiceIds
<1>2. IsFiniteSet(ServiceIds)
  BY <1>1, ProxyAssumption, FS_Surjection
<1>3. Cardinality(ServiceIds) \in Nat /\ Cardinality(Browsers) \in Nat
  BY <1>2, ProxyAssumption, FS_CardinalityType
<1> QED
  BY <1>2, <1>3 DEF StreamIds, maxPerService

LEMMA LeastExists ==
    ASSUME NEW S \in SUBSET Nat, S # {}
    PROVE  \E i \in S : \A k \in S : i <= k
<1> DEFINE R == {p \in Nat \X Nat : p[1] < p[2]}
<1>1. IsWellFoundedOn(R, Nat)
  BY NatLessThanWellFounded DEF OpToRel
<1> HIDE DEF R
<1>2. PICK i \in S : \A k \in S : ~ (<<k, i>> \in R)
  BY <1>1, WFMin, Zenon
<1>3. ASSUME NEW k \in S PROVE i <= k
  <2>1. i \in Nat /\ k \in Nat /\ <<k, i>> \notin R
    BY <1>2
  <2> QED
    BY <2>1 DEF R
<1> QED
  BY <1>3

\* What short sequences hold.
LEMMA ElemsOf ==
    /\ Elems(<<>>) = {} /\ \A x : Elems(<<x>>) = {x}
    /\ \A S : \A q \in Seq(S) : Len(q) = 1 => Elems(q) = {Head(q)} /\ Tail(q) = <<>> /\ q = <<Head(q)>>
<1>1. Elems(<<>>) = {} /\ \A x : Elems(<<x>>) = {x}
  BY DEF Elems
<1>2. ASSUME NEW S, NEW q \in Seq(S), Len(q) = 1
      PROVE  Elems(q) = {Head(q)} /\ Tail(q) = <<>> /\ q = <<Head(q)>>
  <2>1. q = <<q[1]>> /\ Head(q) = q[1]
    BY <1>2
  <2>2. Tail(q) = <<>>
    <3>1. q # <<>>
      BY <1>2
    <3>2. Tail(q) \in Seq(S) /\ Len(Tail(q)) = 0
      BY <1>2, <3>1, HeadTailProperties
    <3> QED
      BY <3>2, EmptySeq
  <2> QED
    BY <1>1, <2>1, <2>2
<1> QED
  BY <1>1, <1>2

LEMMA ElemsOfAppend ==
    ASSUME NEW S, NEW q \in Seq(S), NEW x \in S
    PROVE  Elems(Append(q, x)) \subseteq Elems(q) \cup {x}
<1>1. /\ Len(q) \in Nat /\ Len(Append(q, x)) = Len(q) + 1
      /\ \A i \in 1 .. Len(q) : Append(q, x)[i] = q[i]
      /\ Append(q, x)[Len(q) + 1] = x
  BY AppendProperties, LenProperties
<1> QED
  BY <1>1 DEF Elems

\* There are as many ids as owners, and one more: a new stream finds a free one.
LEMMA NewStreamIsFree ==
    ASSUME TypeOK, Owned
    PROVE  NewStream \in StreamIds /\ NewStream \notin DOMAIN live
<1> DEFINE Serving == {b \in Browsers : active(b)}
           Stocked == {s \in ServiceIds : pool[s] # <<>>}
           A == {conn[b].stream : b \in Serving}
           P == {pool[s][1] : s \in Stocked}
           f == [b \in Serving |-> conn[b].stream]
           g == [s \in Stocked |-> pool[s][1]]
<1>1. IsFiniteSet(Serving) /\ Cardinality(Serving) <= Cardinality(Browsers)
  BY ProxyAssumption, FS_Subset
<1>2. IsFiniteSet(Stocked) /\ Cardinality(Stocked) <= Cardinality(ServiceIds)
  BY FiniteIds, FS_Subset
<1>3. IsFiniteSet(A) /\ Cardinality(A) <= Cardinality(Serving)
  <2>1. f \in Surjection(Serving, A)
    BY DEF Surjection
  <2> QED
    BY <1>1, <2>1, FS_Surjection
<1>4. IsFiniteSet(P) /\ Cardinality(P) <= Cardinality(Stocked)
  <2>1. g \in Surjection(Stocked, P)
    BY DEF Surjection
  <2> QED
    BY <1>2, <2>1, FS_Surjection
<1>5. DOMAIN live \subseteq A \cup P
  <2> SUFFICES ASSUME NEW i \in DOMAIN live, i \notin A PROVE i \in P
    OBVIOUS
  <2>1. PooledIn(i) # {}
    BY DEF Owned, ActiveOn
  <2>2. PICK s \in ServiceIds : i \in Elems(pool[s])
    BY <2>1 DEF PooledIn
  <2>3. pool[s] \in Seq(StreamIds) /\ Len(pool[s]) <= 1
    BY DEF TypeOK, maxPerService
  <2>4. i = pool[s][1] /\ pool[s] # <<>>
    BY <2>2, <2>3 DEF Elems
  <2> QED
    BY <2>4
<1>6. IsFiniteSet(A \cup P) /\ Cardinality(A \cup P) <= Cardinality(A) + Cardinality(P)
  <2>1. /\ IsFiniteSet(A \cup P) /\ IsFiniteSet(A \cap P)
        /\ Cardinality(A \cup P) = Cardinality(A) + Cardinality(P) - Cardinality(A \cap P)
    BY <1>3, <1>4, FS_Union, FS_Subset, A \cap P \in SUBSET A
  <2>2. Cardinality(A) \in Nat /\ Cardinality(P) \in Nat /\ Cardinality(A \cap P) \in Nat
    BY <1>3, <1>4, <2>1, FS_CardinalityType
  <2> QED
    BY <2>1, <2>2
<1> HIDE DEF A, P, Serving, Stocked
<1>7. StreamIds \ DOMAIN live # {}
  <2> SUFFICES ASSUME StreamIds \subseteq DOMAIN live PROVE FALSE
    OBVIOUS
  <2>1. StreamIds \in SUBSET (A \cup P)
    BY <1>5
  <2>2. Cardinality(StreamIds) <= Cardinality(A \cup P)
    BY <1>6, <2>1, FS_Subset
  <2>3. Cardinality(StreamIds) = Cardinality(Browsers) + Cardinality(ServiceIds) + 1
    <3> DEFINE n == Cardinality(Browsers) + Cardinality(ServiceIds) + 1
    <3>1. n \in Nat /\ n >= 1 /\ StreamIds = 1 .. n
      BY FiniteIds
    <3> HIDE DEF n
    <3>2. Cardinality(1 .. n) = n
      BY <3>1, FS_Interval
    <3> QED
      BY <3>1, <3>2 DEF n
  <2>4. /\ Cardinality(A) \in Nat /\ Cardinality(P) \in Nat /\ Cardinality(A \cup P) \in Nat
        /\ Cardinality(Serving) \in Nat /\ Cardinality(Stocked) \in Nat
    BY <1>1, <1>2, <1>3, <1>4, <1>6, FS_CardinalityType
  <2> QED
    BY <1>1, <1>2, <1>3, <1>4, <1>6, <2>2, <2>3, <2>4, FiniteIds
<1>8. (StreamIds \ DOMAIN live) \in SUBSET Nat
  BY FiniteIds
<1>9. \E i \in StreamIds \ DOMAIN live : \A k \in StreamIds \ DOMAIN live : i <= k
  BY <1>7, <1>8, LeastExists
<1> QED
  BY <1>9 DEF NewStream

-----------------------------------------------------------------------------
(***************************************************************************)
(* What becomes of one connection.                                         *)
(***************************************************************************)
LEMMA ConnFields ==
    ASSUME NEW c \in Conn
    PROVE  /\ c.st \in {"new", "queued", "waiting", "udp", "tcp", "active", "closed", "dropped"}
           /\ c.grant \in Grants \cup {NoGrant} /\ c.gen \in Nat /\ c.known \in BOOLEAN
           /\ c.stream \in StreamIds \cup {0} /\ c.bytes \in 0 .. MaxChunks /\ c.timer \in BOOLEAN
           /\ c.got \in Seq({"page", "data"})
BY DEF Conn

LEMMA GotGrows ==
    ASSUME NEW c \in Conn, NEW x \in {"page", "data"}
    PROVE  c.got \in Seq({"page", "data"}) /\ Append(c.got, x) \in Seq({"page", "data"})
<1>1. c.got \in Seq({"page", "data"})
  BY ConnFields
<1> DEFINE q == c.got
<1>2. q \in Seq({"page", "data"})
  BY <1>1
<1> HIDE DEF q
<1>3. Append(q, x) \in Seq({"page", "data"})
  BY <1>2, AppendProperties
<1> QED
  BY <1>1, <1>3 DEF q

LEMMA Activated ==
    ASSUME NEW c \in Conn, NEW i \in StreamIds, NEW d, d = activatePreparedStream(c, i)
    PROVE  /\ d \in Conn /\ d.st = "active" /\ d.stream = i
           /\ NoPageAfter(c) /\ c.bytes = 0 => NoPageAfter(d)
<1>1. d \in Conn
  BY DEF Conn, activatePreparedStream
<1>2. d.st = "active" /\ d.stream = i /\ d.got = c.got /\ d.bytes = c.bytes
  BY DEF Conn, activatePreparedStream
<1> QED
  BY <1>1, <1>2 DEF NoPageAfter

\* A page is added to what holds no data.
LEMMA PageIsAdded ==
    ASSUME NEW q \in Seq({"page", "data"}), \A i \in 1 .. Len(q) : q[i] # "data"
    PROVE  /\ Append(q, "page") \in Seq({"page", "data"})
           /\ \A i \in 1 .. Len(Append(q, "page")) : Append(q, "page")[i] # "data"
OBVIOUS

LEMMA Paged ==
    ASSUME NEW c \in Conn, NEW d, d = sendErrorPage(c)
    PROVE  /\ d \in Conn /\ d.st = "closed"
           /\ NoPageAfter(c) /\ c.bytes = 0 => NoPageAfter(d)
<1>1. c.got \in Seq({"page", "data"}) /\ Append(c.got, "page") \in Seq({"page", "data"})
  BY GotGrows
<1>2. d \in Conn
  BY <1>1 DEF Conn, sendErrorPage
<1>3. d.st = "closed" /\ d.got = Append(c.got, "page") /\ d.bytes = c.bytes
  BY DEF Conn, sendErrorPage
<1>4. ASSUME NoPageAfter(c), c.bytes = 0 PROVE NoPageAfter(d)
  <2>1. \A i \in 1 .. Len(c.got) : c.got[i] # "data"
    BY <1>4 DEF NoPageAfter
  <2>2. \A i \in 1 .. Len(d.got) : d.got[i] # "data"
    BY <1>1, <1>3, <2>1, PageIsAdded
  <2> QED
    BY <1>3, <1>4, <2>2 DEF NoPageAfter
<1> QED
  BY <1>2, <1>3, <1>4

LEMMA ViaTcp ==
    ASSUME NEW c \in Conn, NEW d, d = handleBrowserConnectionViaTCP(c)
    PROVE  /\ d \in Conn /\ d.st \in {"tcp", "closed"} /\ (d.st = "tcp" => d.grant = c.grant)
           /\ NoPageAfter(c) /\ c.bytes = 0 => NoPageAfter(d)
<1>1. CASE c.grant.tcp
  <2>1. d = [c EXCEPT !.st = "tcp", !.known = TRUE]
    BY <1>1 DEF handleBrowserConnectionViaTCP
  <2>2. d \in Conn
    BY <2>1 DEF Conn
  <2>3. d.st = "tcp" /\ d.grant = c.grant /\ d.got = c.got /\ d.bytes = c.bytes
    BY <2>1 DEF Conn
  <2> QED
    BY <2>2, <2>3 DEF NoPageAfter
<1>2. CASE ~ c.grant.tcp
  BY <1>2, Paged DEF handleBrowserConnectionViaTCP
<1> QED
  BY <1>1, <1>2

LEMMA Cold ==
    ASSUME NEW c \in Conn, NEW by, NEW d, d = handleBrowserConnectionCold(c, by)
    PROVE  /\ d \in Conn /\ d.st \in {"udp", "tcp", "closed"}
           /\ d.st # "closed" => d.grant = c.grant
           /\ NoPageAfter(c) /\ c.bytes = 0 => NoPageAfter(d)
<1>1. CASE c.grant.service \notin by /\ c.grant.ice
  <2>1. d = [c EXCEPT !.st = "udp", !.known = TRUE]
    BY <1>1 DEF handleBrowserConnectionCold
  <2>2. d \in Conn
    BY <2>1 DEF Conn
  <2>3. d.st = "udp" /\ d.grant = c.grant /\ d.got = c.got /\ d.bytes = c.bytes
    BY <2>1 DEF Conn
  <2> QED
    BY <2>2, <2>3 DEF NoPageAfter
<1>2. CASE ~ (c.grant.service \notin by /\ c.grant.ice)
  <2>1. d = handleBrowserConnectionViaTCP(c)
    BY <1>2 DEF handleBrowserConnectionCold
  <2> QED
    BY <2>1, ViaTcp
<1> QED
  BY <1>1, <1>2

-----------------------------------------------------------------------------
(***************************************************************************)
(* Steps that leave every stream with its owner.                           *)
(***************************************************************************)
\* What ensureWarmedStream does: nothing, or it marks the service and starts a warm-up.
Ensured ==
    \/ UNCHANGED <<warming, jobs>>
    \/ /\ grant # NoGrant /\ warming' = warming \cup {grant.service}
       /\ \E n, k : jobs' = jobs \cup {[n |-> n, gen |-> generation, grant |-> grant, skip |-> k]}

LEMMA EnsuredKeeps ==
    ASSUME TypeOK, GrantIsSet, WarmingIsInFlight, UNCHANGED <<generation, grant>>, Ensured
    PROVE  /\ warming' \subseteq ServiceIds
           /\ \A j \in jobs' : j.gen \in 0 .. generation /\ j.grant \in Grants
           /\ \A j \in jobs' : j.gen = generation => j.grant = grant
           /\ jobs' # {} => grant \in Grants
           /\ \A s \in ServiceIds : InFlight(s) => InFlight(s)'
           /\ WarmingIsInFlight'
<1>1. CASE UNCHANGED <<warming, jobs>>
  BY <1>1 DEF TypeOK, GrantIsSet, WarmingIsInFlight, InFlight
<1>2. CASE ~ UNCHANGED <<warming, jobs>>
  <2>1. grant \in Grants /\ grant.service \in ServiceIds /\ warming' = warming \cup {grant.service}
    BY <1>2 DEF Ensured, TypeOK, ServiceIds
  <2>2. PICK n, k : jobs' = jobs \cup {[n |-> n, gen |-> generation, grant |-> grant, skip |-> k]}
    BY <1>2 DEF Ensured
  <2> DEFINE new == [n |-> n, gen |-> generation, grant |-> grant, skip |-> k]
  <2>3. new.gen = generation /\ new.grant = grant /\ jobs' = jobs \cup {new}
    BY <2>2
  <2> HIDE DEF new
  <2>4. generation \in 0 .. generation
    BY DEF TypeOK
  <2>5. \A s \in ServiceIds : InFlight(s) => InFlight(s)'
    BY <2>3 DEF InFlight
  <2>6. InFlight(grant.service)'
    BY <2>3 DEF InFlight
  <2>7. WarmingIsInFlight'
    BY <2>1, <2>5, <2>6 DEF WarmingIsInFlight, TypeOK
  <2> QED
    BY <2>1, <2>3, <2>4, <2>5, <2>7 DEF TypeOK, GrantIsSet
<1> QED
  BY <1>1, <1>2

\* A connection keeps its stream, or stays without one.
Stays(b) ==
    /\ conn'[b] \in Conn
    /\ conn'[b].st = "active" <=> conn[b].st = "active"
    /\ active(b) => conn'[b].stream = conn[b].stream
    /\ conn[b].st = "waiting" => conn'[b].st = "waiting" /\ conn'[b].grant = conn[b].grant
    /\ conn'[b].st \in {"udp", "tcp"} /\ conn'[b].known => conn'[b].grant = grant
    /\ conn'[b].st # "new" => grant \in Grants

LEMMA OthersStay ==
    ASSUME IInv, NEW b \in Browsers, conn'[b] = conn[b]
    PROVE  Stays(b)
<1>1. conn[b] \in Conn
  BY DEF IInv, TypeOK
<1> QED
  BY <1>1 DEF IInv, Stays, ConnectsForGrant, GrantIsSet

LEMMA OwnersStay ==
    ASSUME Owned, Unshared, UNCHANGED <<pool, live>>,
           \A b \in Browsers : /\ conn'[b].st = "active" <=> conn[b].st = "active"
                               /\ active(b) => conn'[b].stream = conn[b].stream
    PROVE  Owned' /\ Unshared'
<1>1. \A b \in Browsers : active(b)' <=> active(b)
  BY DEF active
<1>2. \A i : ActiveOn(i)' = ActiveOn(i) /\ PooledIn(i)' = PooledIn(i)
  BY <1>1 DEF ActiveOn, PooledIn
<1>3. Owned'
  BY <1>1, <1>2 DEF Owned
<1>4. Unshared'
  BY <1>1 DEF Unshared
<1> QED
  BY <1>3, <1>4

LEMMA StaysKeepsIInv ==
    ASSUME IInv, UNCHANGED <<generation, grant, listening, starts, stops, pool, waiters, live>>,
           starting' \in 0 .. starts, bypass' \subseteq ServiceIds, Ensured,
           conn' = [b \in Browsers |-> conn'[b]], \A b \in Browsers : Stays(b)
    PROVE  IInv'
<1>1. /\ warming' \subseteq ServiceIds
      /\ \A j \in jobs' : j.gen \in 0 .. generation /\ j.grant \in Grants
      /\ \A j \in jobs' : j.gen = generation => j.grant = grant
      /\ jobs' # {} => grant \in Grants
      /\ \A s \in ServiceIds : InFlight(s) => InFlight(s)'
      /\ WarmingIsInFlight'
  BY EnsuredKeeps DEF IInv
<1>2. conn' \in [Browsers -> Conn]
  BY DEF Stays
<1>3. TypeOK'
  BY <1>1, <1>2 DEF IInv, TypeOK
<1>4. Owned' /\ Unshared'
  BY OwnersStay DEF IInv, Stays
<1>5. GrantIsSet'
  BY <1>1 DEF IInv, GrantIsSet, Stays
<1>6. ServedByCurrent' /\ WaitersHaveAWarmup'
  BY <1>1 DEF IInv, ServedByCurrent, WaitersHaveAWarmup
<1>7. ConnectsForGrant'
  <2>1. \A s \in ServiceIds : Elems(waiters[s]) \subseteq Browsers
    BY DEF IInv, TypeOK, Elems
  <2> QED
    BY <2>1 DEF IInv, ConnectsForGrant, Stays
<1> QED
  BY <1>1, <1>3, <1>4, <1>5, <1>6, <1>7 DEF IInv

LEMMA ListenerKeepsIInv ==
    ASSUME IInv, ListenerReady \/ ListenerFails \/ (\E s \in ServiceIds : BypassExpires(s)) \/ UNCHANGED vars
    PROVE  IInv' /\ UNCHANGED conn
<1>1. UNCHANGED <<generation, grant, listening, starts, stops, pool, waiters, live, conn>>
  BY DEF ListenerReady, ListenerFails, BypassExpires, control, vars
<1>2. starting' \in 0 .. starts /\ bypass' \subseteq ServiceIds
  BY DEF ListenerReady, ListenerFails, BypassExpires, control, vars, IInv, TypeOK
<1>3. Ensured
  BY DEF ListenerReady, ListenerFails, BypassExpires, ensureWarmedStream, Ensured, vars
<1>4. conn' = [b \in Browsers |-> conn'[b]]
  BY <1>1 DEF IInv, TypeOK
<1>5. \A b \in Browsers : Stays(b)
  BY <1>1, OthersStay
<1> QED
  BY <1>1, <1>2, <1>3, <1>4, <1>5, StaysKeepsIInv

\* A step of one browser that neither gets nor loses a stream.
LEMMA OneStays ==
    ASSUME IInv, NEW b \in Browsers, UNCHANGED <<control, pool, waiters, live>>,
           bypass' \subseteq ServiceIds, Ensured, NEW c, conn' = [conn EXCEPT ![b] = c], Stays(b)
    PROVE  IInv'
<1>1. conn' = [d \in Browsers |-> conn'[d]] /\ \A d \in Browsers \ {b} : conn'[d] = conn[d]
  BY DEF IInv, TypeOK
<1>2. \A d \in Browsers : Stays(d)
  BY <1>1, OthersStay
<1>3. starting' \in 0 .. starts
  BY DEF control, IInv, TypeOK
<1> QED
  BY <1>1, <1>2, <1>3, StaysKeepsIInv DEF control

LEMMA OnePage ==
    ASSUME NoPageAfterData, TypeOK, NEW b \in Browsers, NEW c, conn' = [conn EXCEPT ![b] = c], NoPageAfter(c)
    PROVE  NoPageAfterData'
<1>1. \A d \in Browsers : conn'[d] = IF d = b THEN c ELSE conn[d]
  BY DEF TypeOK
<1>2. \A d \in Browsers : NoPageAfter(conn'[d])
  BY <1>1 DEF NoPageAfterData
<1> QED
  BY <1>2 DEF NoPageAfterData, NoPageAfter

\* The steps that only change fields of one connection.
LEMMA QuietSteps ==
    ASSUME IInv, NoPageAfterData, NEW b \in Browsers,
           Connects(b) \/ RequestWritten(b) \/ ResponseChunk(b) \/ RequestFails(b) \/ ResponseTimeout(b)
    PROVE  IInv' /\ NoPageAfterData'
<1> DEFINE c == conn[b]
           new(d) == /\ conn' = [conn EXCEPT ![b] = d] /\ d \in Conn /\ NoPageAfter(d)
                     /\ d.st = "active" <=> c.st = "active"
                     /\ d.stream = c.stream /\ d.grant = c.grant /\ d.known = c.known
                     /\ d.st = c.st \/ (Connects(b) /\ c.st = "new" /\ d.st = "queued")
<1>1. conn \in [Browsers -> Conn] /\ c \in Conn /\ NoPageAfter(c)
  BY DEF IInv, TypeOK, NoPageAfterData
<1>2. /\ UNCHANGED <<control, pool, waiters, live, bypass, warming, jobs>>
      /\ c.st # "new" => grant \in Grants
      /\ Connects(b) => listening /\ c.st = "new"
  BY DEF Connects, RequestWritten, ResponseChunk, RequestFails, ResponseTimeout, IInv, GrantIsSet
<1>3. Connects(b) \/ c.st # "new" => grant \in Grants
  BY <1>2 DEF IInv, GrantIsSet
<1>4. \E d : new(d)
  <2>1. CASE Connects(b)
    <3> DEFINE d == [c EXCEPT !.st = "queued"]
    <3>1. d \in Conn /\ d.st = "queued" /\ d.stream = c.stream /\ d.grant = c.grant /\ d.known = c.known
      BY <1>1 DEF Conn
    <3>2. d.got = c.got /\ d.bytes = c.bytes /\ d.rd = c.rd
      BY <1>1 DEF Conn
    <3>3. conn' = [conn EXCEPT ![b] = d] /\ c.st = "new"
      BY <2>1 DEF Connects
    <3>4. NoPageAfter(d)
      BY <1>1, <3>1, <3>2, <3>3 DEF NoPageAfter
    <3> QED
      BY <2>1, <3>1, <3>3, <3>4
  <2>2. CASE RequestWritten(b)
    <3> DEFINE d == [c EXCEPT !.rd = "response"]
    <3>1. d \in Conn /\ d.st = c.st /\ d.stream = c.stream /\ d.grant = c.grant /\ d.known = c.known
      BY <1>1 DEF Conn
    <3>2. d.got = c.got /\ d.bytes = c.bytes /\ d.rd = "response"
      BY <1>1 DEF Conn
    <3>3. conn' = [conn EXCEPT ![b] = d]
      BY <2>2 DEF RequestWritten
    <3>4. NoPageAfter(d)
      BY <1>1, <3>1, <3>2 DEF NoPageAfter
    <3> QED
      BY <3>1, <3>3, <3>4
  <2>3. CASE ResponseChunk(b)
    <3> DEFINE d == [c EXCEPT !.bytes = @ + 1, !.timer = FALSE, !.got = Append(@, "data")]
    <3>1. c.bytes \in 0 .. MaxChunks /\ c.bytes < MaxChunks /\ MaxChunks \in Nat /\ c.rd = "response" /\ c.st = "active"
      BY <1>1, <2>3, ProxyAssumption DEF Conn, ResponseChunk, active
    <3>2. c.got \in Seq({"page", "data"}) /\ Append(c.got, "data") \in Seq({"page", "data"})
      BY <1>1, GotGrows
    <3>3. c.bytes + 1 \in 0 .. MaxChunks /\ c.bytes + 1 # 0
      BY <3>1
    <3>4. d \in Conn
      BY <1>1, <3>2, <3>3 DEF Conn
    <3>5. d.st = c.st /\ d.stream = c.stream /\ d.grant = c.grant /\ d.known = c.known
      BY <1>1 DEF Conn
    <3>6. d.got = Append(c.got, "data") /\ d.bytes = c.bytes + 1 /\ d.rd = c.rd
      BY <1>1 DEF Conn
    <3>7. conn' = [conn EXCEPT ![b] = d]
      BY <2>3 DEF ResponseChunk
    <3> HIDE DEF d
    <3>8. \A i, k \in 1 .. Len(d.got) : i < k /\ d.got[i] = "data" => d.got[k] = "data"
      <4>1. \A i, k \in 1 .. Len(c.got) : i < k /\ c.got[i] = "data" => c.got[k] = "data"
        BY <1>1 DEF NoPageAfter
      <4>2. /\ Len(c.got) \in Nat /\ Len(d.got) = Len(c.got) + 1
            /\ \A i \in 1 .. Len(d.got) : d.got[i] = IF i = Len(c.got) + 1 THEN "data" ELSE c.got[i]
        BY <3>2, <3>6
      <4>3. ASSUME NEW i \in 1 .. Len(d.got), NEW k \in 1 .. Len(d.got), i < k, d.got[i] = "data"
            PROVE  d.got[k] = "data"
        <5>1. CASE k = Len(c.got) + 1
          BY <4>2, <5>1
        <5>2. CASE k # Len(c.got) + 1
          <6>1. i \in 1 .. Len(c.got) /\ k \in 1 .. Len(c.got) /\ i # Len(c.got) + 1
            BY <4>2, <4>3, <5>2
          <6>2. d.got[i] = c.got[i] /\ d.got[k] = c.got[k]
            BY <4>2, <5>2, <6>1
          <6> QED
            BY <4>1, <4>3, <6>1, <6>2
        <5> QED
          BY <5>1, <5>2
      <4> QED
        BY <4>3
    <3>9. NoPageAfter(d)
      BY <3>1, <3>3, <3>5, <3>6, <3>8 DEF NoPageAfter
    <3> QED
      BY <3>4, <3>5, <3>7, <3>9
  <2>4. ASSUME NEW d, c.st = "active", c.bytes = 0, d \in Conn, d.st = c.st, d.bytes = 0,
               d.got = Append(c.got, "page")
        PROVE  NoPageAfter(d)
    <3>1. c.got \in Seq({"page", "data"}) /\ \A i \in 1 .. Len(c.got) : c.got[i] # "data"
      BY <1>1, <2>4 DEF Conn, NoPageAfter
    <3>2. \A i \in 1 .. Len(d.got) : d.got[i] # "data"
      BY <2>4, <3>1, PageIsAdded
    <3> QED
      BY <2>4, <3>2 DEF NoPageAfter
  <2>5. c.got \in Seq({"page", "data"}) /\ Append(c.got, "page") \in Seq({"page", "data"})
    BY <1>1, GotGrows
  <2>6. CASE RequestFails(b)
    <3> DEFINE d == [c EXCEPT !.rd = "over", !.paging = TRUE, !.got = Append(@, "page")]
    <3>1. d \in Conn
      BY <1>1, <2>5 DEF Conn
    <3>2. d.st = c.st /\ d.stream = c.stream /\ d.grant = c.grant /\ d.known = c.known
      BY <1>1 DEF Conn
    <3>3. d.got = Append(c.got, "page") /\ d.bytes = c.bytes
      BY <1>1 DEF Conn
    <3>4. conn' = [conn EXCEPT ![b] = d] /\ c.st = "active" /\ c.rd = "request"
      BY <2>6 DEF RequestFails, sendActiveErrorPage, active
    <3>5. NoPageAfter(d)
      BY <1>1, <2>4, <3>1, <3>2, <3>3, <3>4 DEF NoPageAfter
    <3> QED
      BY <3>1, <3>2, <3>4, <3>5
  <2>7. CASE ResponseTimeout(b) /\ active(b) /\ c.bytes = 0
    <3> DEFINE d == [c EXCEPT !.timer = FALSE, !.paging = TRUE, !.got = Append(@, "page")]
    <3>1. d \in Conn
      BY <1>1, <2>5 DEF Conn
    <3>2. d.st = c.st /\ d.stream = c.stream /\ d.grant = c.grant /\ d.known = c.known
      BY <1>1 DEF Conn
    <3>3. d.got = Append(c.got, "page") /\ d.bytes = c.bytes
      BY <1>1 DEF Conn
    <3>4. conn' = [conn EXCEPT ![b] = d] /\ c.st = "active"
      BY <2>7 DEF ResponseTimeout, active
    <3>5. NoPageAfter(d)
      BY <2>4, <2>7, <3>1, <3>2, <3>3, <3>4
    <3> QED
      BY <3>1, <3>2, <3>4, <3>5
  <2>8. CASE ResponseTimeout(b) /\ ~(active(b) /\ c.bytes = 0)
    <3> DEFINE d == [c EXCEPT !.timer = FALSE]
    <3>1. d \in Conn /\ d.st = c.st /\ d.stream = c.stream /\ d.grant = c.grant /\ d.known = c.known
      BY <1>1 DEF Conn
    <3>2. d.got = c.got /\ d.bytes = c.bytes /\ d.rd = c.rd
      BY <1>1 DEF Conn
    <3>3. conn' = [conn EXCEPT ![b] = d]
      BY <2>8 DEF ResponseTimeout
    <3>4. NoPageAfter(d)
      BY <1>1, <3>1, <3>2 DEF NoPageAfter
    <3> QED
      BY <3>1, <3>3, <3>4
  <2> QED
    BY <2>1, <2>2, <2>3, <2>6, <2>7, <2>8
<1>5. PICK d : new(d)
  BY <1>4
<1>6. conn'[b] = d
  BY <1>1, <1>5
<1>7. Stays(b)
  <2>1. c.st \in {"udp", "tcp"} /\ c.known => c.grant = grant
    BY DEF IInv, ConnectsForGrant
  <2> QED
    BY <1>3, <1>5, <1>6, <2>1 DEF Stays, active
<1>8. bypass' \subseteq ServiceIds /\ Ensured
  BY <1>2 DEF IInv, TypeOK, Ensured
<1>9. IInv'
  BY <1>2, <1>5, <1>7, <1>8, OneStays
<1>10. NoPageAfterData'
  BY <1>5, OnePage DEF IInv
<1> QED
  BY <1>9, <1>10

\* A connection that has not got its stream connects again, is given a page or dropped.
LEMMA ConnectingFails ==
    ASSUME IInv, NoPageAfterData, NEW b \in Browsers,
           \/ UdpFailed(b) \/ TcpFailed(b)
           \/ Connected(b) /\ ~ conn[b].known
    PROVE  IInv' /\ NoPageAfterData'
<1> DEFINE c == conn[b]
<1>1. conn \in [Browsers -> Conn] /\ c \in Conn /\ NoPageAfter(c) /\ c.st \in {"udp", "tcp"}
  BY DEF IInv, TypeOK, NoPageAfterData, UdpFailed, TcpFailed, Connected
<1>2. UNCHANGED <<control, pool, waiters, live, warming, jobs>> /\ grant \in Grants /\ c.bytes = 0
  BY <1>1 DEF UdpFailed, TcpFailed, Connected, IInv, GrantIsSet, NoPageAfter
<1>3. c.known => c.grant = grant
  BY <1>1 DEF IInv, ConnectsForGrant
<1>4. bypass' \subseteq ServiceIds
  <2>1. c.known => c.grant.service \in ServiceIds
    BY <1>2, <1>3 DEF ServiceIds
  <2> QED
    BY <2>1 DEF UdpFailed, TcpFailed, Connected, IInv, TypeOK
<1>5. \E d : /\ conn' = [conn EXCEPT ![b] = d] /\ d \in Conn /\ NoPageAfter(d)
             /\ d.st \in {"tcp", "closed", "dropped"}
             /\ d.st = "tcp" => d.grant = grant
  <2>1. CASE UdpFailed(b) /\ c.known
    <3> DEFINE d == handleBrowserConnectionViaTCP(c)
    <3>1. conn' = [conn EXCEPT ![b] = d]
      BY <2>1 DEF UdpFailed
    <3>2. d \in Conn /\ d.st \in {"tcp", "closed"} /\ (d.st = "tcp" => d.grant = c.grant) /\ NoPageAfter(d)
      BY <1>1, <1>2, ViaTcp
    <3> HIDE DEF d
    <3> QED
      BY <1>3, <2>1, <3>1, <3>2
  <2>2. CASE (UdpFailed(b) \/ Connected(b)) /\ ~ c.known
    <3> DEFINE d == [c EXCEPT !.st = "dropped"]
    <3>1. conn' = [conn EXCEPT ![b] = d]
      BY <2>2 DEF UdpFailed, Connected
    <3>2. d \in Conn /\ d.st = "dropped" /\ d.got = c.got /\ d.bytes = c.bytes
      BY <1>1 DEF Conn
    <3>3. NoPageAfter(d)
      BY <1>1, <1>2, <3>2 DEF NoPageAfter
    <3> QED
      BY <3>1, <3>2, <3>3
  <2>3. CASE TcpFailed(b)
    <3> DEFINE d == sendErrorPage(c)
    <3>1. conn' = [conn EXCEPT ![b] = d]
      BY <2>3 DEF TcpFailed
    <3>2. d \in Conn /\ d.st = "closed" /\ NoPageAfter(d)
      BY <1>1, <1>2, Paged
    <3> HIDE DEF d
    <3> QED
      BY <3>1, <3>2
  <2> QED
    BY <2>1, <2>2, <2>3
<1>6. PICK d : /\ conn' = [conn EXCEPT ![b] = d] /\ d \in Conn /\ NoPageAfter(d)
               /\ d.st \in {"tcp", "closed", "dropped"}
               /\ d.st = "tcp" => d.grant = grant
  BY <1>5
<1>7. conn'[b] = d
  BY <1>1, <1>6
<1>8. Stays(b)
  BY <1>1, <1>2, <1>6, <1>7 DEF Stays, active
<1>9. Ensured
  BY <1>2 DEF Ensured
<1>10. IInv'
  BY <1>2, <1>4, <1>6, <1>8, <1>9, OneStays
<1>11. NoPageAfterData'
  BY <1>6, OnePage DEF IInv
<1> QED
  BY <1>10, <1>11

-----------------------------------------------------------------------------
(***************************************************************************)
(* start and stop: nothing is open afterwards.                             *)
(***************************************************************************)
LEMMA CloseAllClears ==
    ASSUME IInv, NoPageAfterData, CloseAll
    PROVE  /\ live' = <<>> /\ conn' \in [Browsers -> Conn] /\ NoPageAfterData'
           /\ \A b \in Browsers : /\ conn'[b].st \notin {"active", "waiting"} /\ ~ conn'[b].known
                                  /\ conn'[b].st = "new" <=> conn[b].st = "new"
<1> DEFINE gone == (UNION {Elems(pool[s]) : s \in ServiceIds})
                   \cup {conn[b].stream : b \in {x \in Browsers : conn[x].st = "active"}}
<1>1. DOMAIN live \subseteq gone
  <2> SUFFICES ASSUME NEW i \in DOMAIN live PROVE i \in gone
    OBVIOUS
  <2>1. ActiveOn(i) # {} \/ PooledIn(i) # {}
    BY DEF IInv, Owned
  <2>2. CASE ActiveOn(i) # {}
    <3>1. PICK b \in Browsers : conn[b].st = "active" /\ conn[b].stream = i
      BY <2>2 DEF ActiveOn, active
    <3> QED
      BY <3>1
  <2>3. CASE PooledIn(i) # {}
    BY <2>3 DEF PooledIn
  <2> QED
    BY <2>1, <2>2, <2>3
<1>2. live' = [i \in {} |-> live[i]]
  <2>1. DOMAIN live \ gone = {}
    BY <1>1
  <2>2. live' = [i \in DOMAIN live \ gone |-> live[i]]
    BY DEF CloseAll, Without
  <2> QED
    BY <2>1, <2>2
<1>3. live' = <<>>
  BY <1>2
<1>4. ASSUME NEW b \in Browsers
      PROVE  /\ conn'[b] \in Conn /\ NoPageAfter(conn'[b])
             /\ conn'[b].st \notin {"active", "waiting"} /\ ~ conn'[b].known
             /\ conn'[b].st = "new" <=> conn[b].st = "new"
  <2> DEFINE c == conn[b]
             d == [c EXCEPT !.known = FALSE, !.st = IF @ \in {"waiting", "active"} THEN "closed" ELSE @]
  <2>1. c \in Conn /\ NoPageAfter(c)
    BY DEF IInv, TypeOK, NoPageAfterData
  <2>2. conn'[b] = d
    BY DEF CloseAll
  <2>3. d.st = (IF c.st \in {"waiting", "active"} THEN "closed" ELSE c.st) /\ ~ d.known
    BY <2>1 DEF Conn
  <2>4. d.got = c.got /\ d.bytes = c.bytes /\ d.rd = c.rd
    BY <2>1 DEF Conn
  <2>5. d \in Conn
    BY <2>1 DEF Conn
  <2>6. NoPageAfter(d)
    BY <2>1, <2>3, <2>4 DEF NoPageAfter
  <2> HIDE DEF d
  <2> QED
    BY <2>2, <2>3, <2>5, <2>6
<1>5. conn' \in [Browsers -> Conn]
  <2>1. conn' = [b \in Browsers |-> conn'[b]]
    BY DEF CloseAll
  <2> QED
    BY <1>4, <2>1
<1>6. NoPageAfterData'
  BY <1>4 DEF NoPageAfterData, NoPageAfter
<1> QED
  BY <1>3, <1>4, <1>5, <1>6

LEMMA StartStopKeepIInv ==
    ASSUME IInv, NoPageAfterData, stop \/ \E g \in Grants : start(g)
    PROVE  IInv' /\ NoPageAfterData'
<1> USE ProxyAssumption
<1>1. CloseAll /\ jobs' = jobs
  BY DEF start, stop
<1>2. /\ live' = <<>> /\ conn' \in [Browsers -> Conn] /\ NoPageAfterData'
      /\ \A b \in Browsers : /\ conn'[b].st \notin {"active", "waiting"} /\ ~ conn'[b].known
                             /\ conn'[b].st = "new" <=> conn[b].st = "new"
  BY <1>1, CloseAllClears
<1>3. /\ pool' = [s \in ServiceIds |-> <<>>] /\ waiters' = [s \in ServiceIds |-> <<>>]
      /\ warming' = {} /\ bypass' = {}
  BY <1>1 DEF CloseAll
<1>4. /\ generation' \in Nat /\ generation < generation'
      /\ starts' \in 0 .. MaxStarts /\ stops' \in 0 .. MaxStops /\ starting' \in 0 .. starts'
      /\ grant' \in Grants \cup {NoGrant} /\ listening' \in BOOLEAN
  <2>1. /\ generation \in Nat /\ starts \in 0 .. MaxStarts /\ stops \in 0 .. MaxStops /\ starting \in 0 .. starts
        /\ grant \in Grants \cup {NoGrant}
    BY DEF IInv, TypeOK
  <2>2. CASE stop
    <3>1. /\ stops < MaxStops /\ generation' = generation + 1 /\ listening' = FALSE /\ stops' = stops + 1
          /\ starting' \in 0 .. starting /\ UNCHANGED <<grant, starts>>
      BY <2>2 DEF stop
    <3>2. stops + 1 \in 0 .. MaxStops /\ generation + 1 \in Nat /\ generation < generation + 1
      BY <2>1, <3>1
    <3>3. starting' \in 0 .. starts
      BY <2>1, <3>1
    <3> QED
      BY <2>1, <3>1, <3>2, <3>3
  <2>3. ASSUME NEW g \in Grants, start(g)
        PROVE  /\ generation' \in Nat /\ generation < generation'
               /\ starts' \in 0 .. MaxStarts /\ stops' \in 0 .. MaxStops /\ starting' \in 0 .. starts'
               /\ grant' \in Grants \cup {NoGrant} /\ listening' \in BOOLEAN
    <3>1. /\ starts < MaxStarts /\ generation' = generation + 2 /\ grant' = g /\ listening' = TRUE
          /\ starts' = starts + 1 /\ stops' = stops
      BY <2>3 DEF start
    <3>2. PICK k \in 0 .. starting : starting' = k + 1
      BY <2>3 DEF start
    <3> QED
      BY <2>1, <3>1, <3>2
  <2> QED
    BY <2>2, <2>3
<1>5. grant' \in Grants
  <2>1. CASE stop
    BY <2>1 DEF stop, IInv, GrantIsSet
  <2>2. CASE \E g \in Grants : start(g)
    BY <2>2 DEF start
  <2> QED
    BY <2>1, <2>2
<1>6. TypeOK'
  <2>1. pool' \in [ServiceIds -> Seq(StreamIds)] /\ \A s \in ServiceIds : Len(pool'[s]) <= maxPerService
    BY <1>3 DEF maxPerService
  <2>2. waiters' \in [ServiceIds -> Seq(Browsers)]
    BY <1>3
  <2>3. \A j \in jobs' : j.gen \in 0 .. generation' /\ j.grant \in Grants
    BY <1>1, <1>4 DEF IInv, TypeOK
  <2>4. DOMAIN live' = {} /\ live' \in [DOMAIN live' -> {g.session : g \in Grants}]
    BY <1>2
  <2> QED
    BY <1>2, <1>3, <1>4, <2>1, <2>2, <2>3, <2>4 DEF TypeOK
<1>7. \A s \in ServiceIds : Elems(pool[s])' = {} /\ Elems(waiters[s])' = {} /\ waiters'[s] = <<>>
  BY <1>3 DEF Elems
<1>8. DOMAIN live' = {}
  BY <1>2
<1>9. Owned' /\ Unshared'
  BY <1>2, <1>7, <1>8 DEF Owned, Unshared, active
<1>10. ServedByCurrent' /\ WaitersHaveAWarmup' /\ WarmingIsInFlight'
  BY <1>3, <1>7, <1>8 DEF ServedByCurrent, WaitersHaveAWarmup, WarmingIsInFlight
<1>11. GrantIsSet'
  <2>1. \A j \in jobs' : j.gen # generation'
    BY <1>1, <1>4 DEF IInv, TypeOK
  <2> QED
    BY <1>5, <2>1 DEF GrantIsSet
<1>12. ConnectsForGrant'
  BY <1>2, <1>7 DEF ConnectsForGrant
<1> QED
  BY <1>2, <1>6, <1>9, <1>10, <1>11, <1>12 DEF IInv

-----------------------------------------------------------------------------
(***************************************************************************)
(* close.                                                                  *)
(***************************************************************************)
LEMMA ForgetKeepsIInv ==
    ASSUME IInv, NoPageAfterData, NEW b \in Browsers, ~ active(b), close(b),
           conn[b].st \in {"udp", "tcp"}, UNCHANGED <<control, pool, waiters, bypass>>
    PROVE  IInv' /\ NoPageAfterData'
<1> DEFINE c == conn[b]
           d == [c EXCEPT !.known = FALSE, !.gone = TRUE]
<1>1. conn \in [Browsers -> Conn] /\ c \in Conn /\ NoPageAfter(c)
  BY DEF IInv, TypeOK, NoPageAfterData
<1>2. conn' = [conn EXCEPT ![b] = d] /\ UNCHANGED <<live, warming, jobs>>
  BY DEF close, active
<1>3. d.st = c.st /\ d.got = c.got /\ d.bytes = c.bytes /\ d.rd = c.rd /\ ~ d.known
  BY <1>1 DEF Conn
<1>4. d \in Conn
  BY <1>1 DEF Conn
<1>5. NoPageAfter(d)
  BY <1>1, <1>3 DEF NoPageAfter
<1>6. conn'[b] = d
  BY <1>1, <1>2
<1> HIDE DEF d
<1>7. Stays(b)
  BY <1>3, <1>4, <1>6 DEF Stays, active, IInv, GrantIsSet
<1>8. bypass' \subseteq ServiceIds /\ Ensured
  BY <1>2 DEF IInv, TypeOK, Ensured
<1>9. IInv'
  BY <1>2, <1>7, <1>8, OneStays
<1>10. NoPageAfterData'
  BY <1>2, <1>5, OnePage DEF IInv
<1> QED
  BY <1>9, <1>10

\* The owner of a stream closes it.
LEMMA OwnerLeaves ==
    ASSUME Owned, Unshared, NEW b \in Browsers, active(b), pool' = pool,
           live' = Without({conn[b].stream}), ~ active(b)',
           \A d \in Browsers \ {b} : conn'[d] = conn[d]
    PROVE  Owned' /\ Unshared'
<1>1. DOMAIN live' = DOMAIN live \ {conn[b].stream}
  BY DEF Without
<1>2. \A d \in Browsers : active(d)' => active(d) /\ d # b /\ conn'[d].stream = conn[d].stream
  BY DEF active
<1>3. \A d \in Browsers : active(d) /\ d # b => active(d)' /\ conn'[d].stream = conn[d].stream
  BY DEF active
<1>4. \A i \in DOMAIN live' : ActiveOn(i)' = ActiveOn(i) /\ PooledIn(i)' = PooledIn(i)
  <2> SUFFICES ASSUME NEW i \in DOMAIN live' PROVE ActiveOn(i)' = ActiveOn(i) /\ PooledIn(i)' = PooledIn(i)
    OBVIOUS
  <2>1. i # conn[b].stream
    BY <1>1
  <2> QED
    BY <1>2, <1>3, <2>1 DEF ActiveOn, PooledIn
<1>5. Owned'
  <2>1. \A d \in Browsers : active(d)' => conn'[d].stream \in DOMAIN live'
    BY <1>1, <1>2 DEF Owned, Unshared
  <2>2. \A s \in ServiceIds : Elems(pool'[s]) \subseteq DOMAIN live'
    BY <1>1 DEF Owned, Unshared
  <2>3. \A i \in DOMAIN live' : ActiveOn(i)' # {} \/ PooledIn(i)' # {}
    BY <1>1, <1>4 DEF Owned
  <2> QED
    BY <2>1, <2>2, <2>3 DEF Owned
<1>6. Unshared'
  BY <1>2 DEF Unshared
<1> QED
  BY <1>5, <1>6

LEMMA CloseKeepsIInv ==
    ASSUME IInv, NoPageAfterData, NEW b \in Browsers, active(b), close(b),
           UNCHANGED <<control, pool, waiters, bypass>>
    PROVE  IInv' /\ NoPageAfterData'
<1> DEFINE c == conn[b]
           d == [c EXCEPT !.st = "closed", !.known = FALSE, !.timer = FALSE]
<1>1. conn \in [Browsers -> Conn] /\ c \in Conn /\ NoPageAfter(c) /\ c.st = "active"
  BY DEF IInv, TypeOK, NoPageAfterData, active
<1>2. conn' = [conn EXCEPT ![b] = d] /\ live' = Without({c.stream})
  BY <1>1 DEF close
<1>3. Ensured
  BY <1>1 DEF close, Ensured, ensureWarmedStream
<1>4. d.st = "closed" /\ d.got = c.got /\ d.bytes = c.bytes /\ d.rd = c.rd
  BY <1>1 DEF Conn
<1>5. d \in Conn
  BY <1>1 DEF Conn
<1>6. NoPageAfter(d)
  BY <1>1, <1>4 DEF NoPageAfter
<1> HIDE DEF d
<1>7. conn' \in [Browsers -> Conn] /\ conn'[b] = d /\ \A e \in Browsers \ {b} : conn'[e] = conn[e]
  BY <1>1, <1>2, <1>5
<1>8. /\ warming' \subseteq ServiceIds
      /\ \A j \in jobs' : j.gen \in 0 .. generation /\ j.grant \in Grants
      /\ \A j \in jobs' : j.gen = generation => j.grant = grant
      /\ jobs' # {} => grant \in Grants
      /\ \A s \in ServiceIds : InFlight(s) => InFlight(s)'
      /\ WarmingIsInFlight'
  BY <1>3, EnsuredKeeps DEF IInv, control
<1>9. /\ DOMAIN live' \subseteq DOMAIN live /\ \A i \in DOMAIN live' : live'[i] = live[i]
      /\ live' = [i \in DOMAIN live' |-> live'[i]]
  BY <1>2 DEF Without
<1>10. TypeOK'
  <2>1. live' \in [DOMAIN live' -> {g.session : g \in Grants}] /\ DOMAIN live' \subseteq StreamIds
    BY <1>9 DEF IInv, TypeOK
  <2> QED
    BY <1>7, <1>8, <2>1 DEF IInv, TypeOK, control
<1>11. Owned' /\ Unshared'
  <2>1. ~ active(b)'
    BY <1>4, <1>7 DEF active
  <2> QED
    BY <1>2, <1>7, <2>1, OwnerLeaves DEF IInv
<1>12. ServedByCurrent' /\ WaitersHaveAWarmup'
  BY <1>8, <1>9 DEF IInv, ServedByCurrent, WaitersHaveAWarmup, control
<1>13. GrantIsSet'
  BY <1>1, <1>8 DEF IInv, GrantIsSet, control
<1>14. ConnectsForGrant'
  <2>1. \A s \in ServiceIds : Elems(waiters[s]) \subseteq Browsers \ {b}
    BY <1>1 DEF IInv, TypeOK, Elems, ConnectsForGrant
  <2> QED
    BY <1>4, <1>7, <2>1 DEF IInv, ConnectsForGrant, control
<1>15. NoPageAfterData'
  BY <1>2, <1>6, OnePage DEF IInv
<1> QED
  BY <1>8, <1>10, <1>11, <1>12, <1>13, <1>14, <1>15 DEF IInv

LEMMA EndingSteps ==
    ASSUME IInv, NoPageAfterData, NEW b \in Browsers, ResponseEnds(b) \/ PageSent(b) \/ BrowserFails(b)
    PROVE  IInv' /\ NoPageAfterData'
<1> DEFINE c == conn[b]
<1>1. UNCHANGED <<control, pool, waiters, bypass>>
  BY DEF ResponseEnds, PageSent, BrowserFails
<1>2. CASE ResponseEnds(b) /\ c.bytes = 0
  <2> DEFINE d == [c EXCEPT !.rd = "over", !.paging = TRUE, !.got = Append(@, "page")]
  <2>1. conn \in [Browsers -> Conn] /\ c \in Conn /\ NoPageAfter(c) /\ c.st = "active"
    BY <1>2 DEF IInv, TypeOK, NoPageAfterData, active, ResponseEnds
  <2>2. conn' = [conn EXCEPT ![b] = d] /\ UNCHANGED <<live, warming, jobs>>
    BY <1>2 DEF ResponseEnds, sendActiveErrorPage
  <2>3. c.got \in Seq({"page", "data"}) /\ Append(c.got, "page") \in Seq({"page", "data"})
    BY <2>1, GotGrows
  <2>4. d \in Conn
    BY <2>1, <2>3 DEF Conn
  <2>5. d.st = c.st /\ d.stream = c.stream /\ d.bytes = c.bytes /\ d.got = Append(c.got, "page")
    BY <2>1 DEF Conn
  <2>6. conn'[b] = d
    BY <2>1, <2>2
  <2> HIDE DEF d
  <2>7. NoPageAfter(d)
    <3>1. \A i \in 1 .. Len(c.got) : c.got[i] # "data"
      BY <1>2, <2>1 DEF NoPageAfter
    <3>2. \A i \in 1 .. Len(d.got) : d.got[i] # "data"
      BY <2>3, <2>5, <3>1, PageIsAdded
    <3> QED
      BY <1>2, <2>1, <2>5, <3>2 DEF NoPageAfter
  <2>8. Stays(b)
    BY <2>1, <2>4, <2>5, <2>6 DEF Stays, active, IInv, GrantIsSet
  <2>9. bypass' \subseteq ServiceIds /\ Ensured
    BY <1>1, <2>2 DEF IInv, TypeOK, Ensured
  <2>10. IInv'
    BY <1>1, <2>2, <2>8, <2>9, OneStays
  <2>11. NoPageAfterData'
    BY <2>2, <2>7, OnePage DEF IInv
  <2> QED
    BY <2>10, <2>11
<1>3. CASE ~(ResponseEnds(b) /\ c.bytes = 0)
  <2>1. close(b) /\ c.st \in {"udp", "tcp", "active"}
    BY <1>3 DEF ResponseEnds, PageSent, BrowserFails, active
  <2>2. CASE active(b)
    BY <1>1, <2>1, <2>2, CloseKeepsIInv
  <2>3. CASE ~ active(b)
    BY <1>1, <2>1, <2>3, ForgetKeepsIInv DEF active
  <2> QED
    BY <2>2, <2>3
<1> QED
  BY <1>2, <1>3

-----------------------------------------------------------------------------
(***************************************************************************)
(* A browser gets a stream.                                                *)
(***************************************************************************)
LEMMA OwnerGetsNew ==
    ASSUME Owned, Unshared, NEW b \in Browsers, ~ active(b), pool' = pool,
           NEW i, i \notin DOMAIN live, DOMAIN live' = DOMAIN live \cup {i},
           active(b)', conn'[b].stream = i,
           \A d \in Browsers \ {b} : (active(d)' <=> active(d)) /\ (active(d) => conn'[d].stream = conn[d].stream)
    PROVE  Owned' /\ Unshared'
<1>1. \A d \in Browsers : active(d)' <=> active(d) \/ d = b
  OBVIOUS
<1>2. \A d \in Browsers : active(d) => conn'[d].stream = conn[d].stream /\ conn[d].stream # i
  BY DEF Owned
<1>3. \A k \in DOMAIN live : ActiveOn(k)' = ActiveOn(k) /\ PooledIn(k)' = PooledIn(k)
  BY <1>1, <1>2 DEF ActiveOn, PooledIn
<1>4. b \in ActiveOn(i)'
  BY DEF ActiveOn
<1>5. \A s \in ServiceIds : Elems(pool'[s]) \subseteq DOMAIN live /\ i \notin Elems(pool'[s])
  BY DEF Owned
<1>6. Owned'
  <2>1. \A d \in Browsers : active(d)' => conn'[d].stream \in DOMAIN live'
    BY <1>1, <1>2 DEF Owned
  <2>2. \A s \in ServiceIds : Elems(pool'[s]) \subseteq DOMAIN live'
    BY <1>5
  <2>3. \A k \in DOMAIN live' : ActiveOn(k)' # {} \/ PooledIn(k)' # {}
    BY <1>3, <1>4 DEF Owned
  <2> QED
    BY <2>1, <2>2, <2>3 DEF Owned
<1>7. Unshared'
  <2>1. \A d, e \in Browsers : active(d)' /\ active(e)' /\ conn'[d].stream = conn'[e].stream => d = e
    BY <1>1, <1>2 DEF Unshared
  <2>2. \A d \in Browsers : active(d)' => \A s \in ServiceIds : conn'[d].stream \notin Elems(pool'[s])
    BY <1>1, <1>2, <1>5 DEF Unshared
  <2>3. \A s, t \in ServiceIds : \A k \in Elems(pool'[s]) \cap Elems(pool'[t]) : s = t
    BY DEF Unshared
  <2> QED
    BY <2>1, <2>2, <2>3 DEF Unshared
<1> QED
  BY <1>6, <1>7

\* The stream that is opened has a free id and the given session.
LEMMA OpensOne ==
    ASSUME IInv, NEW session, live' = Opened(session),
           grant \in Grants, session = grant.session, grant' = grant
    PROVE  /\ NewStream \in StreamIds /\ NewStream \notin DOMAIN live
           /\ DOMAIN live' = DOMAIN live \cup {NewStream}
           /\ live' \in [DOMAIN live' -> {g.session : g \in Grants}] /\ DOMAIN live' \subseteq StreamIds
           /\ ServedByCurrent'
<1>1. NewStream \in StreamIds /\ NewStream \notin DOMAIN live
  BY NewStreamIsFree DEF IInv
<1> DEFINE k == NewStream
<1>2. live' = [i \in DOMAIN live \cup {k} |-> IF i = k THEN session ELSE live[i]]
  BY DEF Opened
<1>3. k \in StreamIds /\ k \notin DOMAIN live
  BY <1>1
<1> HIDE DEF k
<1>4. DOMAIN live' = DOMAIN live \cup {k}
  BY <1>2
<1>5. \A i \in DOMAIN live' : live'[i] = grant.session
  BY <1>2, <1>3 DEF IInv, ServedByCurrent
<1>6. live' = [i \in DOMAIN live' |-> live'[i]]
  BY <1>2, <1>4
<1>7. live' \in [DOMAIN live' -> {g.session : g \in Grants}]
  BY <1>5, <1>6
<1>8. DOMAIN live' \subseteq StreamIds
  BY <1>3, <1>4 DEF IInv, TypeOK
<1>9. ServedByCurrent'
  BY <1>5 DEF ServedByCurrent
<1> QED
  BY <1>3, <1>4, <1>7, <1>8, <1>9 DEF k

LEMMA ConnectedKeepsIInv ==
    ASSUME IInv, NoPageAfterData, NEW b \in Browsers, Connected(b), conn[b].known
    PROVE  IInv' /\ NoPageAfterData'
<1> DEFINE c == conn[b]
           d == activatePreparedStream(c, NewStream)
<1>1. conn \in [Browsers -> Conn] /\ c \in Conn /\ NoPageAfter(c) /\ c.st \in {"udp", "tcp"}
  BY DEF IInv, TypeOK, NoPageAfterData, Connected
<1>2. /\ UNCHANGED <<control, pool, waiters, warming, jobs>> /\ grant \in Grants
      /\ c.bytes = 0 /\ c.grant = grant
  BY <1>1 DEF Connected, IInv, GrantIsSet, NoPageAfter, ConnectsForGrant
<1>3. /\ conn' = [conn EXCEPT ![b] = d] /\ live' = Opened(c.grant.session)
      /\ bypass' \subseteq bypass
  BY DEF Connected
<1>4. /\ NewStream \in StreamIds /\ NewStream \notin DOMAIN live
      /\ DOMAIN live' = DOMAIN live \cup {NewStream}
      /\ live' \in [DOMAIN live' -> {g.session : g \in Grants}] /\ DOMAIN live' \subseteq StreamIds
      /\ ServedByCurrent'
  BY <1>2, <1>3, OpensOne DEF control
<1>5. d \in Conn /\ d.st = "active" /\ d.stream = NewStream /\ NoPageAfter(d)
  BY <1>1, <1>2, <1>4, Activated
<1> HIDE DEF d
<1>6. conn' \in [Browsers -> Conn] /\ conn'[b] = d /\ \A e \in Browsers \ {b} : conn'[e] = conn[e]
  BY <1>1, <1>3, <1>5
<1>7. TypeOK'
  BY <1>2, <1>3, <1>4, <1>6 DEF IInv, TypeOK, control
<1>8. Owned' /\ Unshared'
  <2>1. ~ active(b) /\ active(b)' /\ conn'[b].stream = NewStream
    BY <1>1, <1>5, <1>6 DEF active
  <2>2. \A e \in Browsers \ {b} : (active(e)' <=> active(e)) /\ (active(e) => conn'[e].stream = conn[e].stream)
    BY <1>6 DEF active
  <2> QED
    BY <1>2, <1>4, <2>1, <2>2, OwnerGetsNew DEF IInv
<1>9. WaitersHaveAWarmup' /\ WarmingIsInFlight'
  BY <1>2 DEF IInv, WaitersHaveAWarmup, WarmingIsInFlight, InFlight, control
<1>10. GrantIsSet'
  BY <1>2 DEF IInv, GrantIsSet, control
<1>11. ConnectsForGrant'
  <2>1. \A s \in ServiceIds : Elems(waiters[s]) \subseteq Browsers \ {b}
    BY <1>1 DEF IInv, TypeOK, Elems, ConnectsForGrant
  <2> QED
    BY <1>2, <1>5, <1>6, <2>1 DEF IInv, ConnectsForGrant, control
<1>12. NoPageAfterData'
  BY <1>3, <1>5, OnePage DEF IInv
<1> QED
  BY <1>4, <1>7, <1>8, <1>9, <1>10, <1>11, <1>12 DEF IInv

\* A pool that is not empty is full.
LEMMA OneIsPooled ==
    ASSUME TypeOK, NEW s \in ServiceIds, pool[s] # <<>>
    PROVE  pool \in [ServiceIds -> Seq(StreamIds)] /\ pool[s] \in Seq(StreamIds) /\ Len(pool[s]) = 1
<1>1. pool \in [ServiceIds -> Seq(StreamIds)] /\ pool[s] \in Seq(StreamIds) /\ Len(pool[s]) <= 1
  BY DEF TypeOK, maxPerService
<1>2. Len(pool[s]) \in Nat /\ Len(pool[s]) # 0
  BY <1>1, EmptySeq
<1> DEFINE n == Len(pool[s])
<1>3. n \in Nat /\ n # 0 /\ n <= 1
  BY <1>1, <1>2
<1> HIDE DEF n
<1>4. n = 1
  BY <1>3
<1> QED
  BY <1>1, <1>4 DEF n

\* A stream of the pool is handed to a browser.
LEMMA OwnerPops ==
    ASSUME TypeOK, Owned, Unshared, NEW b \in Browsers, ~ active(b), NEW s \in ServiceIds, pool[s] # <<>>,
           live' = live, pool' = [pool EXCEPT ![s] = Tail(@)],
           active(b)', conn'[b].stream = Head(pool[s]),
           \A d \in Browsers \ {b} : conn'[d] = conn[d]
    PROVE  Owned' /\ Unshared'
<1> PICK i : i = Head(pool[s])
  OBVIOUS
<1>1. pool \in [ServiceIds -> Seq(StreamIds)] /\ pool[s] \in Seq(StreamIds) /\ Len(pool[s]) = 1
  BY OneIsPooled
<1>2. Elems(pool[s]) = {i} /\ Tail(pool[s]) = <<>>
  BY <1>1, ElemsOf
<1>3. pool'[s] = <<>> /\ \A t \in ServiceIds \ {s} : pool'[t] = pool[t]
  BY <1>1, <1>2
<1>4. Elems(pool'[s]) = {}
  BY <1>3, ElemsOf
<1>5. \A d \in Browsers : active(d)' <=> active(d) \/ d = b
  BY DEF active
<1>6. \A d \in Browsers : active(d) => d # b /\ conn'[d].stream = conn[d].stream /\ conn[d].stream # i
  BY <1>2 DEF Unshared
<1>7. conn'[b].stream = i
  OBVIOUS
<1>8. \A t \in ServiceIds : Elems(pool'[t]) \subseteq Elems(pool[t]) /\ i \notin Elems(pool'[t])
  BY <1>2, <1>3, <1>4 DEF Unshared
<1>9. Owned'
  <2>1. \A d \in Browsers : active(d)' => conn'[d].stream \in DOMAIN live'
    BY <1>2, <1>5, <1>6, <1>7 DEF Owned
  <2>2. \A t \in ServiceIds : Elems(pool'[t]) \subseteq DOMAIN live'
    BY <1>8 DEF Owned
  <2>3. ASSUME NEW k \in DOMAIN live, k # i PROVE ActiveOn(k)' # {} \/ PooledIn(k)' # {}
    <3>1. \A d \in ActiveOn(k) : d \in ActiveOn(k)'
      BY <1>5, <1>6 DEF ActiveOn
    <3>2. \A t \in PooledIn(k) : t \in PooledIn(k)'
      BY <1>2, <1>3, <2>3 DEF PooledIn
    <3> QED
      BY <3>1, <3>2 DEF Owned
  <2>4. b \in ActiveOn(i)'
    BY <1>7 DEF ActiveOn
  <2> QED
    BY <2>1, <2>2, <2>3, <2>4 DEF Owned
<1>10. Unshared'
  <2>1. \A d, e \in Browsers : active(d)' /\ active(e)' /\ conn'[d].stream = conn'[e].stream => d = e
    BY <1>5, <1>6, <1>7 DEF Unshared
  <2>2. \A d \in Browsers : active(d)' => \A t \in ServiceIds : conn'[d].stream \notin Elems(pool'[t])
    <3> SUFFICES ASSUME NEW d \in Browsers, active(d)', NEW t \in ServiceIds
                 PROVE  conn'[d].stream \notin Elems(pool'[t])
      OBVIOUS
    <3>1. CASE d = b
      BY <1>7, <1>8, <3>1
    <3>2. CASE d # b
      <4>1. active(d) /\ conn'[d].stream = conn[d].stream
        BY <1>5, <1>6, <3>2
      <4>2. conn[d].stream \notin Elems(pool[t])
        BY <4>1 DEF Unshared
      <4> QED
        BY <1>8, <4>1, <4>2
    <3> QED
      BY <3>1, <3>2
  <2>3. \A t, u \in ServiceIds : \A k \in Elems(pool'[t]) \cap Elems(pool'[u]) : t = u
    BY <1>8 DEF Unshared
  <2> QED
    BY <2>1, <2>2, <2>3 DEF Unshared
<1> QED
  BY <1>9, <1>10

LEMMA HandleKeepsIInv ==
    ASSUME IInv, NoPageAfterData, NEW b \in Browsers, handleBrowserConnection(b)
    PROVE  IInv' /\ NoPageAfterData'
<1> DEFINE s == grant.service
           c == [conn[b] EXCEPT !.grant = grant, !.gen = generation]
<1>1. conn \in [Browsers -> Conn] /\ conn[b] \in Conn /\ NoPageAfter(conn[b]) /\ conn[b].st = "queued"
  BY DEF IInv, TypeOK, NoPageAfterData, handleBrowserConnection
<1>2. UNCHANGED <<control, bypass, live>> /\ grant \in Grants /\ conn[b].bytes = 0
  BY <1>1 DEF handleBrowserConnection, IInv, GrantIsSet, NoPageAfter
<1>3. s \in ServiceIds
  BY <1>2 DEF ServiceIds
<1>4. c \in Conn
  BY <1>1, <1>2 DEF Conn, IInv, TypeOK
<1>5. c.st = "queued" /\ c.got = conn[b].got /\ c.bytes = 0 /\ c.rd = conn[b].rd /\ c.grant = grant
  BY <1>1, <1>2 DEF Conn
<1>6. NoPageAfter(c)
  BY <1>1, <1>5 DEF NoPageAfter
<1>7. \A t \in ServiceIds : Elems(waiters[t]) \subseteq Browsers \ {b}
  BY <1>1 DEF IInv, TypeOK, Elems, ConnectsForGrant
<1> HIDE DEF c
<1>8. CASE pool[s] # <<>>
  <2> DEFINE d == activatePreparedStream(c, Head(pool[s]))
  <2>1. /\ conn' = [conn EXCEPT ![b] = d] /\ pool' = [pool EXCEPT ![s] = Tail(@)]
        /\ waiters' = waiters
    BY <1>8 DEF handleBrowserConnection, c
  <2>2. Ensured
    BY <1>8 DEF handleBrowserConnection, ensureWarmedStream, Ensured
  <2>3. pool[s] \in Seq(StreamIds) /\ Head(pool[s]) \in StreamIds
    BY <1>3, <1>8 DEF IInv, TypeOK
  <2>4. d \in Conn /\ d.st = "active" /\ d.stream = Head(pool[s]) /\ NoPageAfter(d)
    BY <1>4, <1>5, <1>6, <2>3, Activated
  <2> HIDE DEF d
  <2>5. conn' \in [Browsers -> Conn] /\ conn'[b] = d /\ \A e \in Browsers \ {b} : conn'[e] = conn[e]
    BY <1>1, <2>1, <2>4
  <2>6. /\ warming' \subseteq ServiceIds
        /\ \A j \in jobs' : j.gen \in 0 .. generation /\ j.grant \in Grants
        /\ \A j \in jobs' : j.gen = generation => j.grant = grant
        /\ jobs' # {} => grant \in Grants
        /\ \A t \in ServiceIds : InFlight(t) => InFlight(t)'
        /\ WarmingIsInFlight'
    BY <1>2, <2>2, EnsuredKeeps DEF IInv, control
  <2>7. TypeOK'
    <3>1. pool' \in [ServiceIds -> Seq(StreamIds)] /\ \A t \in ServiceIds : Len(pool'[t]) <= maxPerService
      <4>1. pool \in [ServiceIds -> Seq(StreamIds)] /\ \A t \in ServiceIds : Len(pool[t]) <= 1
        BY DEF IInv, TypeOK, maxPerService
      <4>2. Tail(pool[s]) \in Seq(StreamIds) /\ Len(Tail(pool[s])) <= 1
        BY <1>3, <1>8, <4>1
      <4> QED
        BY <1>3, <2>1, <4>1, <4>2 DEF maxPerService
    <3> QED
      BY <1>2, <2>1, <2>5, <2>6, <3>1 DEF IInv, TypeOK, control
  <2>8. Owned' /\ Unshared'
    <3>1. ~ active(b) /\ active(b)' /\ conn'[b].stream = Head(pool[s])
      BY <1>1, <2>4, <2>5 DEF active
    <3> QED
      BY <1>2, <1>3, <1>8, <2>1, <2>5, <3>1, OwnerPops DEF IInv
  <2>9. ServedByCurrent' /\ WaitersHaveAWarmup'
    BY <1>2, <2>1, <2>6 DEF IInv, ServedByCurrent, WaitersHaveAWarmup, control
  <2>10. GrantIsSet'
    BY <1>2, <2>6 DEF IInv, GrantIsSet, control
  <2>11. ConnectsForGrant'
    <3>1. /\ waiters' = waiters /\ grant' = grant /\ conn'[b].st = "active"
          /\ \A e \in Browsers \ {b} : conn'[e] = conn[e]
      BY <1>2, <2>1, <2>4, <2>5 DEF control
    <3> QED
      BY <1>7, <3>1 DEF IInv, ConnectsForGrant
  <2>12. NoPageAfterData'
    BY <2>1, <2>4, OnePage DEF IInv
  <2> QED
    BY <2>6, <2>7, <2>8, <2>9, <2>10, <2>11, <2>12 DEF IInv
<1>9. CASE pool[s] = <<>> /\ s \in warming
  <2> DEFINE d == [c EXCEPT !.st = "waiting"]
  <2>1. /\ conn' = [conn EXCEPT ![b] = d] /\ waiters' = [waiters EXCEPT ![s] = Append(@, b)]
        /\ UNCHANGED <<pool, warming, jobs>>
    BY <1>9 DEF handleBrowserConnection, c
  <2>2. d.st = "waiting" /\ d.grant = grant /\ d.got = c.got /\ d.bytes = 0
    BY <1>4, <1>5 DEF Conn
  <2>3. d \in Conn
    BY <1>4 DEF Conn
  <2>4. NoPageAfter(d)
    BY <1>5, <1>6, <2>2 DEF NoPageAfter
  <2> HIDE DEF d
  <2>5. conn' \in [Browsers -> Conn] /\ conn'[b] = d /\ \A e \in Browsers \ {b} : conn'[e] = conn[e]
    BY <1>1, <2>1, <2>3
  <2>6. waiters' \in [ServiceIds -> Seq(Browsers)]
    <3>1. waiters \in [ServiceIds -> Seq(Browsers)] /\ Append(waiters[s], b) \in Seq(Browsers)
      BY <1>3 DEF IInv, TypeOK
    <3> QED
      BY <2>1, <3>1
  <2>7. /\ Elems(waiters'[s]) \subseteq Elems(waiters[s]) \cup {b}
        /\ \A t \in ServiceIds \ {s} : waiters'[t] = waiters[t]
    <3>1. waiters \in [ServiceIds -> Seq(Browsers)]
      BY DEF IInv, TypeOK
    <3>2. waiters'[s] = Append(waiters[s], b) /\ \A t \in ServiceIds \ {s} : waiters'[t] = waiters[t]
      BY <1>3, <2>1, <3>1
    <3>3. Elems(Append(waiters[s], b)) \subseteq Elems(waiters[s]) \cup {b}
      BY <1>3, <3>1, ElemsOfAppend
    <3> QED
      BY <3>2, <3>3
  <2>8. TypeOK'
    BY <1>2, <2>1, <2>5, <2>6 DEF IInv, TypeOK, control
  <2>9. Owned' /\ Unshared'
    <3>1. \A e \in Browsers : /\ conn'[e].st = "active" <=> conn[e].st = "active"
                              /\ active(e) => conn'[e].stream = conn[e].stream
      BY <1>1, <2>2, <2>5 DEF active
    <3> QED
      BY <1>2, <2>1, <3>1, OwnersStay DEF IInv
  <2>10. ServedByCurrent' /\ WarmingIsInFlight'
    BY <1>2, <2>1 DEF IInv, ServedByCurrent, WarmingIsInFlight, InFlight, control
  <2>11. WaitersHaveAWarmup'
    <3>1. InFlight(s)
      BY <1>9 DEF IInv, WarmingIsInFlight
    <3>2. \A t \in ServiceIds : InFlight(t)' <=> InFlight(t)
      BY <1>2, <2>1 DEF InFlight, control
    <3>3. \A t \in ServiceIds \ {s} : waiters'[t] = waiters[t]
      BY <2>1 DEF IInv, TypeOK
    <3> QED
      BY <3>1, <3>2, <3>3 DEF IInv, WaitersHaveAWarmup
  <2>12. GrantIsSet'
    BY <1>2, <2>1 DEF IInv, GrantIsSet, control
  <2>13. ConnectsForGrant'
    <3>1. /\ grant' = grant /\ conn'[b].st = "waiting" /\ conn'[b].grant = grant
          /\ \A e \in Browsers \ {b} : conn'[e] = conn[e]
      BY <1>2, <2>2, <2>5 DEF control
    <3>2. \A t \in ServiceIds : \A e \in Elems(waiters'[t]) : (e = b /\ t = s) \/ e \in Elems(waiters[t])
      BY <2>7
    <3>3. \A t \in ServiceIds : \A e \in Elems(waiters'[t]) :
              conn'[e].st = "waiting" /\ conn'[e].grant = grant /\ grant.service = t
      BY <1>7, <3>1, <3>2 DEF IInv, ConnectsForGrant
    <3>4. \A e \in Browsers : conn'[e].st \in {"udp", "tcp"} /\ conn'[e].known => conn'[e].grant = grant
      BY <3>1 DEF IInv, ConnectsForGrant
    <3> QED
      BY <3>1, <3>3, <3>4 DEF ConnectsForGrant
  <2>14. NoPageAfterData'
    BY <2>1, <2>4, OnePage DEF IInv
  <2> QED
    BY <2>8, <2>9, <2>10, <2>11, <2>12, <2>13, <2>14 DEF IInv
<1>10. CASE pool[s] = <<>> /\ s \notin warming
  <2> DEFINE d == handleBrowserConnectionCold(c, bypass)
  <2>1. conn' = [conn EXCEPT ![b] = d] /\ UNCHANGED <<pool, warming, waiters, jobs>>
    BY <1>10 DEF handleBrowserConnection, c
  <2>2. /\ d \in Conn /\ d.st \in {"udp", "tcp", "closed"} /\ NoPageAfter(d)
        /\ d.st # "closed" => d.grant = grant
    BY <1>4, <1>5, <1>6, Cold
  <2> HIDE DEF d
  <2>3. conn'[b] = d
    BY <1>1, <2>1
  <2>4. Stays(b)
    BY <1>1, <1>2, <2>2, <2>3 DEF Stays, active
  <2>5. bypass' \subseteq ServiceIds /\ Ensured
    BY <1>2, <2>1 DEF IInv, TypeOK, Ensured
  <2>6. IInv'
    BY <1>2, <2>1, <2>4, <2>5, OneStays
  <2>7. NoPageAfterData'
    BY <2>1, <2>2, OnePage DEF IInv
  <2> QED
    BY <2>6, <2>7
<1> QED
  BY <1>8, <1>9, <1>10

-----------------------------------------------------------------------------
(***************************************************************************)
(* A warm-up comes back.                                                   *)
(***************************************************************************)
LEMMA WarmDone ==
    ASSUME IInv, NEW j \in jobs, jobs' = jobs \ {j}, warming' = warming \ {j.grant.service},
           UNCHANGED control
    PROVE  /\ grant \in Grants /\ j.grant.service \in ServiceIds
           /\ j.gen = generation => j.grant = grant
           /\ \A t \in ServiceIds : InFlight(t) /\ (t # j.grant.service \/ j.gen # generation) => InFlight(t)'
           /\ WarmingIsInFlight'
<1>1. grant \in Grants /\ j.grant.service \in ServiceIds /\ (j.gen = generation => j.grant = grant)
  BY DEF IInv, GrantIsSet, TypeOK, ServiceIds
<1>2. ASSUME NEW t \in ServiceIds, InFlight(t), t # j.grant.service \/ j.gen # generation
      PROVE  InFlight(t)'
  <2>1. PICK k \in jobs : k.gen = generation /\ k.grant.service = t
    BY <1>2 DEF InFlight
  <2>2. k \in jobs'
    BY <1>2, <2>1
  <2> QED
    BY <2>1, <2>2 DEF InFlight, control
<1>3. WarmingIsInFlight'
  BY <1>2 DEF IInv, WarmingIsInFlight, TypeOK
<1> QED
  BY <1>1, <1>2, <1>3

\* What is left to show of a warm-up's return.
LEMMA WarmKeepsIInv ==
    ASSUME IInv, NEW j \in jobs, jobs' = jobs \ {j}, warming' = warming \ {j.grant.service},
           UNCHANGED control, bypass' \subseteq bypass,
           Owned', Unshared', ServedByCurrent', ConnectsForGrant', conn' \in [Browsers -> Conn],
           live' \in [DOMAIN live' -> {g.session : g \in Grants}], DOMAIN live' \subseteq StreamIds,
           pool' \in [ServiceIds -> Seq(StreamIds)], \A s \in ServiceIds : Len(pool'[s]) <= maxPerService,
           waiters' \in {waiters, [waiters EXCEPT ![j.grant.service] = <<>>]},
           j.gen = generation => waiters'[j.grant.service] = <<>>
    PROVE  IInv'
<1>1. /\ grant \in Grants /\ j.grant.service \in ServiceIds
      /\ \A t \in ServiceIds : InFlight(t) /\ (t # j.grant.service \/ j.gen # generation) => InFlight(t)'
      /\ WarmingIsInFlight'
  BY WarmDone
<1>2. /\ waiters' \in [ServiceIds -> Seq(Browsers)]
      /\ \A t \in ServiceIds : waiters'[t] \in {waiters[t], <<>>}
  <2>1. waiters \in [ServiceIds -> Seq(Browsers)] /\ <<>> \in Seq(Browsers)
    BY DEF IInv, TypeOK
  <2> QED
    BY <1>1, <2>1
<1>3. TypeOK'
  BY <1>2 DEF IInv, TypeOK, control
<1>4. WaitersHaveAWarmup'
  BY <1>1, <1>2 DEF IInv, WaitersHaveAWarmup
<1>5. GrantIsSet'
  BY <1>1 DEF IInv, GrantIsSet, control
<1> QED
  BY <1>1, <1>3, <1>4, <1>5 DEF IInv

\* The waiters of a service that connect on their own, and those of the other services.
LEMMA WaitersConnect ==
    ASSUME IInv, NoPageAfterData, UNCHANGED grant, NEW s \in ServiceIds, waiters' = [waiters EXCEPT ![s] = <<>>],
           conn' = [b \in Browsers |-> conn'[b]],
           \A b \in Browsers :
               \/ conn'[b] = conn[b] /\ b \notin Elems(waiters[s])
               \/ /\ b \in Elems(waiters[s]) /\ NoPageAfter(conn'[b]) /\ conn'[b] \in Conn
                  /\ conn'[b].st \in {"udp", "tcp"} => conn'[b].grant = conn[b].grant
    PROVE  conn' \in [Browsers -> Conn] /\ NoPageAfterData' /\ ConnectsForGrant'
<1>1. \A b \in Browsers : conn[b] \in Conn /\ NoPageAfter(conn[b])
  BY DEF IInv, TypeOK, NoPageAfterData
<1>2. conn' \in [Browsers -> Conn]
  BY <1>1
<1>3. \A b \in Browsers : NoPageAfter(conn'[b])
  BY <1>1
<1>4. NoPageAfterData'
  BY <1>3 DEF NoPageAfterData, NoPageAfter
<1>5. waiters \in [ServiceIds -> Seq(Browsers)]
  BY DEF IInv, TypeOK
<1>6. \A t \in ServiceIds : Elems(waiters[t]) \subseteq Browsers
  BY <1>5 DEF Elems
<1>7. Elems(waiters'[s]) = {} /\ \A t \in ServiceIds \ {s} : waiters'[t] = waiters[t]
  BY <1>5 DEF Elems
<1>8. ASSUME NEW t \in ServiceIds, NEW b \in Elems(waiters'[t])
      PROVE  conn'[b].st = "waiting" /\ conn'[b].grant = grant' /\ grant'.service = t
  <2>1. t # s /\ b \in Elems(waiters[t]) /\ b \in Browsers
    BY <1>6, <1>7, <1>8
  <2>2. conn[b].st = "waiting" /\ conn[b].grant = grant /\ grant.service = t
    BY <2>1 DEF IInv, ConnectsForGrant
  <2>3. b \notin Elems(waiters[s])
    BY <2>1, <2>2 DEF IInv, ConnectsForGrant
  <2> QED
    BY <2>1, <2>2, <2>3
<1>9. \A b \in Browsers : conn'[b].st \in {"udp", "tcp"} /\ conn'[b].known => conn'[b].grant = grant'
  BY DEF IInv, ConnectsForGrant
<1> QED
  BY <1>2, <1>4, <1>8, <1>9 DEF ConnectsForGrant

\* What a waiter is before it is woken.
LEMMA WaiterKinds ==
    ASSUME IInv, NoPageAfterData, NEW s \in ServiceIds, NEW b \in Elems(waiters[s])
    PROVE  /\ b \in Browsers /\ conn[b] \in Conn /\ NoPageAfter(conn[b]) /\ conn[b].bytes = 0
           /\ ~ active(b)
<1>1. b \in Browsers
  BY DEF IInv, TypeOK, Elems
<1>2. conn[b] \in Conn /\ NoPageAfter(conn[b]) /\ conn[b].st = "waiting"
  BY <1>1 DEF IInv, TypeOK, NoPageAfterData, ConnectsForGrant
<1> QED
  BY <1>1, <1>2 DEF NoPageAfter, active

\* A waiter that connects on its own has no stream before or after.
LEMMA WaiterGoesCold ==
    ASSUME IInv, NoPageAfterData, NEW s \in ServiceIds, NEW b \in Elems(waiters[s]), NEW by,
           conn'[b] = handleBrowserConnectionCold(conn[b], by)
    PROVE  /\ NoPageAfter(conn'[b]) /\ conn'[b] \in Conn /\ ~ active(b) /\ ~ active(b)'
           /\ conn'[b].st \in {"udp", "tcp"} => conn'[b].grant = conn[b].grant
<1>1. conn[b] \in Conn /\ NoPageAfter(conn[b]) /\ conn[b].bytes = 0 /\ ~ active(b)
  BY WaiterKinds
<1> DEFINE d == handleBrowserConnectionCold(conn[b], by)
<1>2. /\ d \in Conn /\ d.st \in {"udp", "tcp", "closed"} /\ NoPageAfter(d)
      /\ d.st # "closed" => d.grant = conn[b].grant
  BY <1>1, Cold
<1>3. conn'[b] = d
  OBVIOUS
<1> HIDE DEF d
<1> QED
  BY <1>1, <1>2, <1>3 DEF active

LEMMA WarmFailsKeepsIInv ==
    ASSUME IInv, NoPageAfterData, NEW j \in jobs, WarmFails(j)
    PROVE  IInv' /\ NoPageAfterData'
<1> DEFINE s == j.grant.service
<1>1. /\ jobs' = jobs \ {j} /\ warming' = warming \ {s}
      /\ UNCHANGED <<control, pool, bypass, live>>
  BY DEF WarmFails
<1>2. /\ s \in ServiceIds /\ (j.gen = generation => j.grant = grant)
      /\ waiters \in [ServiceIds -> Seq(Browsers)]
  BY <1>1, WarmDone DEF IInv, TypeOK
<1>3. UNCHANGED <<generation, grant>>
  BY <1>1 DEF control
<1>4. ServedByCurrent'
  BY <1>1, <1>3 DEF IInv, ServedByCurrent
<1>5. /\ live' \in [DOMAIN live' -> {g.session : g \in Grants}] /\ DOMAIN live' \subseteq StreamIds
      /\ pool' \in [ServiceIds -> Seq(StreamIds)] /\ \A t \in ServiceIds : Len(pool'[t]) <= maxPerService
      /\ bypass' \subseteq bypass
  BY <1>1 DEF IInv, TypeOK
<1>6. CASE j.gen # generation
  <2>1. UNCHANGED <<conn, waiters>>
    BY <1>6 DEF WarmFails
  <2>2. conn' \in [Browsers -> Conn] /\ ConnectsForGrant'
    BY <1>3, <2>1 DEF IInv, TypeOK, ConnectsForGrant
  <2>3. Owned' /\ Unshared'
    BY <1>1, <2>1, OwnersStay DEF IInv
  <2>4. NoPageAfterData'
    BY <2>1 DEF NoPageAfterData, NoPageAfter
  <2> QED
    BY <1>1, <1>4, <1>5, <1>6, <2>1, <2>2, <2>3, <2>4, WarmKeepsIInv
<1>7. CASE j.gen = generation
  <2>1. reject(s)
    BY <1>7 DEF WarmFails
  <2>2. /\ conn' = [b \in Browsers |-> conn'[b]] /\ waiters' = [waiters EXCEPT ![s] = <<>>]
        /\ \A b \in Browsers : b \notin Elems(waiters[s]) => conn'[b] = conn[b]
        /\ \A b \in Browsers : b \in Elems(waiters[s]) => conn'[b] = handleBrowserConnectionCold(conn[b], bypass)
    BY <2>1 DEF reject
  <2>3. \A b \in Browsers : b \in Elems(waiters[s]) =>
            /\ NoPageAfter(conn'[b]) /\ conn'[b] \in Conn /\ ~ active(b) /\ ~ active(b)'
            /\ conn'[b].st \in {"udp", "tcp"} => conn'[b].grant = conn[b].grant
    BY <1>2, <2>2, WaiterGoesCold
  <2>4. conn' \in [Browsers -> Conn] /\ NoPageAfterData' /\ ConnectsForGrant'
    BY <1>2, <1>3, <2>2, <2>3, WaitersConnect
  <2>5. Owned' /\ Unshared'
    <3>1. \A b \in Browsers : /\ conn'[b].st = "active" <=> conn[b].st = "active"
                              /\ active(b) => conn'[b].stream = conn[b].stream
      BY <2>2, <2>3 DEF active
    <3> QED
      BY <1>1, <3>1, OwnersStay DEF IInv
  <2>6. waiters'[s] = <<>>
    BY <1>2, <2>2
  <2> QED
    BY <1>1, <1>4, <1>5, <2>2, <2>4, <2>5, <2>6, WarmKeepsIInv
<1> QED
  BY <1>6, <1>7

\* A new stream is kept in the pool.
LEMMA OwnersPush ==
    ASSUME TypeOK, Owned, Unshared, NEW s \in ServiceIds, pool[s] = <<>>, conn' = conn,
           NEW i, i \notin DOMAIN live, DOMAIN live' = DOMAIN live \cup {i},
           pool' = [pool EXCEPT ![s] = Append(@, i)]
    PROVE  Owned' /\ Unshared'
<1>1. pool'[s] = <<i>> /\ \A t \in ServiceIds \ {s} : pool'[t] = pool[t]
  BY DEF TypeOK
<1>2. Elems(pool'[s]) = {i} /\ Elems(pool[s]) = {}
  BY <1>1 DEF Elems
<1>3. \A b \in Browsers : active(b)' <=> active(b)
  BY DEF active
<1>4. \A t \in ServiceIds : (t = s => Elems(pool'[t]) = {i}) /\ (t # s => Elems(pool'[t]) = Elems(pool[t]))
  <2> TAKE t \in ServiceIds
  <2>1. CASE t = s
    BY <1>2, <2>1
  <2>2. CASE t # s
    <3>1. pool'[t] = pool[t]
      BY <1>1, <2>2
    <3> QED
      BY <2>2, <3>1
  <2> QED
    BY <2>1, <2>2
<1>5. Owned'
  <2>1. \A b \in Browsers : active(b)' => conn'[b].stream \in DOMAIN live'
    BY <1>3 DEF Owned
  <2>2. \A t \in ServiceIds : Elems(pool'[t]) \subseteq DOMAIN live'
    BY <1>4 DEF Owned
  <2>3. ASSUME NEW k \in DOMAIN live PROVE ActiveOn(k)' # {} \/ PooledIn(k)' # {}
    <3>1. ActiveOn(k)' = ActiveOn(k)
      BY <1>3 DEF ActiveOn
    <3>2. \A t \in PooledIn(k) : t \in PooledIn(k)'
      BY <1>1, <1>2 DEF PooledIn
    <3> QED
      BY <3>1, <3>2 DEF Owned
  <2>4. s \in PooledIn(i)'
    BY <1>2 DEF PooledIn
  <2> QED
    BY <2>1, <2>2, <2>3, <2>4 DEF Owned
<1>6. Unshared'
  <2>1. \A t \in ServiceIds \ {s} : i \notin Elems(pool[t])
    BY DEF Owned
  <2>2. \A b \in Browsers : active(b) => conn[b].stream # i
    BY DEF Owned
  <2>3. \A b, d \in Browsers : active(b)' /\ active(d)' /\ conn'[b].stream = conn'[d].stream => b = d
    BY <1>3 DEF Unshared
  <2>4. \A b \in Browsers : active(b)' => \A t \in ServiceIds : conn'[b].stream \notin Elems(pool'[t])
    BY <1>3, <1>4, <2>2 DEF Unshared
  <2>5. \A t, u \in ServiceIds : \A k \in Elems(pool'[t]) \cap Elems(pool'[u]) : t = u
    BY <1>4, <2>1 DEF Unshared
  <2> QED
    BY <2>3, <2>4, <2>5 DEF Unshared
<1> QED
  BY <1>5, <1>6

LEMMA WarmSucceedsKeepsIInv ==
    ASSUME IInv, NoPageAfterData, NEW j \in jobs, NEW via \in {"ice", "tcp"}, WarmSucceeds(j, via)
    PROVE  IInv' /\ NoPageAfterData'
<1> DEFINE s == j.grant.service
           by == IF via = "ice" THEN bypass \ {s} ELSE bypass
           i == NewStream
<1>1. jobs' = jobs \ {j} /\ warming' = warming \ {s} /\ UNCHANGED control
  BY DEF WarmSucceeds
<1>2. /\ s \in ServiceIds /\ grant \in Grants /\ (j.gen = generation => j.grant = grant)
      /\ waiters \in [ServiceIds -> Seq(Browsers)] /\ pool \in [ServiceIds -> Seq(StreamIds)]
      /\ \A t \in ServiceIds : Len(pool[t]) <= 1
  BY <1>1, WarmDone DEF IInv, TypeOK, maxPerService
<1>3. UNCHANGED <<generation, grant>>
  BY <1>1 DEF control
<1>4. CASE UNCHANGED <<pool, waiters, live, conn>> /\ bypass' \subseteq bypass
            /\ (j.gen = generation => waiters[s] = <<>>)
  <2>1. conn' \in [Browsers -> Conn] /\ ConnectsForGrant' /\ ServedByCurrent'
    BY <1>3, <1>4 DEF IInv, TypeOK, ConnectsForGrant, ServedByCurrent
  <2>2. Owned' /\ Unshared'
    BY <1>4, OwnersStay DEF IInv
  <2>3. NoPageAfterData'
    BY <1>4 DEF NoPageAfterData, NoPageAfter
  <2>4. /\ live' \in [DOMAIN live' -> {g.session : g \in Grants}] /\ DOMAIN live' \subseteq StreamIds
        /\ pool' \in [ServiceIds -> Seq(StreamIds)] /\ \A t \in ServiceIds : Len(pool'[t]) <= maxPerService
    BY <1>4 DEF IInv, TypeOK
  <2> QED
    BY <1>1, <1>4, <2>1, <2>2, <2>3, <2>4, WarmKeepsIInv
<1>5. CASE ~ IsCurrent(j)
  <2>1. UNCHANGED <<pool, waiters, live, conn, bypass>>
    BY <1>5 DEF WarmSucceeds
  <2>2. j.gen # generation
    BY <1>2, <1>5 DEF IsCurrent
  <2> QED
    BY <1>4, <2>1, <2>2
<1>6. CASE IsCurrent(j)
  <2>1. j.grant.session = grant.session /\ bypass' = by /\ bypass' \subseteq bypass
    BY <1>6 DEF IsCurrent, WarmSucceeds
  <2>2. ASSUME live' = Opened(j.grant.session)
        PROVE  /\ i \in StreamIds /\ i \notin DOMAIN live /\ DOMAIN live' = DOMAIN live \cup {i}
               /\ live' \in [DOMAIN live' -> {g.session : g \in Grants}] /\ DOMAIN live' \subseteq StreamIds
               /\ ServedByCurrent'
    BY <1>2, <1>3, <2>1, <2>2, OpensOne
  <2>3. CASE waiters[s] # <<>>
    <3>1. resolve(s, Opened(j.grant.session), by)
      BY <1>6, <2>3 DEF WarmSucceeds
    <3> PICK h : h = Head(waiters[s])
      OBVIOUS
    <3>2. /\ live' = Opened(j.grant.session) /\ pool' = pool /\ waiters' = [waiters EXCEPT ![s] = <<>>]
          /\ conn' = [b \in Browsers |-> conn'[b]]
          /\ h \in Browsers => conn'[h] = activatePreparedStream(conn[h], i)
          /\ \A b \in Browsers \ {h} : b \notin Elems(waiters[s]) => conn'[b] = conn[b]
          /\ \A b \in Browsers \ {h} : b \in Elems(waiters[s]) => conn'[b] = handleBrowserConnectionCold(conn[b], by)
      BY <3>1 DEF resolve
    <3>3. h \in Elems(waiters[s])
      BY <1>2, <2>3 DEF Elems
    <3> HIDE DEF by
    <3>4. h \in Browsers /\ conn[h] \in Conn /\ NoPageAfter(conn[h]) /\ conn[h].bytes = 0 /\ ~ active(h)
      BY <1>2, <3>3, WaiterKinds
    <3>5. /\ i \in StreamIds /\ i \notin DOMAIN live /\ DOMAIN live' = DOMAIN live \cup {i}
          /\ live' \in [DOMAIN live' -> {g.session : g \in Grants}] /\ DOMAIN live' \subseteq StreamIds
          /\ ServedByCurrent'
      BY <2>2, <3>2
    <3>6. conn'[h] \in Conn /\ conn'[h].st = "active" /\ conn'[h].stream = i /\ NoPageAfter(conn'[h])
      <4>1. conn[h] \in Conn /\ NoPageAfter(conn[h]) /\ conn[h].bytes = 0 /\ i \in StreamIds
        BY <3>4, <3>5
      <4>2. conn'[h] = activatePreparedStream(conn[h], i)
        BY <3>2, <3>4
      <4>3. PICK c, d, k : c = conn[h] /\ d = conn'[h] /\ k = i
        OBVIOUS
      <4>4. c \in Conn /\ k \in StreamIds /\ d = activatePreparedStream(c, k) /\ NoPageAfter(c) /\ c.bytes = 0
        BY <4>1, <4>2, <4>3
      <4>5. d \in Conn /\ d.st = "active" /\ d.stream = k /\ NoPageAfter(d)
        BY <4>4, Activated
      <4> QED
        BY <4>3, <4>5
    <3>7. \A b \in Browsers \ {h} : b \in Elems(waiters[s]) =>
              /\ NoPageAfter(conn'[b]) /\ conn'[b] \in Conn /\ ~ active(b) /\ ~ active(b)'
              /\ conn'[b].st \in {"udp", "tcp"} => conn'[b].grant = conn[b].grant
      BY <1>2, <3>2, WaiterGoesCold
    <3>8. \A b \in Browsers :
              \/ conn'[b] = conn[b] /\ b \notin Elems(waiters[s])
              \/ /\ b \in Elems(waiters[s]) /\ NoPageAfter(conn'[b]) /\ conn'[b] \in Conn
                 /\ conn'[b].st \in {"udp", "tcp"} => conn'[b].grant = conn[b].grant
      BY <3>2, <3>3, <3>6, <3>7
    <3>9. conn' \in [Browsers -> Conn] /\ NoPageAfterData' /\ ConnectsForGrant'
      BY <1>2, <1>3, <3>2, <3>8, WaitersConnect
    <3>10. Owned' /\ Unshared'
      <4>1. active(h)'
        BY <3>6 DEF active
      <4>2. \A b \in Browsers \ {h} : (active(b)' <=> active(b)) /\ (active(b) => conn'[b].stream = conn[b].stream)
        BY <3>2, <3>7 DEF active
      <4> QED
        BY <3>2, <3>4, <3>5, <3>6, <4>1, <4>2, OwnerGetsNew DEF IInv
    <3>11. waiters'[s] = <<>>
      BY <1>2, <3>2
    <3>12. pool' \in [ServiceIds -> Seq(StreamIds)] /\ \A t \in ServiceIds : Len(pool'[t]) <= maxPerService
      BY <3>2 DEF IInv, TypeOK
    <3> QED
      BY <1>1, <2>1, <3>2, <3>5, <3>9, <3>10, <3>11, <3>12, WarmKeepsIInv
  <2>4. CASE waiters[s] = <<>>
    <3>1. push(s, Opened(j.grant.session)) /\ UNCHANGED <<waiters, conn>>
      BY <1>6, <2>4 DEF WarmSucceeds
    <3>2. CASE Len(pool[s]) >= 1
      <4>1. UNCHANGED <<live, pool>>
        BY <3>1, <3>2, <1>2 DEF push, maxPerService
      <4> QED
        BY <1>4, <2>1, <2>4, <3>1, <4>1
    <3>3. CASE Len(pool[s]) < 1
      <4>1. live' = Opened(j.grant.session) /\ pool' = [pool EXCEPT ![s] = Append(@, i)]
        BY <3>1, <3>3 DEF push, maxPerService
      <4>2. pool[s] = <<>>
        BY <1>2, <3>3
      <4>3. /\ i \in StreamIds /\ i \notin DOMAIN live /\ DOMAIN live' = DOMAIN live \cup {i}
            /\ live' \in [DOMAIN live' -> {g.session : g \in Grants}] /\ DOMAIN live' \subseteq StreamIds
            /\ ServedByCurrent'
        BY <2>2, <4>1
      <4> HIDE DEF i, by
      <4>4. Owned' /\ Unshared'
        BY <1>2, <3>1, <4>1, <4>2, <4>3, OwnersPush DEF IInv
      <4>5. pool' \in [ServiceIds -> Seq(StreamIds)] /\ \A t \in ServiceIds : Len(pool'[t]) <= maxPerService
        <5>1. pool' = [pool EXCEPT ![s] = <<i>>] /\ <<i>> \in Seq(StreamIds) /\ Len(<<i>>) = 1
          BY <4>1, <4>2, <4>3
        <5> QED
          BY <1>2, <5>1 DEF maxPerService
      <4>6. conn' \in [Browsers -> Conn] /\ ConnectsForGrant'
        BY <1>3, <3>1 DEF IInv, TypeOK, ConnectsForGrant
      <4>7. NoPageAfterData'
        BY <3>1 DEF NoPageAfterData, NoPageAfter
      <4>8. waiters'[s] = <<>> /\ waiters' = waiters
        BY <2>4, <3>1
      <4> QED
        BY <1>1, <2>1, <4>3, <4>4, <4>5, <4>6, <4>7, <4>8, WarmKeepsIInv
    <3> QED
      BY <1>2, <3>2, <3>3
  <2> QED
    BY <2>3, <2>4
<1> QED
  BY <1>5, <1>6

-----------------------------------------------------------------------------
LEMMA InitIInv == Init => IInv /\ NoPageAfterData
<1> SUFFICES ASSUME Init PROVE IInv /\ NoPageAfterData
  OBVIOUS
<1> USE ProxyAssumption
<1>1. NewConn \in Conn
  <2>1. 0 \in 0 .. MaxChunks /\ <<>> \in Seq({"page", "data"}) /\ 0 \in Nat
    OBVIOUS
  <2> QED
    BY <2>1 DEF NewConn, Conn
<1>2. \A b \in Browsers : conn[b] = NewConn
  BY DEF Init
<1>3. conn \in [Browsers -> Conn]
  BY <1>1 DEF Init
<1>4. /\ pool \in [ServiceIds -> Seq(StreamIds)] /\ \A s \in ServiceIds : Len(pool[s]) <= maxPerService
      /\ waiters \in [ServiceIds -> Seq(Browsers)]
      /\ \A s \in ServiceIds : Elems(pool[s]) = {} /\ Elems(waiters[s]) = {} /\ waiters[s] = <<>>
  BY DEF Init, maxPerService, Elems
<1>5. DOMAIN live = {} /\ live \in [DOMAIN live -> {g.session : g \in Grants}]
  BY DEF Init
<1>6. TypeOK
  <2>1. /\ generation \in Nat /\ grant \in Grants \cup {NoGrant} /\ listening \in BOOLEAN
        /\ starts \in 0 .. MaxStarts /\ stops \in 0 .. MaxStops /\ starting \in 0 .. starts
    <3>1. /\ generation = 0 /\ grant = NoGrant /\ listening = FALSE
          /\ starts = 0 /\ stops = 0 /\ starting = 0
      BY DEF Init
    <3>2. 0 \in Nat /\ 0 \in 0 .. MaxStarts /\ 0 \in 0 .. MaxStops /\ 0 \in 0 .. 0
      OBVIOUS
    <3> QED
      BY <3>1, <3>2
  <2>2. warming = {} /\ bypass = {} /\ jobs = {}
    BY DEF Init
  <2> QED
    BY <1>3, <1>4, <1>5, <2>1, <2>2 DEF TypeOK
<1>7. NewConn.st = "new" /\ NewConn.got = <<>> /\ NewConn.bytes = 0
  BY DEF NewConn
<1>8. Owned /\ Unshared
  BY <1>2, <1>4, <1>5, <1>7 DEF Owned, Unshared, active
<1>9. ServedByCurrent /\ WarmingIsInFlight /\ WaitersHaveAWarmup
  BY <1>4, <1>5 DEF Init, ServedByCurrent, WarmingIsInFlight, WaitersHaveAWarmup
<1>10. GrantIsSet /\ ConnectsForGrant
  <2>1. ~ listening /\ starts = 0 /\ jobs = {}
    BY DEF Init
  <2>2. \A b \in Browsers : conn[b].st = "new"
    BY <1>2, <1>7
  <2>3. GrantIsSet
    BY <2>1, <2>2 DEF GrantIsSet
  <2>4. ConnectsForGrant
    BY <1>4, <2>2 DEF ConnectsForGrant
  <2> QED
    BY <2>3, <2>4
<1>11. NoPageAfterData
  BY <1>2, <1>7 DEF NoPageAfterData, NoPageAfter
<1> QED
  BY <1>6, <1>8, <1>9, <1>10, <1>11 DEF IInv

LEMMA NextIInv == IInv /\ NoPageAfterData /\ [Next]_vars => (IInv /\ NoPageAfterData)'
<1> SUFFICES ASSUME IInv, NoPageAfterData, [Next]_vars PROVE IInv' /\ NoPageAfterData'
  OBVIOUS
<1>1. CASE stop \/ \E g \in Grants : start(g)
  BY <1>1, StartStopKeepIInv
<1>2. CASE ListenerReady \/ ListenerFails \/ (\E s \in ServiceIds : BypassExpires(s)) \/ UNCHANGED vars
  <2>1. IInv' /\ UNCHANGED conn
    BY <1>2, ListenerKeepsIInv
  <2> QED
    BY <2>1 DEF NoPageAfterData, NoPageAfter
<1>3. ASSUME NEW b \in Browsers,
             \/ Connects(b) \/ handleBrowserConnection(b) \/ Connecting(b)
             \/ RequestWritten(b) \/ RequestFails(b) \/ ResponseChunk(b) \/ ResponseEnds(b)
             \/ ResponseTimeout(b) \/ PageSent(b) \/ BrowserFails(b)
      PROVE  IInv' /\ NoPageAfterData'
  BY <1>3, QuietSteps, HandleKeepsIInv, ConnectedKeepsIInv, ConnectingFails, EndingSteps DEF Connecting
<1>4. ASSUME NEW j \in jobs, Warm(j) PROVE IInv' /\ NoPageAfterData'
  BY <1>4, WarmFailsKeepsIInv, WarmSucceedsKeepsIInv DEF Warm
<1> QED
  BY <1>1, <1>2, <1>3, <1>4 DEF Next

\* Owners that are not shared are what StreamsHaveOneOwner counts.
LEMMA OneOwner == ASSUME IInv PROVE StreamsHaveOneOwner
<1>1. ASSUME NEW i \in DOMAIN live PROVE Cardinality(ActiveOn(i)) + Cardinality(PooledIn(i)) = 1
  <2>1. ActiveOn(i) # {} \/ PooledIn(i) # {}
    BY DEF IInv, Owned
  <2>2. \A b, d \in ActiveOn(i) : b = d
    BY DEF IInv, Unshared, ActiveOn
  <2>3. \A s, t \in PooledIn(i) : s = t
    BY DEF IInv, Unshared, PooledIn
  <2>4. ActiveOn(i) = {} \/ PooledIn(i) = {}
    BY DEF IInv, Unshared, ActiveOn, PooledIn
  <2>5. Cardinality({}) = 0 /\ \A x : Cardinality({x}) = 1
    BY FS_EmptySet, FS_Singleton
  <2>6. CASE ActiveOn(i) # {}
    <3>1. PICK b : b \in ActiveOn(i)
      BY <2>6
    <3>2. ActiveOn(i) = {b} /\ PooledIn(i) = {}
      BY <2>2, <2>4, <3>1
    <3>3. Cardinality(ActiveOn(i)) = 1 /\ Cardinality(PooledIn(i)) = 0
      BY <2>5, <3>2
    <3> QED
      BY <3>3
  <2>7. CASE PooledIn(i) # {}
    <3>1. PICK s : s \in PooledIn(i)
      BY <2>7
    <3>2. PooledIn(i) = {s} /\ ActiveOn(i) = {}
      BY <2>3, <2>4, <3>1
    <3>3. Cardinality(ActiveOn(i)) = 0 /\ Cardinality(PooledIn(i)) = 1
      BY <2>5, <3>2
    <3> QED
      BY <3>3
  <2> QED
    BY <2>1, <2>6, <2>7
<1>2. \A i \in StreamIds : ActiveOn(i) # {} \/ PooledIn(i) # {} => i \in DOMAIN live
  BY DEF IInv, Owned, ActiveOn, PooledIn
<1> QED
  BY <1>1, <1>2 DEF StreamsHaveOneOwner

\* Whatever starts, stops, connects and warm-ups cross each other: every open stream is in
\* the pool or serves one browser, belongs to the present session, and no browser waits for
\* a warm-up that will not come back (stop, push, ensureWarmedStream, activatePreparedStream).
THEOREM PoolStaysSound == Spec => []PoolIsSound
<1>1. IInv => PoolIsSound
  BY OneOwner DEF PoolIsSound
<1> QED
  BY <1>1, InitIInv, NextIInv, PTL DEF Spec

\* No error page follows a response that has begun, whichever of the timeout, the end of the
\* stream and the browser's own end comes first (readByteStreamResponse,
\* scheduleResponseTimeout).
THEOREM PagesComeFirst == Spec => []NoPageAfterData
BY InitIInv, NextIInv, PTL DEF Spec
=============================================================================
