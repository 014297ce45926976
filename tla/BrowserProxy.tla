------------------------------ MODULE BrowserProxy ------------------------------
(***************************************************************************)
(* ForegroundBrowserProxy of the Apple app, for http services: a local     *)
(* listener whose browser connections are served over streams to the node. *)
(* A spare stream is warmed in the background and kept in a pool; a        *)
(* connection that arrives during a warm-up waits for it; otherwise it     *)
(* connects on its own, over ICE first and over TCP when that fails.       *)
(*                                                                         *)
(* An action is one block on the proxy's serial queue, or one call of      *)
(* start or stop.  stop is taken to be atomic: the code calls it from the  *)
(* main actor, next to the queue.                                          *)
(***************************************************************************)
EXTENDS Naturals, Sequences, FiniteSets

CONSTANTS
    Grants,     \* [session, service, ice : BOOLEAN, tcp : BOOLEAN]
    Browsers,   \* browser connections
    NoGrant,
    MaxStarts,  \* bound: calls of start
    MaxStops,   \* bound: calls of stop other than those of start
    MaxChunks   \* bound: chunks of one response

ASSUME ProxyAssumption ==
    /\ IsFiniteSet(Grants) /\ IsFiniteSet(Browsers) /\ NoGrant \notin Grants
    /\ MaxStarts \in Nat /\ MaxStops \in Nat /\ MaxChunks \in Nat

ServiceIds == {g.service : g \in Grants}
maxPerService == 1

VARIABLES
    generation, grant, listening,
    starting,   \* calls of start that wait for their listener
    pool,       \* idleStreams: streams per service
    warming,    \* warmingServices
    waiters,    \* warmWaiters: browsers per service, in order
    jobs,       \* warm-ups in flight: [n, gen, grant, skip]
    bypass,     \* services in iceBypassUntil
    live,       \* open streams: stream id -> session
    conn,       \* browser connections
    starts, stops

vars == <<generation, grant, listening, starting, pool, warming, waiters, jobs, bypass, live, conn, starts, stops>>
control == <<generation, grant, listening, starting, starts, stops>>

NewConn == [st |-> "new", grant |-> NoGrant, gen |-> 0, known |-> FALSE, stream |-> 0, rd |-> "none",
            bytes |-> 0, timer |-> FALSE, paging |-> FALSE, gone |-> FALSE, got |-> <<>>]

Init ==
    /\ generation = 0 /\ grant = NoGrant /\ listening = FALSE /\ starting = 0
    /\ pool = [s \in ServiceIds |-> <<>>] /\ waiters = [s \in ServiceIds |-> <<>>]
    /\ warming = {} /\ jobs = {} /\ bypass = {} /\ live = <<>>
    /\ conn = [b \in Browsers |-> NewConn]
    /\ starts = 0 /\ stops = 0

Elems(s) == {s[i] : i \in 1 .. Len(s)}
StreamIds == 1 .. Cardinality(Browsers) + maxPerService * Cardinality(ServiceIds) + 1
NewStream == CHOOSE i \in StreamIds \ DOMAIN live : \A k \in StreamIds \ DOMAIN live : i <= k
Opened(session) == [i \in DOMAIN live \cup {NewStream} |-> IF i = NewStream THEN session ELSE live[i]]
Without(streams) == [i \in DOMAIN live \ streams |-> live[i]]

-----------------------------------------------------------------------------
\* start and stop.

\* What stop does to the streams and connections: pooled and active streams are closed,
\* their browsers cancelled; a waiter sees another generation and cancels its browser.
\* A connection that is still connecting only loses its entry in pipeStates.
CloseAll ==
    /\ live' = Without((UNION {Elems(pool[s]) : s \in ServiceIds})
                       \cup {conn[b].stream : b \in {x \in Browsers : conn[x].st = "active"}})
    /\ pool' = [s \in ServiceIds |-> <<>>]
    /\ warming' = {} /\ waiters' = [s \in ServiceIds |-> <<>>] /\ bypass' = {}
    /\ conn' = [b \in Browsers |->
           [conn[b] EXCEPT !.known = FALSE,
                           !.st = IF @ \in {"waiting", "active"} THEN "closed" ELSE @]]

\* A start that waits for a listener which is cancelled before it was ready never
\* resumes; k of the waiting ones had been resumed before.
start(g) ==
    /\ starts < MaxStarts /\ (g.ice \/ g.tcp)
    /\ CloseAll
    /\ generation' = generation + 2 /\ grant' = g /\ listening' = TRUE
    /\ \E k \in 0 .. starting : starting' = k + 1
    /\ starts' = starts + 1
    /\ UNCHANGED <<jobs, stops>>

stop ==
    /\ stops < MaxStops /\ starts > 0
    /\ CloseAll
    /\ generation' = generation + 1 /\ listening' = FALSE
    /\ starting' \in 0 .. starting
    /\ stops' = stops + 1
    /\ UNCHANGED <<grant, jobs, starts>>

\* ensureWarmedStream, given what the block has already made of the pool, the set of
\* warming services, the warm-ups in flight and the bypass.
ensureWarmedStream(p, w, js, by) ==
    LET s == grant.service
        n == CHOOSE i \in 1 .. Cardinality(js) + 1 : \A j \in js : j.n # i
    IN IF grant # NoGrant /\ p[s] = <<>> /\ s \notin w
       THEN /\ warming' = w \cup {s}
            /\ jobs' = js \cup {[n |-> n, gen |-> generation, grant |-> grant, skip |-> s \in by]}
       ELSE warming' = w /\ jobs' = js

ListenerReady ==
    /\ starting > 0 /\ starting' = starting - 1
    /\ ensureWarmedStream(pool, warming, jobs, bypass)
    /\ UNCHANGED <<generation, grant, listening, starts, stops, pool, waiters, bypass, live, conn>>

ListenerFails ==
    /\ starting > 0 /\ starting' = starting - 1
    /\ UNCHANGED <<generation, grant, listening, starts, stops, pool, warming, waiters, jobs, bypass, live, conn>>

-----------------------------------------------------------------------------
\* What becomes of a browser connection.

activatePreparedStream(c, stream) ==
    [c EXCEPT !.st = "active", !.known = TRUE, !.stream = stream, !.rd = "request", !.timer = TRUE]

\* A page is sent and the connection cancelled.
sendErrorPage(c) == [c EXCEPT !.st = "closed", !.known = FALSE, !.got = Append(@, "page")]

handleBrowserConnectionViaTCP(c) ==
    IF c.grant.tcp THEN [c EXCEPT !.st = "tcp", !.known = TRUE] ELSE sendErrorPage(c)

handleBrowserConnectionCold(c, by) ==
    IF c.grant.service \notin by /\ c.grant.ice
    THEN [c EXCEPT !.st = "udp", !.known = TRUE]
    ELSE handleBrowserConnectionViaTCP(c)

\* The kernel accepts a connection; its handler runs later, maybe after a stop.
Connects(b) ==
    /\ listening /\ conn[b].st = "new"
    /\ conn' = [conn EXCEPT ![b].st = "queued"]
    /\ UNCHANGED <<control, pool, warming, waiters, jobs, bypass, live>>

\* The grant is set before the listener exists, so its absence is never met.
handleBrowserConnection(b) ==
    LET s == grant.service
        c == [conn[b] EXCEPT !.grant = grant, !.gen = generation]
    IN /\ conn[b].st = "queued"
       /\ UNCHANGED <<control, bypass, live>>
       /\ \/ /\ pool[s] # <<>>
             /\ conn' = [conn EXCEPT ![b] = activatePreparedStream(c, Head(pool[s]))]
             /\ pool' = [pool EXCEPT ![s] = Tail(@)]
             /\ ensureWarmedStream(pool', warming, jobs, bypass)
             /\ UNCHANGED waiters
          \/ /\ pool[s] = <<>> /\ s \in warming
             /\ conn' = [conn EXCEPT ![b] = [c EXCEPT !.st = "waiting"]]
             /\ waiters' = [waiters EXCEPT ![s] = Append(@, b)]
             /\ UNCHANGED <<pool, warming, jobs>>
          \/ /\ pool[s] = <<>> /\ s \notin warming
             /\ conn' = [conn EXCEPT ![b] = handleBrowserConnectionCold(c, bypass)]
             /\ UNCHANGED <<pool, warming, waiters, jobs>>

\* The stream that a connection opened for itself is there.
Connected(b) ==
    /\ conn[b].st \in {"udp", "tcp"}
    /\ IF conn[b].known
       THEN /\ conn' = [conn EXCEPT ![b] = activatePreparedStream(@, NewStream)]
            /\ live' = Opened(conn[b].grant.session)
            /\ bypass' = IF conn[b].st = "udp" THEN bypass \ {conn[b].grant.service} ELSE bypass
       ELSE conn' = [conn EXCEPT ![b].st = "dropped"] /\ UNCHANGED <<live, bypass>>
    /\ UNCHANGED <<control, pool, warming, waiters, jobs>>

UdpFailed(b) ==
    /\ conn[b].st = "udp"
    /\ IF conn[b].known
       THEN /\ bypass' = bypass \cup {conn[b].grant.service}
            /\ conn' = [conn EXCEPT ![b] = handleBrowserConnectionViaTCP(@)]
       ELSE conn' = [conn EXCEPT ![b].st = "dropped"] /\ UNCHANGED bypass
    /\ UNCHANGED <<control, pool, warming, waiters, jobs, live>>

TcpFailed(b) ==
    /\ conn[b].st = "tcp"
    /\ conn' = [conn EXCEPT ![b] = sendErrorPage(@)]
    /\ UNCHANGED <<control, pool, warming, waiters, jobs, bypass, live>>

\* iceFailureBypassSeconds have passed since the last failure.
BypassExpires(s) ==
    /\ s \in bypass /\ bypass' = bypass \ {s}
    /\ UNCHANGED <<control, pool, warming, waiters, jobs, live, conn>>

-----------------------------------------------------------------------------
\* The warm-up in the background.

\* IdleStreamPool.push: a stream that finds the pool full is closed.
push(s, opened) ==
    IF Len(pool[s]) < maxPerService
    THEN live' = opened /\ pool' = [pool EXCEPT ![s] = Append(@, NewStream)]
    ELSE UNCHANGED <<live, pool>>

\* Warm-up waiters: the first gets the stream, the others connect on their own.
resolve(s, opened, by) ==
    /\ live' = opened
    /\ conn' = [b \in Browsers |->
           IF b = Head(waiters[s]) THEN activatePreparedStream(conn[b], NewStream)
           ELSE IF b \in Elems(waiters[s]) THEN handleBrowserConnectionCold(conn[b], by)
           ELSE conn[b]]
    /\ waiters' = [waiters EXCEPT ![s] = <<>>]
    /\ UNCHANGED pool

\* Seeded bug: the waiters of a failed warm-up are not told.
RejectNobody(s) == UNCHANGED <<conn, waiters>>

reject(s) ==
    /\ conn' = [b \in Browsers |->
           IF b \in Elems(waiters[s]) THEN handleBrowserConnectionCold(conn[b], bypass) ELSE conn[b]]
    /\ waiters' = [waiters EXCEPT ![s] = <<>>]

\* Seeded bug: the generation is not compared.
AnyGeneration(j) == TRUE

IsCurrent(j) == generation = j.gen /\ grant.session = j.grant.session

\* The flag goes first, whichever generation set it.
WarmSucceeds(j, via) ==
    LET s == j.grant.service
        by == IF via = "ice" THEN bypass \ {s} ELSE bypass
        opened == Opened(j.grant.session)
    IN /\ j \in jobs /\ jobs' = jobs \ {j}
       /\ IF via = "ice" THEN j.grant.ice /\ ~j.skip ELSE j.grant.tcp
       /\ warming' = warming \ {s}
       /\ IF ~IsCurrent(j) THEN UNCHANGED <<pool, waiters, bypass, live, conn>>
          ELSE /\ bypass' = by
               /\ IF waiters[s] # <<>> THEN resolve(s, opened, by)
                  ELSE push(s, opened) /\ UNCHANGED <<waiters, conn>>
       /\ UNCHANGED control

WarmFails(j) ==
    /\ j \in jobs /\ jobs' = jobs \ {j}
    /\ warming' = warming \ {j.grant.service}
    /\ IF generation = j.gen THEN reject(j.grant.service) ELSE UNCHANGED <<conn, waiters>>
    /\ UNCHANGED <<control, pool, bypass, live>>

-----------------------------------------------------------------------------
\* A connection with its stream.

\* close(id): an active connection ends; one that is still connecting is forgotten.
close(b) ==
    IF conn[b].st = "active"
    THEN /\ conn' = [conn EXCEPT ![b].st = "closed", ![b].known = FALSE, ![b].timer = FALSE]
         /\ live' = Without({conn[b].stream})
         /\ IF grant.service = conn[b].grant.service
            THEN ensureWarmedStream(pool, warming, jobs, bypass)
            ELSE UNCHANGED <<warming, jobs>>
    ELSE /\ conn' = [conn EXCEPT ![b].known = FALSE, ![b].gone = TRUE]
         /\ UNCHANGED <<live, warming, jobs>>

\* sendActiveErrorPage; the connection is closed when the page has been sent.
sendActiveErrorPage(b, rd) ==
    conn' = [conn EXCEPT ![b].rd = rd, ![b].paging = TRUE, ![b].got = Append(@, "page")]

active(b) == conn[b].st = "active"

\* medium.write succeeds or fails; the browser's request is complete.
RequestWritten(b) ==
    /\ active(b) /\ conn[b].rd = "request"
    /\ conn' = [conn EXCEPT ![b].rd = "response"]
    /\ UNCHANGED <<control, pool, warming, waiters, jobs, bypass, live>>

RequestFails(b) ==
    /\ active(b) /\ conn[b].rd = "request"
    /\ sendActiveErrorPage(b, "over")
    /\ UNCHANGED <<control, pool, warming, waiters, jobs, bypass, live>>

\* readByteStreamResponse, one chunk.
ResponseChunk(b) ==
    /\ active(b) /\ conn[b].rd = "response" /\ conn[b].bytes < MaxChunks
    /\ conn' = [conn EXCEPT ![b].bytes = @ + 1, ![b].timer = FALSE, ![b].got = Append(@, "data")]
    /\ UNCHANGED <<control, pool, warming, waiters, jobs, bypass, live>>

\* Seeded bug: an error page also ends a response that has begun.
PageAlways(b) ==
    /\ active(b) /\ conn[b].rd = "response"
    /\ sendActiveErrorPage(b, "over") /\ UNCHANGED <<live, warming, jobs>>
    /\ UNCHANGED <<control, pool, waiters, bypass>>

\* readByteStreamResponse, the end of the stream or an error.
ResponseEnds(b) ==
    /\ active(b) /\ conn[b].rd = "response"
    /\ IF conn[b].bytes = 0
       THEN sendActiveErrorPage(b, "over") /\ UNCHANGED <<live, warming, jobs>>
       ELSE close(b)
    /\ UNCHANGED <<control, pool, waiters, bypass>>

\* scheduleResponseTimeout's work item, 12 s after the stream was activated.
ResponseTimeout(b) ==
    /\ conn[b].timer
    /\ IF active(b) /\ conn[b].bytes = 0
       THEN conn' = [conn EXCEPT ![b].timer = FALSE, ![b].paging = TRUE, ![b].got = Append(@, "page")]
       ELSE conn' = [conn EXCEPT ![b].timer = FALSE]
    /\ UNCHANGED <<control, pool, warming, waiters, jobs, bypass, live>>

PageSent(b) ==
    /\ active(b) /\ conn[b].paging
    /\ close(b)
    /\ UNCHANGED <<control, pool, waiters, bypass>>

\* The browser's connection fails: .failed, a receive error or a send error.
BrowserFails(b) ==
    /\ conn[b].st \in {"udp", "tcp", "active"} /\ ~conn[b].gone
    /\ close(b)
    /\ UNCHANGED <<control, pool, waiters, bypass>>

-----------------------------------------------------------------------------
Connecting(b) == Connected(b) \/ UdpFailed(b) \/ TcpFailed(b)
Warm(j) == WarmFails(j) \/ \E via \in {"ice", "tcp"} : WarmSucceeds(j, via)

Next ==
    \/ \E g \in Grants : start(g)
    \/ stop \/ ListenerReady \/ ListenerFails
    \/ \E b \in Browsers :
           \/ Connects(b) \/ handleBrowserConnection(b) \/ Connecting(b)
           \/ RequestWritten(b) \/ RequestFails(b) \/ ResponseChunk(b) \/ ResponseEnds(b)
           \/ ResponseTimeout(b) \/ PageSent(b) \/ BrowserFails(b)
    \/ \E s \in ServiceIds : BypassExpires(s)
    \/ \E j \in jobs : Warm(j)

Spec == Init /\ [][Next]_vars

-----------------------------------------------------------------------------
Conn ==
    [st : {"new", "queued", "waiting", "udp", "tcp", "active", "closed", "dropped"},
     grant : Grants \cup {NoGrant}, gen : Nat, known : BOOLEAN, stream : StreamIds \cup {0},
     rd : {"none", "request", "response", "over"}, bytes : 0 .. MaxChunks,
     timer : BOOLEAN, paging : BOOLEAN, gone : BOOLEAN, got : Seq({"page", "data"})]

\* Types, and the bound of the pool (maxPerService).
TypeOK ==
    /\ generation \in Nat /\ grant \in Grants \cup {NoGrant} /\ listening \in BOOLEAN
    /\ starts \in 0 .. MaxStarts /\ stops \in 0 .. MaxStops /\ starting \in 0 .. starts
    /\ pool \in [ServiceIds -> Seq(StreamIds)] /\ \A s \in ServiceIds : Len(pool[s]) <= maxPerService
    /\ waiters \in [ServiceIds -> Seq(Browsers)]
    /\ warming \subseteq ServiceIds /\ bypass \subseteq ServiceIds
    /\ \A j \in jobs : j.gen \in 0 .. generation /\ j.grant \in Grants
    /\ live \in [DOMAIN live -> {g.session : g \in Grants}] /\ DOMAIN live \subseteq StreamIds
    /\ conn \in [Browsers -> Conn]

ActiveOn(i) == {b \in Browsers : active(b) /\ conn[b].stream = i}
PooledIn(i) == {s \in ServiceIds : i \in Elems(pool[s])}

\* Every open stream is either in the pool or serves exactly one browser, and neither
\* holds a closed one: a stream that lost its place was closed (push, stop, close, the
\* callbacks of late connects and warm-ups).
StreamsHaveOneOwner ==
    /\ \A i \in DOMAIN live : Cardinality(ActiveOn(i)) + Cardinality(PooledIn(i)) = 1
    /\ \A i \in StreamIds : ActiveOn(i) # {} \/ PooledIn(i) # {} => i \in DOMAIN live

\* After start has replaced the grant, no browser is served and no stream is kept that
\* belongs to an earlier session, however late a connect or a warm-up comes back.
ServedByCurrent == \A i \in DOMAIN live : live[i] = grant.session

\* A warm-up of this generation for service s is in flight.
InFlight(s) == \E j \in jobs : j.gen = generation /\ j.grant.service = s

\* Who waits for a warm-up waits for one of this generation that is still in flight, so
\* that its callback will find and wake the waiter (ensureWarmedStream, lines 496-522).
WaitersHaveAWarmup == \A s \in ServiceIds : waiters[s] # <<>> => InFlight(s)

-----------------------------------------------------------------------------
\* What makes these inductive.

\* The owners of streams, one by one: what StreamsHaveOneOwner counts.
Owned ==
    /\ \A b \in Browsers : active(b) => conn[b].stream \in DOMAIN live
    /\ \A s \in ServiceIds : Elems(pool[s]) \subseteq DOMAIN live
    /\ \A i \in DOMAIN live : ActiveOn(i) # {} \/ PooledIn(i) # {}
Unshared ==
    /\ \A b, d \in Browsers : active(b) /\ active(d) /\ conn[b].stream = conn[d].stream => b = d
    /\ \A s, t \in ServiceIds : \A i \in Elems(pool[s]) \cap Elems(pool[t]) : s = t
    /\ \A b \in Browsers : active(b) => \A s \in ServiceIds : conn[b].stream \notin Elems(pool[s])

\* Nothing happens before the first start, and a generation has one grant.
GrantIsSet ==
    /\ listening \/ starts > 0 \/ jobs # {} \/ (\E b \in Browsers : conn[b].st # "new") => grant \in Grants
    /\ \A j \in jobs : j.gen = generation => j.grant = grant

\* A service that is marked as warming has its warm-up in flight.
WarmingIsInFlight == \A s \in warming : InFlight(s)

\* Who waits or connects, and is not forgotten, does so for the present grant.
ConnectsForGrant ==
    /\ \A s \in ServiceIds : \A b \in Elems(waiters[s]) :
           conn[b].st = "waiting" /\ conn[b].grant = grant /\ grant.service = s
    /\ \A b \in Browsers : conn[b].st \in {"udp", "tcp"} /\ conn[b].known => conn[b].grant = grant

IInv ==
    /\ TypeOK /\ Owned /\ Unshared /\ ServedByCurrent
    /\ GrantIsSet /\ WarmingIsInFlight /\ WaitersHaveAWarmup /\ ConnectsForGrant

\* Every open stream is either in the pool or serves exactly one browser, belongs to the
\* session of the present grant, and who waits for a warm-up waits for one of this
\* generation that is still in flight (push, stop, the checks of generation,
\* ensureWarmedStream); with the inductive invariant that this follows from.
PoolIsSound == IInv /\ StreamsHaveOneOwner

\* The response of the service is never followed by an error page of the proxy: a page
\* ends a connection only as long as no byte was read (the response timeout and the end
\* of the stream).
NoPageAfter(c) ==
    /\ \A i, k \in 1 .. Len(c.got) : i < k /\ c.got[i] = "data" => c.got[k] = "data"
    /\ c.bytes = 0 => \A i \in 1 .. Len(c.got) : c.got[i] # "data"
    /\ c.st \notin {"active", "closed"} \/ c.rd = "request" => c.bytes = 0
NoPageAfterData == \A b \in Browsers : NoPageAfter(conn[b])

\* An accepted browser connection gets a response or an error page, or ends, unless the
\* proxy is stopped or restarted meanwhile.
Answered ==
    \A b \in Browsers :
        conn[b].st = "queued" ~> \/ conn[b].got # <<>> \/ conn[b].st = "closed" \/ conn[b].gone
                                 \/ (conn[b].st # "queued" /\ generation # conn[b].gen)
=============================================================================
