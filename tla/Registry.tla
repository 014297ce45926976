-------------------------------- MODULE Registry --------------------------------
(***************************************************************************)
(* The control plane's registry: node agents register when they start, and *)
(* a client asks for the catalog, a certificate and a session (medium ssh),*)
(* or for the catalog and a session (the apps), each in several queries.   *)
(* All of them share one database connection (max_connections(1)), which a *)
(* registration's transaction holds from begin to commit.                  *)
(*                                                                         *)
(* made[n] is the sequence of configurations that node n was started with; *)
(* rows of the database are named by their node and the position, rev, of  *)
(* the configuration they come from.  A configuration has a label, whether *)
(* its public address has a port, and services [id, kind, user] with 0 for *)
(* no user name.  Nodes are integers, in the order of their ids.           *)
(***************************************************************************)
EXTENDS Integers, Sequences

CONSTANTS
    Nodes, Configs, \* Configs[n]: what n may be configured with
    Phones,         \* whether the client is one of the apps, or medium ssh
    Ask,            \* the name of the device that the user wants
    MaxConfigs, MaxAttempts, MaxCrashes, MaxStops

ASSUME RegistryAssumption ==
    /\ Nodes \subseteq Nat /\ Ask \notin Nodes
    /\ Phones \subseteq BOOLEAN /\ MaxAttempts \in Nat \ {0}

VARIABLES
    made,      \* configurations used
    agent,     \* [phase, attempt] of each node's agent
    calls,     \* registrations under way: [node, rev, live]
    up,        \* the control plane runs
    db,        \* committed: [label, endpoints, services : rev of each node; older]
    tx,        \* the transaction that holds the connection, or none
    committed, \* every [node, rev] committed so far
    faults,    \* [crashes, stops]; a broken connection counts as a crash
    client     \* medium ssh, or an app

vars == <<made, agent, calls, up, db, tx, committed, faults, client>>

Config(n, rev) == made[n][rev]
Rev(n) == Len(made[n])
NoTx == [open |-> FALSE]
None == [node |-> 0, rev |-> 0]
Empty == [label |-> [n \in Nodes |-> 0], endpoints |-> [n \in Nodes |-> 0],
          services |-> [n \in Nodes |-> 0], older |-> {}]
NewClient(phone) ==
    [phone |-> phone, pc |-> "nodes", purpose |-> IF phone THEN "session" ELSE "cert",
     todo |-> {}, services |-> 0, list |-> {}, device |-> None, cert |-> None, route |-> None,
     udp |-> 0, seen |-> {}, quiet |-> TRUE]
Refused == [NewClient(client.phone) EXCEPT !.pc = "refused"]

Init ==
    /\ made = [n \in Nodes |-> <<>>]
    /\ agent = [n \in Nodes |-> [phase |-> "off", attempt |-> 0]]
    /\ calls = {} /\ up = TRUE /\ db = Empty /\ tx = NoTx /\ committed = {}
    /\ faults = [crashes |-> 0, stops |-> 0]
    /\ \E phone \in Phones : client = NewClient(phone)

-----------------------------------------------------------------------------
(***************************************************************************)
(* The node agent: run_with_shutdown registers first.                      *)
(***************************************************************************)
Set(n, phase, attempt) == agent' = [agent EXCEPT ![n] = [phase |-> phase, attempt |-> attempt]]

Start(n) ==
    /\ agent[n].phase = "off" /\ Rev(n) < MaxConfigs
    /\ \E c \in Configs[n] : made' = [made EXCEPT ![n] = Append(@, c)]
    /\ Set(n, "calling", 1)
    /\ UNCHANGED <<calls, up, db, tx, committed, faults, client>>

\* A call that nobody waits for may still be carried out.
Abandon(n) ==
    /\ calls' = {[c EXCEPT !.live = @ /\ c.node # n] : c \in calls}
    /\ tx' = IF tx.open THEN [tx EXCEPT !.call.live = @ /\ tx.call.node # n] ELSE tx

Stop(n) ==
    /\ agent[n].phase # "off" /\ faults.stops < MaxStops
    /\ faults' = [faults EXCEPT !.stops = @ + 1]
    /\ Set(n, "off", 0)
    /\ Abandon(n)
    /\ UNCHANGED <<made, up, db, committed, client>>

register_node(n) ==
    /\ agent[n].phase = "calling" /\ up
    /\ Set(n, "asked", agent[n].attempt)
    /\ calls' = calls \cup {[node |-> n, rev |-> Rev(n), live |-> TRUE]}
    /\ UNCHANGED <<made, up, db, tx, committed, faults, client>>

\* register_node_with_retry, after a refused or broken connection.
Again(n) == IF agent[n].attempt < MaxAttempts THEN Set(n, "calling", agent[n].attempt + 1) ELSE Set(n, "failed", 0)

ConnectionBreaks(n) ==
    /\ agent[n].phase = "asked" /\ faults.crashes < MaxCrashes
    /\ faults' = [faults EXCEPT !.crashes = @ + 1]
    /\ Abandon(n) /\ Again(n)
    /\ UNCHANGED <<made, up, db, committed, client>>

ConnectionRefused(n) ==
    /\ agent[n].phase = "calling" /\ ~up
    /\ Again(n)
    /\ UNCHANGED <<made, calls, up, db, tx, committed, faults, client>>

\* Seeded bug: the agent stays down.
NoRespawn(n) == agent[n].phase = "failed" /\ FALSE /\ UNCHANGED vars

\* Restart=on-failure
Respawn(n) ==
    /\ agent[n].phase = "failed"
    /\ Set(n, "calling", 1)
    /\ UNCHANGED <<made, calls, up, db, tx, committed, faults, client>>

-----------------------------------------------------------------------------
(***************************************************************************)
(* RegistryStore::register_node: one transaction.                          *)
(***************************************************************************)
Free == up /\ ~tx.open

\* The endpoints of n are deleted and inserted again, with new row ids: those of all
\* other nodes are older.
Reinserted(older, n) ==
    {p \in older : n \notin {p[1], p[2]}} \cup {<<m, n>> : m \in {k \in Nodes \ {n} : db.label[k] # 0}}

\* The node's row is written, its other rows deleted, its endpoints inserted.
TxBegin(n) ==
    /\ Free
    /\ \E c \in {k \in calls : k.node = n} :
           /\ tx' = [open |-> TRUE, call |-> c, step |-> "services",
                     work |-> [db EXCEPT !.label[n] = c.rev, !.endpoints[n] = c.rev, !.services[n] = 0,
                                         !.older = Reinserted(@, n)]]
           /\ calls' = calls \ {c}
    /\ UNCHANGED <<made, agent, up, db, committed, faults, client>>

Duplicates(services) == \E i, j \in DOMAIN services : i # j /\ services[i].id = services[j].id

\* The caller learns how it ended, if it still waits.
Return(ok) ==
    LET n == tx.call.node
    IN  IF ~tx.call.live THEN UNCHANGED agent ELSE IF ok THEN Set(n, "running", 0) ELSE Again(n)

\* Seeded bug: what was written before the duplicate stays.
KeepPartial(failed) == IF failed THEN db' = tx.work ELSE UNCHANGED db

\* A transaction that is dropped is rolled back.
Rollback(failed) == UNCHANGED db

\* The key (node_id, id) is unique.
TxServices ==
    /\ tx.open /\ tx.step = "services"
    /\ LET failed == Duplicates(Config(tx.call.node, tx.call.rev).services)
       IN  /\ Rollback(failed)
           /\ IF failed THEN tx' = NoTx /\ Return(FALSE)
              ELSE tx' = [tx EXCEPT !.step = "commit", !.work.services[tx.call.node] = tx.call.rev] /\ UNCHANGED agent
    /\ UNCHANGED <<made, calls, up, committed, faults, client>>

\* The client has begun and is not done.
Asking == client.pc \notin {"open", "refused"} /\ client # NewClient(client.phone)

TxCommit ==
    /\ tx.open /\ tx.step = "commit"
    /\ db' = tx.work /\ tx' = NoTx
    /\ committed' = committed \cup {[node |-> tx.call.node, rev |-> tx.call.rev]}
    /\ client' = IF ~Asking THEN client
                 ELSE [client EXCEPT !.quiet = FALSE, !.seen = @ \cup {[node |-> tx.call.node, rev |-> tx.call.rev]}]
    /\ Return(TRUE)
    /\ UNCHANGED <<made, calls, up, faults>>

\* Its connections break; the database keeps what is committed.
ControlCrashes ==
    /\ up /\ faults.crashes < MaxCrashes
    /\ up' = FALSE /\ tx' = NoTx /\ calls' = {}
    /\ faults' = [faults EXCEPT !.crashes = @ + 1]
    /\ client' = IF Asking THEN Refused ELSE client
    /\ agent' = [n \in Nodes |-> IF agent[n].phase # "asked" THEN agent[n]
                                 ELSE IF agent[n].attempt < MaxAttempts THEN [phase |-> "calling", attempt |-> agent[n].attempt + 1]
                                 ELSE [phase |-> "failed", attempt |-> 0]]
    /\ UNCHANGED <<made, db, committed>>

ControlRestarts ==
    /\ ~up /\ up' = TRUE
    /\ UNCHANGED <<made, agent, calls, db, tx, committed, faults, client>>

-----------------------------------------------------------------------------
(***************************************************************************)
(* The client: medium ssh gets the catalog and a certificate, and its      *)
(* ProxyCommand gets the catalog again and a session.                      *)
(***************************************************************************)
Query(pc) ==
    /\ client.pc = pc /\ Free
    /\ UNCHANGED <<made, agent, calls, up, db, tx, committed, faults>>

Labelled == {n \in Nodes : db.label[n] # 0}
Row(n) == [node |-> n, label |-> Config(n, db.label[n]).label]
Rows == {Row(n) : n \in Labelled}

\* select id, label from nodes order by id; the rows present now are noted.
ListNodes ==
    /\ Query("nodes")
    /\ client' = [client EXCEPT !.pc = "services", !.list = {}, !.todo = Rows,
                                !.seen = {[node |-> n, rev |-> db.endpoints[n]] : n \in Nodes}]

\* The rows and devices are in the order of the nodes' ids.
First(S) == CHOOSE d \in S : \A e \in S : d.node <= e.node

ServicesOf(n, rev) == IF rev = 0 THEN <<>> ELSE Config(n, rev).services
Ssh(services) == {i \in DOMAIN services : services[i].kind = "ssh"}

list_node_services ==
    /\ Query("services")
    /\ client' = IF client.todo = {} THEN [client EXCEPT !.pc = "find"]
                 ELSE [client EXCEPT !.pc = "endpoint", !.services = db.services[First(client.todo).node]]

\* The SSH service of a node with the least id, if it has a user name.
SshService(n) ==
    LET found == ServicesOf(n, db.services[n])
        first == CHOOSE i \in Ssh(found) : \A j \in Ssh(found) : found[i].id <= found[j].id
    IN  IF Ssh(found) # {} /\ found[first].user # 0 THEN [rev |-> db.services[n], id |-> found[first].id]
        ELSE [rev |-> 0, id |-> 0]

Device(row, services, ssh) ==
    [node |-> row.node, label |-> row.label, services |-> services, ssh |-> ssh.rev, id |-> ssh.id]

\* The SSH entry of a device; an address without a port fails the whole catalog.
SshEntry ==
    /\ Query("endpoint")
    /\ LET row == First(client.todo)
           ssh == SshService(row.node)
       IN  IF ssh.rev # 0 /\ ~Config(row.node, db.endpoints[row.node]).port THEN client' = Refused
           ELSE client' = [client EXCEPT !.pc = "services", !.todo = @ \ {row}, !.services = 0,
                                         !.list = @ \cup {Device(row, client.services, ssh)}]

\* The first of these devices, if it is a good one and has an SSH entry.
TakeDevice(hits, good) ==
    /\ LET d == First(hits)
       IN  IF hits = {} \/ d.ssh = 0 \/ d \notin good THEN client' = Refused
           ELSE client' = [client EXCEPT !.pc = "route", !.list = {}, !.device = [node |-> d.node, id |-> d.id]]
    /\ UNCHANGED <<made, agent, calls, up, db, tx, committed, faults>>

\* run_ssh_command looks for the name.
SshDevice ==
    /\ client.pc = "find" /\ ~client.phone /\ client.purpose = "cert"
    /\ TakeDevice({d \in client.list : d.label = Ask}, client.list)

\* Seeded bug: the proxy takes the first device.
FirstDevice(d, name) == TRUE

find_device(d, name) == d.label = name \/ d.node = name

\* The services of a device are listed before its SSH entry is looked up: after a
\* registration in between they may lack the entry's service.
Publishes(n, rev, id) == \E i \in DOMAIN ServicesOf(n, rev) : ServicesOf(n, rev)[i].id = id
HasService(d) == Publishes(d.node, d.services, d.id)

run_proxy_ssh ==
    /\ client.pc = "find" /\ ~client.phone /\ client.purpose = "session"
    /\ TakeDevice({d \in client.list : find_device(d, Ask)}, {d \in client.list : HasService(d)})

\* The apps list the services of all devices.
ChooseService ==
    /\ client.pc = "find" /\ client.phone
    /\ \/ client' = Refused
       \/ \E d \in client.list :
              \E i \in DOMAIN ServicesOf(d.node, d.services) :
                  client' = [client EXCEPT !.pc = "route", !.list = {},
                                           !.device = [node |-> d.node, id |-> ServicesOf(d.node, d.services)[i].id]]
    /\ UNCHANGED <<made, agent, calls, up, db, tx, committed, faults>>

Publishers(id) == {n \in Nodes : Publishes(n, db.services[n], id)}

\* The node that a route leads to, if there is one: without the id of a node, the one
\* whose endpoints have the least row ids, being registered for the longest time.
resolve_service_route(id) == {n \in Publishers(id) : \A m \in Publishers(id) \ {n} : <<n, m>> \in db.older}

resolve_node_service_route(node, id) == {n \in Publishers(id) : n = node}

\* The user name in the row of a service.
UserOf(n, id) ==
    LET services == ServicesOf(n, db.services[n])
    IN  services[CHOOSE i \in DOMAIN services : services[i].id = id].user

\* First query of a route: node, user name and TCP address.
Route ==
    /\ Query("route")
    /\ LET found == IF client.phone THEN resolve_service_route(client.device.id)
                    ELSE resolve_node_service_route(client.device.node, client.device.id)
       IN  \/ found = {} /\ client' = Refused
           \/ \E n \in found :
                  client' = [client EXCEPT !.pc = "endpoints",
                                           !.route = [node |-> n, rev |-> db.endpoints[n],
                                                      user |-> UserOf(n, client.device.id)]]

\* Seeded bug: the endpoints of any node.
UdpOfFirst(n) == db.endpoints[CHOOSE m \in Nodes : TRUE]

\* RegistryStore::endpoints
UdpOf(n) == db.endpoints[n]

\* After the second query a certificate for the user is signed; the client has the
\* secret and the control plane the key of the SSH CA.
issue_ssh_certificate ==
    /\ Query("endpoints") /\ client.purpose = "cert"
    /\ client' = IF client.route.user = 0 THEN Refused
                 ELSE [client EXCEPT !.pc = "nodes", !.purpose = "session", !.cert = client.route]

\* After the second query the grant is issued.
open_session ==
    /\ Query("endpoints") /\ client.purpose = "session"
    /\ client' = [client EXCEPT !.pc = "open", !.udp = UdpOf(client.route.node)]

Client == \/ ListNodes \/ list_node_services \/ SshEntry \/ SshDevice \/ run_proxy_ssh
          \/ ChooseService \/ Route \/ issue_ssh_certificate \/ open_session

\* The user asks again.
Retry ==
    /\ client.pc \in {"open", "refused"}
    /\ \E phone \in Phones : client' = NewClient(phone)
    /\ UNCHANGED <<made, agent, calls, up, db, tx, committed, faults>>

Agent(n) == register_node(n) \/ ConnectionRefused(n) \/ Respawn(n)
Control == TxServices \/ TxCommit \/ ControlRestarts
Next == \/ Control \/ ControlCrashes \/ Client \/ Retry
        \/ \E n \in Nodes : Start(n) \/ Stop(n) \/ ConnectionBreaks(n) \/ Agent(n) \/ TxBegin(n)

Spec == Init /\ [][Next]_vars

-----------------------------------------------------------------------------
Call == [node : Nodes, rev : Nat, live : BOOLEAN]

IsDb(d) ==
    /\ DOMAIN d = {"label", "endpoints", "services", "older"}
    /\ {d.label, d.endpoints, d.services} \subseteq [Nodes -> Nat]

TypeOK ==
    /\ made \in [Nodes -> Seq(UNION {Configs[n] : n \in Nodes})]
    /\ agent \in [Nodes -> [phase : {"off", "calling", "asked", "running", "failed"}, attempt : 0 .. MaxAttempts]]
    /\ calls \subseteq Call
    /\ IsDb(db)
    /\ \/ tx = NoTx
       \/ /\ DOMAIN tx = {"open", "call", "step", "work"}
          /\ tx.open = TRUE /\ tx.call \in Call /\ IsDb(tx.work)

\* The rows of a node come from one registration, whatever failed, crashed or
\* arrived late (register_node's transaction).
WholeRegistrations ==
    \A n \in Nodes : /\ db.label[n] = db.endpoints[n] /\ db.endpoints[n] = db.services[n]
                     /\ db.label[n] # 0 => [node |-> n, rev |-> db.label[n]] \in committed

\* An agent opens its proxy only after its present configuration was committed
\* (run_with_shutdown).
RunningIsRegistered ==
    \A n \in Nodes : agent[n].phase = "running" => [node |-> n, rev |-> Rev(n)] \in committed

\* The rows of a node come from one committed registration, and an agent opens its
\* proxy only after its own was committed (register_node, run_with_shutdown).
RegistrationsAreWhole == WholeRegistrations /\ RunningIsRegistered

\* TCP address and UDP endpoints of a grant are of one node, and each was
\* registered at some moment since the catalog was asked for; with a registration
\* in between the two may differ.
RouteIsRecent ==
    client.pc = "open" =>
        /\ [node |-> client.route.node, rev |-> client.route.rev] \in client.seen
        /\ [node |-> client.route.node, rev |-> client.udp] \in client.seen
        /\ client.quiet => client.udp = client.route.rev

\* The certificate is for the node, and if nothing was registered meanwhile for the
\* user, that the SSH connection reaches (run_ssh_command and its ProxyCommand).
CertificateFits ==
    client.pc = "open" /\ client.quiet =>
        client.cert.node = client.route.node /\ client.cert.user = client.route.user

\* A session of medium ssh leads to the node that it found by its name, although
\* another publishes the same service id (resolve_node_service_route).  The apps send
\* no node id: theirs leads to the publisher registered longest.
SessionIsTheChosen == client.pc = "open" => client.route.node = client.device.node

\* An agent whose configuration is valid comes up unless it is stopped, although the
\* control plane crashes and attempts run out.
ComesUp ==
    \A n \in Nodes : agent[n].phase = "calling" ~>
        (agent[n].phase \in {"running", "off"} \/ Duplicates(Config(n, Rev(n)).services))

-----------------------------------------------------------------------------
(***************************************************************************)
(* The inductive invariant: what a transaction has written is whole but    *)
(* for the node it is about, and a call that is waited for is the only one *)
(* of its agent and carries the agent's present configuration.             *)
(***************************************************************************)
WholeIn(d, n) ==
    /\ d.label[n] = d.endpoints[n] /\ d.endpoints[n] = d.services[n]
    /\ d.label[n] # 0 => [node |-> n, rev |-> d.label[n]] \in committed

WorkIsWhole ==
    tx.open =>
        /\ \A n \in Nodes \ {tx.call.node} : WholeIn(tx.work, n)
        /\ tx.work.label[tx.call.node] = tx.call.rev
        /\ tx.work.endpoints[tx.call.node] = tx.call.rev
        /\ tx.step = "commit" => tx.work.services[tx.call.node] = tx.call.rev

Awaited(c) == c.rev = Rev(c.node) /\ agent[c.node].phase = "asked"
AwaitedIsCurrent ==
    /\ \A c \in calls : c.live => Awaited(c)
    /\ tx.open /\ tx.call.live => Awaited(tx.call) /\ \A c \in calls : c.live => c.node # tx.call.node

IInv == TypeOK /\ RegistrationsAreWhole /\ WorkIsWhole /\ AwaitedIsCurrent

(***************************************************************************)
(* Rows come from configurations that were used.  Of an open transaction   *)
(* only the rows of its node differ from the committed ones.  Endpoints    *)
(* are ordered by age, so that a service id has an oldest publisher.       *)
(***************************************************************************)
RevsExist(d) == \A n \in Nodes : {d.label[n], d.endpoints[n], d.services[n]} \subseteq 0 .. Rev(n)

IsOrder(R, S) ==
    /\ R \subseteq S \X S
    /\ \A m, n \in S : IF m = n THEN <<m, n>> \notin R ELSE <<m, n>> \in R <=> <<n, m>> \notin R
    /\ \A k, m, n \in S : <<k, m>> \in R /\ <<m, n>> \in R => <<k, n>> \in R
IsOrdered(d) == IsOrder(d.older, {n \in Nodes : d.label[n] # 0})

RowsInv ==
    /\ \A n \in Nodes : agent[n].phase # "off" => Rev(n) > 0
    /\ \A c \in calls : c.rev \in 1 .. Rev(c.node)
    /\ RevsExist(db) /\ IsOrdered(db)
    /\ tx.open =>
           /\ tx.call.rev \in 1 .. Rev(tx.call.node)
           /\ RevsExist(tx.work) /\ IsOrdered(tx.work)
           /\ \A n \in Nodes \ {tx.call.node} : tx.work.endpoints[n] = db.endpoints[n]

(***************************************************************************)
(* What the client has read is still so if nothing was registered since it *)
(* began: the catalog is that of the database, and device and user are     *)
(* those which a second look would find.                                   *)
(***************************************************************************)
IsClient ==
    /\ DOMAIN client = DOMAIN NewClient(TRUE)
    /\ client.phone \in BOOLEAN /\ client.purpose \in {"cert", "session"}
    /\ client.pc \in {"nodes", "services", "endpoint", "find", "route", "endpoints", "open", "refused"}

PresentWasSeen ==
    client.pc \in {"services", "endpoint", "find", "route", "endpoints"} =>
        \A n \in Nodes : [node |-> n, rev |-> db.endpoints[n]] \in client.seen

RouteWasSeen ==
    client.pc = "endpoints" =>
        /\ client.route.node \in Nodes
        /\ [node |-> client.route.node, rev |-> client.route.rev] \in client.seen
        /\ client.quiet => client.route.rev = db.endpoints[client.route.node]

DeviceOf(n) == Device(Row(n), db.services[n], SshService(n))
Devices == {DeviceOf(n) : n \in Labelled}
Listed(todo) == {DeviceOf(n) : n \in {m \in Labelled : Row(m) \notin todo}}
Wanted == First({d \in Devices : d.label = Ask})
IsWanted(r) == r.node \in Nodes /\ r.node = Wanted.node /\ r.user = UserOf(Wanted.node, Wanted.id)

CatalogIsCurrent ==
    client.quiet =>
        /\ client.pc \in {"services", "endpoint"} =>
               client.todo \subseteq Rows /\ client.list = Listed(client.todo)
        /\ client.pc = "endpoint" =>
               client.todo # {} /\ client.services = db.services[First(client.todo).node]
        /\ client.pc = "find" => client.list = Devices

SshIsCurrent ==
    ~client.phone =>
        /\ client.pc \in {"endpoints", "open"} => client.route.node = client.device.node
        /\ client.quiet =>
               /\ client.pc \in {"route", "endpoints"} =>
                      client.device.node = Wanted.node /\ client.device.id = Wanted.id
               /\ client.pc = "endpoints" => IsWanted(client.route)
               /\ client.purpose = "session" /\ client.pc \notin {"open", "refused"} => IsWanted(client.cert)

ClientInv ==
    /\ IsClient /\ PresentWasSeen /\ RouteWasSeen /\ RouteIsRecent /\ CatalogIsCurrent /\ SshIsCurrent
    /\ ~client.phone => CertificateFits

\* What medium ssh gets: a session leads to the node that was found by its name, and
\* the certificate is for that node and user (resolve_node_service_route,
\* run_ssh_command); with the inductive invariants that this rests on.
SshFits ==
    /\ IInv /\ RowsInv /\ ClientInv
    /\ ~client.phone => SessionIsTheChosen /\ CertificateFits
=============================================================================
