------------------------------ MODULE ServiceNames ------------------------------
(***************************************************************************)
(* The name of a service, <label>.medium, is made in three places from the *)
(* same label: by the node for the certificate of the service, by the      *)
(* tunnel for its DNS answers, and by the CLI for the TLS handshake.  A    *)
(* label reaches them by way of the node's services.toml, its registration *)
(* at the control plane, and the device list that a client fetches; each   *)
(* of these is as old as the last start of the process that read it.  The  *)
(* node registers first and asks the control plane for its certificates    *)
(* afterwards, which may fail.                                             *)
(*                                                                         *)
(* Labels and names are sequences of characters; ".medium" is left out.    *)
(***************************************************************************)
EXTENDS Integers, Sequences, FiniteSets, SequencesExt

CONSTANTS
    Catalogs,     \* what services.toml may hold at first
    Edited,       \* and after the operator changed it
    IdOrder,      \* the service ids in the order of the registry
    MaxIndex,     \* the last index VirtualNetwork::new accepts (200)
    ServiceBase   \* last octet of the first service address (10)

VARIABLES
    config,    \* services.toml
    node,      \* the node process: "off", "registered" or "up"
    certs,     \* the node's services: the name in the certificate, or NoCert
    registry,  \* the control plane: services as registered, by id
    ca,        \* the control plane: it has a CA and agrees with the node's secret
    network,   \* the tunnel's VirtualNetwork: services with name and address
    query,     \* the last DNS query
    answer,    \* and its answer
    edits

vars == <<config, node, certs, registry, ca, network, query, answer, edits>>

NoLabel == <<"?">>
LabelOf(service) == IF service.label = NoLabel THEN service.id ELSE service.label

-----------------------------------------------------------------------------
alphanumeric(c) == c \in {"a", "b", "7"}
to_lowercase(c) == CASE c = "A" -> "a" [] c = "B" -> "b" [] OTHER -> c
EmptyName == <<"service">>
Trim(s) == IF s # <<>> /\ Last(s) = "-" THEN Front(s) ELSE s
OrService(s) == IF s = <<>> THEN EmptyName ELSE s

\* One character: anything but letters and digits becomes a dash, which is left
\* out at the start and after another one.
PushChar(out, ch) ==
    IF alphanumeric(to_lowercase(ch)) THEN Append(out, to_lowercase(ch))
    ELSE IF out = <<>> \/ Last(out) = "-" THEN out
    ELSE Append(out, "-")

\* The crate medium-netstack's.
service_hostname(value) == OrService(Trim(FoldLeft(PushChar, <<>>, value)))

\* The node's; the CLI has a copy of it.
normalize_hostname_label(value) == OrService(Trim(FoldLeft(PushChar, <<>>, value)))

\* The CLI: the name it asks the service's certificate for.
service_medium_hostname(service) == normalize_hostname_label(LabelOf(service))

-----------------------------------------------------------------------------
(***************************************************************************)
(* VirtualNetwork and its DNS answers.                                     *)
(***************************************************************************)
service_addr(index) == ServiceBase + index

NetworkOk(services) == Len(services) - 1 <= MaxIndex

VirtualNetwork(services) ==
    [i \in DOMAIN services |-> [id |-> services[i].id, hostname |-> service_hostname(LabelOf(services[i])),
                                addr |-> service_addr(i - 1)]]

\* by_hostname has one entry for a name: the last service's.
resolve_hostname(net, name) ==
    LET named == {i \in DOMAIN net : net[i].hostname = name}
    IN  {net[i] : i \in {j \in named : \A k \in named : k <= j}}

service_for_addr(net, addr) == {net[i] : i \in {j \in DOMAIN net : net[j].addr = addr}}

\* parse_query lowers the case; resolve_hostname drops a trailing dot.
Lowered(name) == [i \in DOMAIN name |-> to_lowercase(name[i])]

\* Seeded bug: the name is looked up as it was asked.
AnswerVerbatim(net, q) ==
    LET found == resolve_hostname(net, q.name)
    IN  IF found # {} /\ q.type = "A" THEN {s.addr : s \in found} ELSE {}

\* The addresses in the answer; a name error has none.
answer_query(net, q) ==
    LET found == resolve_hostname(net, Lowered(q.name))
    IN  IF found # {} /\ q.type = "A" THEN {s.addr : s \in found} ELSE {}

-----------------------------------------------------------------------------
NoQuery == [name |-> <<>>, type |-> "A"]
NoCert == <<"none">>
Enabled(services) == SelectSeq(services, LAMBDA s : s.enabled)

\* build_registration, and the device list's "order by id".
Registered(services) ==
    SortSeq(Enabled(services),
            LAMBDA s, t : SelectInSeq(IdOrder, LAMBDA i : i = s.id) < SelectInSeq(IdOrder, LAMBDA i : i = t.id))

\* Services of kind http and ssh end TLS at the node; the target of any other
\* has a certificate of its own.
EndsTls(service) == service.kind \in {"http", "ssh"}

\* Seeded bug: the certificate is for the id.
CertificateForId(services) ==
    LET on == Enabled(services)
    IN  [id \in {on[i].id : i \in DOMAIN on} |-> normalize_hostname_label(id)]

proxy_services_from_config(services) ==
    LET on == Enabled(services)
    IN  [id \in {on[i].id : i \in DOMAIN on} |->
            LET s == on[CHOOSE i \in DOMAIN on : on[i].id = id]
            IN  IF EndsTls(s) THEN normalize_hostname_label(LabelOf(s)) ELSE NoCert]

Init ==
    /\ config \in Catalogs /\ ca \in BOOLEAN
    /\ node = "off" /\ certs = <<>> /\ registry = <<>>
    /\ network = <<>> /\ query = NoQuery /\ answer = {} /\ edits = 0

\* The operator changes services.toml and repairs the control plane.  The node
\* has read its services once it has registered.
Edit ==
    /\ edits = 0 /\ edits' = 1
    /\ node # "registered"
    /\ config' \in Edited /\ ca' = TRUE
    /\ UNCHANGED <<node, certs, registry, network, query, answer>>

\* The node starts and registers.
RegisterNode ==
    /\ node = "off" /\ node' = "registered"
    /\ registry' = Registered(config)
    /\ UNCHANGED <<config, certs, ca, network, query, answer, edits>>

\* issue_service_certificate refuses without a CA or with another secret.
Refused == ~ca /\ \E i \in DOMAIN config : config[i].enabled /\ EndsTls(config[i])

\* It makes its services; without a certificate for one of them it ends.
StartServices ==
    /\ node = "registered"
    /\ IF Refused THEN node' = "off" /\ certs' = <<>>
       ELSE node' = "up" /\ certs' = proxy_services_from_config(config)
    /\ UNCHANGED <<config, registry, ca, network, query, answer, edits>>

NodeStops ==
    /\ node = "up" /\ node' = "off" /\ certs' = <<>>
    /\ UNCHANGED <<config, registry, ca, network, query, answer, edits>>

\* A tunnel starts with the device list of that moment.
TunnelStart ==
    /\ registry # <<>> /\ NetworkOk(registry)
    /\ network' = VirtualNetwork(registry)
    /\ query' = NoQuery /\ answer' = {}
    /\ UNCHANGED <<config, node, certs, registry, ca, edits>>

\* The names a browser asks for: those of its device list, in any case.
Upper(name) == [i \in DOMAIN name |-> CASE name[i] = "a" -> "A" [] name[i] = "b" -> "B" [] OTHER -> name[i]]
Asked == LET names == {service_medium_hostname(registry[i]) : i \in DOMAIN registry}
         IN  names \cup {Upper(n) : n \in names}

pump_dns ==
    /\ network # <<>>
    /\ \E n \in Asked, t \in {"A", "AAAA"} : query' = [name |-> n, type |-> t]
    /\ answer' = answer_query(network, query')
    /\ UNCHANGED <<config, node, certs, registry, ca, network, edits>>

Next == Edit \/ RegisterNode \/ StartServices \/ NodeStops \/ TunnelStart \/ pump_dns
Spec == Init /\ [][Next]_vars

-----------------------------------------------------------------------------
\* What a name should be: the letters and digits of the label in lower case, with
\* one dash between two of them that had something else between.
Expected(label) ==
    LET at == SetToSortSeq({i \in DOMAIN label : alphanumeric(to_lowercase(label[i]))}, <)
        piece(i) == IF i > 1 /\ at[i] > at[i - 1] + 1 THEN <<"-", to_lowercase(label[at[i]])>>
                    ELSE <<to_lowercase(label[at[i]])>>
    IN  OrService(FlattenSeq([i \in DOMAIN at |-> piece(i)]))

\* The names made from the labels are what they should be, and making a name
\* twice changes nothing (service_hostname, normalize_hostname_label).
NamesAsExpected ==
    \A i \in DOMAIN config :
        LET name == service_hostname(LabelOf(config[i]))
        IN  /\ name = Expected(LabelOf(config[i]))
            /\ name # EmptyName => service_hostname(name) = name

Current == network # <<>> /\ network = VirtualNetwork(registry)

\* While the node has not registered again since the tunnel started, the
\* certificate behind the address that DNS answers is for the name that was
\* asked, whichever of two services with one name is meant.
CertificateFits ==
    Current /\ node = "up" => \A a \in answer : \A s \in service_for_addr(network, a) :
                                  certs[s.id] \in {NoCert, Lowered(query.name)}

\* A service of a current tunnel is found by the name that the CLI has for it,
\* asked for in any case, unless a later service has the same name
\* (service_medium_hostname, answer_query).
EveryServiceFound ==
    Current /\ query # NoQuery /\ query.type = "A" =>
        \A i \in DOMAIN network :
            Lowered(query.name) = service_medium_hostname(registry[i]) =>
                \E j \in i .. Len(network) : answer = {network[j].addr}

\* A running node serves exactly the services that it registered, the disabled
\* ones in neither (build_registration, proxy_services_from_config).
ServesWhatItRegistered ==
    node = "up" => DOMAIN certs = {registry[i].id : i \in DOMAIN registry}
=============================================================================
