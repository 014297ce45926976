------------------------------- MODULE MCControl -------------------------------
(***************************************************************************)
(* The control plane for TLC: registrations and what medium ssh (Registry) *)
(* or an app (App) gets from them, and the names of services               *)
(* (ServiceNames), side by side.  The first state chooses one of the       *)
(* three, and the others stay as they start.                               *)
(***************************************************************************)
EXTENDS Registry

Svc(id, kind, user) == [id |-> id, kind |-> kind, user |-> user]
Conf(label, port, services) == [label |-> label, port |-> port, services |-> services]
Shared == Svc(7, "ssh", 1)
MCConfigs == [n \in {1, 2} |->
    IF n = 1 THEN {Conf(11, TRUE, <<Shared>>), Conf(11, TRUE, <<Svc(8, "http", 0), Shared, Svc(7, "http", 0)>>)}
    ELSE {Conf(12, TRUE, <<Svc(7, "ssh", 2), Svc(8, "http", 0)>>), Conf(12, FALSE, <<Svc(7, "ssh", 2)>>), Conf(12, TRUE, <<Svc(7, "ssh", 0)>>)}]

\* One node may be misconfigured, the other publishes the same id.
FewConfigs == [n \in {1, 2} |->
    IF n = 1 THEN {Conf(11, TRUE, <<Shared>>), Conf(11, TRUE, <<Svc(8, "http", 0), Shared, Svc(7, "http", 0)>>)}
    ELSE {Conf(12, TRUE, <<Svc(7, "ssh", 2), Svc(8, "http", 0)>>)}]

App == INSTANCE Registry WITH Phones <- {TRUE}, Configs <- FewConfigs

-----------------------------------------------------------------------------
VARIABLES part, config, node, certs, registry, ca, network, query, answer, edits
namesVars == <<config, node, certs, registry, ca, network, query, answer, edits>>

Ids == <<<<"a">>, <<"b", "_", "7">>>>
Chars == {"a", "B", "_"}
NoLabel == <<"?">>
Labels == {NoLabel, <<>>} \cup [1 .. 1 -> Chars] \cup [1 .. 2 -> Chars] \cup
          {<<"_", "a", "_", "_", "B", "-">>, <<"A", "-", "-", "7">>}
Service(i, l, kind, enabled) == [id |-> Ids[i], label |-> l, kind |-> kind, enabled |-> enabled]
Catalog(l, k) == <<Service(2, k, "ssh", TRUE), Service(1, l, "http", TRUE)>>
MCCatalogs == {Catalog(l, k) : l, k \in Labels}
MCEdited == {<<Service(1, NoLabel, "https", TRUE), Service(2, NoLabel, "http", TRUE)>>,
             <<Service(1, <<"B">>, "http", FALSE), Service(2, <<"b">>, "http", TRUE)>>,
             <<Service(2, <<"a">>, "http", TRUE)>>}

Names == INSTANCE ServiceNames WITH
    Catalogs <- MCCatalogs, Edited <- MCEdited, IdOrder <- Ids, MaxIndex <- 200, ServiceBase <- 10

-----------------------------------------------------------------------------
MCInit ==
    /\ part \in {"ssh", "app", "names"}
    /\ IF part = "app" THEN App!Init ELSE Init
    /\ Names!Init
    /\ part # "names" => config = Catalog(NoLabel, NoLabel) /\ ca
MCNext ==
    \/ part = "ssh" /\ Next /\ UNCHANGED <<part, namesVars>>
    \/ part = "app" /\ App!Next /\ UNCHANGED <<part, namesVars>>
    \/ part = "names" /\ Names!Next /\ UNCHANGED <<part, vars>>

\* Agents and control plane run when they can, systemd restarts what fails, and
\* the pool serves those who wait for its connection in turn.
AppRuns == part = "app"
MCSpec ==
    /\ MCInit /\ [][MCNext]_<<part, vars, namesVars>> /\ WF_vars(AppRuns /\ App!Control)
    /\ \A n \in Nodes : WF_vars(AppRuns /\ App!Agent(n)) /\ SF_vars(AppRuns /\ App!TxBegin(n))

-----------------------------------------------------------------------------
\* An agent whose configuration is valid comes up unless it is stopped, although the
\* control plane crashes and attempts run out (register_node_with_retry and systemd).
EveryAgentComesUp == AppRuns => ComesUp

\* The properties of ServiceNames.  The node serves exactly the services that it
\* registered, and the certificate behind the address that DNS answers is for the name
\* that was asked (proxy_services_from_config, answer_query).
NameCertificateFits == Names!ServesWhatItRegistered /\ Names!CertificateFits

\* The names made from the labels are what they should be, and a service of a current
\* tunnel is found by the name that the CLI has for it (service_hostname,
\* normalize_hostname_label, answer_query).
EveryServiceFound == Names!NamesAsExpected /\ Names!EveryServiceFound
=============================================================================
