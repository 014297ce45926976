----------------------------- MODULE RegistryProofs -----------------------------
(***************************************************************************)
(* For every set of nodes and configurations, and however often agents     *)
(* stop, connections break and the control plane crashes: the registry     *)
(* holds whole registrations, and a running agent's is committed.          *)
(***************************************************************************)
EXTENDS Registry, SequenceTheorems, WellFoundedInduction, TLAPS

LEMMA FewAttempts == {0, 1} \subseteq 0 .. MaxAttempts
BY RegistryAssumption

LEMMA InitIInv == Init => IInv
<1> SUFFICES ASSUME Init PROVE IInv
  OBVIOUS
<1>1. IsDb(db) /\ WholeRegistrations
  BY DEF Init, Empty, IsDb, WholeRegistrations
<1>2. made \in [Nodes -> Seq(UNION {Configs[n] : n \in Nodes})]
  BY EmptySeq DEF Init
<1>3. TypeOK
  BY <1>1, <1>2, FewAttempts DEF Init, TypeOK
<1>4. ~ tx.open
  BY DEF Init, NoTx
<1> QED
  BY <1>1, <1>3, <1>4 DEF Init, IInv, RegistrationsAreWhole, RunningIsRegistered, WorkIsWhole, AwaitedIsCurrent

\* What TypeOK says of an open transaction.
LEMMA CallKinds ==
    ASSUME TypeOK, tx.open
    PROVE  /\ DOMAIN tx = {"open", "call", "step", "work"}
           /\ tx.call \in Call /\ tx.call.node \in Nodes /\ tx.call.rev \in Nat
           /\ IsDb(tx.work)
<1>1. tx # NoTx
  BY DEF NoTx
<1>2. DOMAIN tx = {"open", "call", "step", "work"} /\ tx.call \in Call /\ IsDb(tx.work)
  BY <1>1 DEF TypeOK
<1> QED
  BY <1>2 DEF Call

\* A step that touches neither agents, calls nor the database.
LEMMA QuietKeepsIInv ==
    ASSUME IInv, UNCHANGED <<made, agent, calls, db, tx, committed>>
    PROVE  IInv'
<1>1. TypeOK'
  BY DEF IInv, TypeOK, IsDb
<1>2. WholeRegistrations' /\ RunningIsRegistered'
  BY DEF IInv, RegistrationsAreWhole, WholeRegistrations, RunningIsRegistered, Rev
<1>3. WorkIsWhole' /\ AwaitedIsCurrent'
  BY DEF IInv, WorkIsWhole, WholeIn, AwaitedIsCurrent, Awaited, Rev
<1> QED
  BY <1>1, <1>2, <1>3 DEF IInv, RegistrationsAreWhole

\* An agent for which no call is awaited changes its phase, not to running.
LEMMA AgentKeepsIInv ==
    ASSUME IInv, NEW n \in Nodes, NEW p \in {"off", "calling", "asked", "failed"},
           NEW a \in 0 .. MaxAttempts, Set(n, p, a),
           \A c \in calls : c.live => c.node # n,
           tx.open /\ tx.call.live => tx.call.node # n,
           \A m \in Nodes \ {n} : made'[m] = made[m],
           made' \in [Nodes -> Seq(UNION {Configs[m] : m \in Nodes})],
           UNCHANGED <<calls, db, tx, committed>>
    PROVE  IInv'
<1>1. agent \in [Nodes -> [phase : {"off", "calling", "asked", "running", "failed"}, attempt : 0 .. MaxAttempts]]
  BY DEF IInv, TypeOK
<1>2. /\ agent' \in [Nodes -> [phase : {"off", "calling", "asked", "running", "failed"}, attempt : 0 .. MaxAttempts]]
      /\ agent'[n].phase = p
      /\ \A m \in Nodes \ {n} : agent'[m] = agent[m]
  BY <1>1 DEF Set
<1>3. TypeOK'
  BY <1>2 DEF IInv, TypeOK, IsDb
<1>4. WholeRegistrations'
  BY DEF IInv, RegistrationsAreWhole, WholeRegistrations
<1>5. RunningIsRegistered'
  BY <1>2 DEF IInv, RegistrationsAreWhole, RunningIsRegistered, Rev
<1>6. WorkIsWhole'
  BY DEF IInv, WorkIsWhole, WholeIn
<1>7. AwaitedIsCurrent'
  <2>1. ASSUME NEW c \in Call, c.node # n, Awaited(c) PROVE Awaited(c)'
    BY <1>2, <2>1 DEF Awaited, Rev, Call
  <2>2. calls \subseteq Call /\ (tx.open => tx.call \in Call)
    BY CallKinds DEF IInv, TypeOK
  <2> QED
    BY <2>1, <2>2 DEF IInv, AwaitedIsCurrent
<1> QED
  BY <1>3, <1>4, <1>5, <1>6, <1>7 DEF IInv, RegistrationsAreWhole

LEMMA StartKeepsIInv == ASSUME IInv, NEW n \in Nodes, Start(n) PROVE IInv'
<1> DEFINE All == UNION {Configs[m] : m \in Nodes}
<1>1. made \in [Nodes -> Seq(All)]
  BY DEF IInv, TypeOK
<1>2. PICK c \in Configs[n] : made' = [made EXCEPT ![n] = Append(made[n], c)]
  BY DEF Start
<1>3. c \in All
  OBVIOUS
<1> HIDE DEF All
<1>4. made' \in [Nodes -> Seq(All)] /\ \A m \in Nodes \ {n} : made'[m] = made[m]
  BY <1>1, <1>2, <1>3, AppendProperties
<1>5. agent[n].phase = "off" /\ Set(n, "calling", 1) /\ UNCHANGED <<calls, db, tx, committed>>
  BY DEF Start
<1>6. /\ \A d \in calls : d.live => d.node # n
      /\ tx.open /\ tx.call.live => tx.call.node # n
  BY <1>5 DEF IInv, AwaitedIsCurrent, Awaited
<1> QED
  BY <1>4, <1>5, <1>6, FewAttempts, AgentKeepsIInv DEF All

LEMMA AgainSets ==
    ASSUME TypeOK, NEW n \in Nodes, Again(n)
    PROVE  \E p \in {"calling", "failed"}, a \in 0 .. MaxAttempts : Set(n, p, a)
<1>1. agent[n].attempt \in 0 .. MaxAttempts
  BY DEF TypeOK
<1>2. agent[n].attempt < MaxAttempts => agent[n].attempt + 1 \in 0 .. MaxAttempts
  BY <1>1, RegistryAssumption
<1> QED
  BY <1>2, FewAttempts DEF Again

LEMMA RetriesKeepIInv ==
    ASSUME IInv, NEW n \in Nodes, ConnectionRefused(n) \/ Respawn(n)
    PROVE  IInv'
<1>1. TypeOK
  BY DEF IInv
<1>2. PICK p \in {"calling", "failed"}, a \in 0 .. MaxAttempts : Set(n, p, a)
  BY <1>1, FewAttempts, AgainSets DEF ConnectionRefused, Respawn
<1>3. agent[n].phase # "asked" /\ UNCHANGED <<made, calls, db, tx, committed>>
  BY DEF ConnectionRefused, Respawn
<1>4. /\ \A d \in calls : d.live => d.node # n
      /\ tx.open /\ tx.call.live => tx.call.node # n
  BY <1>3 DEF IInv, AwaitedIsCurrent, Awaited
<1>5. made' \in [Nodes -> Seq(UNION {Configs[m] : m \in Nodes})]
  BY <1>1, <1>3 DEF TypeOK
<1> QED
  BY <1>2, <1>3, <1>4, <1>5, AgentKeepsIInv

\* A call is left by its agent: it may be carried out, but nobody waits for it.
LEMMA AbandonKeepsIInv ==
    ASSUME IInv, NEW n \in Nodes, Abandon(n),
           NEW p \in {"off", "calling", "failed"}, NEW a \in 0 .. MaxAttempts, Set(n, p, a),
           UNCHANGED <<made, db, committed>>
    PROVE  IInv'
<1>1. TypeOK
  BY DEF IInv
<1>2. agent \in [Nodes -> [phase : {"off", "calling", "asked", "running", "failed"}, attempt : 0 .. MaxAttempts]]
  BY <1>1 DEF TypeOK
<1>3. /\ agent' \in [Nodes -> [phase : {"off", "calling", "asked", "running", "failed"}, attempt : 0 .. MaxAttempts]]
      /\ agent'[n].phase = p
      /\ \A m \in Nodes \ {n} : agent'[m] = agent[m]
  BY <1>2 DEF Set
<1>4. \A c \in calls' : \E d \in calls :
          /\ c \in Call /\ c.node = d.node /\ c.rev = d.rev
          /\ c.live => d.live /\ d.node # n
  <2> TAKE c \in calls'
  <2>1. PICK d \in calls : c = [d EXCEPT !.live = d.live /\ d.node # n]
    BY DEF Abandon
  <2>2. d \in Call
    BY <1>1 DEF TypeOK
  <2> QED
    BY <2>1, <2>2 DEF Call
<1>5. CASE ~ tx.open
  <2>1. tx' = tx /\ ~ tx'.open
    BY <1>5 DEF Abandon
  <2>2. TypeOK'
    BY <1>1, <1>3, <1>4, <2>1 DEF TypeOK, IsDb
  <2>3. WholeRegistrations' /\ RunningIsRegistered'
    BY <1>3 DEF IInv, RegistrationsAreWhole, WholeRegistrations, RunningIsRegistered, Rev
  <2>4. AwaitedIsCurrent'
    <3>1. ASSUME NEW c \in calls', c.live PROVE Awaited(c)'
      BY <1>3, <1>4, <3>1 DEF IInv, AwaitedIsCurrent, Awaited, Rev, Call
    <3> QED
      BY <2>1, <3>1 DEF AwaitedIsCurrent
  <2> QED
    BY <2>1, <2>2, <2>3, <2>4 DEF IInv, RegistrationsAreWhole, WorkIsWhole
<1>6. CASE tx.open
  <2> DEFINE live == tx.call.live /\ tx.call.node # n
  <2>0. /\ DOMAIN tx = {"open", "call", "step", "work"} /\ tx.open = TRUE
        /\ tx.call \in Call /\ IsDb(tx.work)
    BY <1>1, <1>6, CallKinds DEF TypeOK, NoTx
  <2>1. tx' = [tx EXCEPT !.call = [tx.call EXCEPT !.live = live]]
    BY <1>6 DEF Abandon
  <2>2. /\ DOMAIN tx' = {"open", "call", "step", "work"} /\ tx'.open = TRUE
        /\ tx'.work = tx.work /\ tx'.step = tx.step
        /\ tx'.call = [tx.call EXCEPT !.live = live]
    BY <2>0, <2>1
  <2>3. /\ tx'.call \in Call /\ tx'.call.node = tx.call.node /\ tx'.call.rev = tx.call.rev
        /\ tx'.call.live => tx.call.live /\ tx.call.node # n
    BY <2>0, <2>2 DEF Call
  <2>4. TypeOK'
    <3>1. IsDb(db') /\ IsDb(tx'.work) /\ calls' \subseteq Call
      BY <1>1, <1>4, <2>0, <2>2 DEF TypeOK, IsDb
    <3> QED
      BY <1>1, <1>3, <2>2, <2>3, <3>1 DEF TypeOK, IsDb
  <2>5. WholeRegistrations' /\ RunningIsRegistered'
    BY <1>3 DEF IInv, RegistrationsAreWhole, WholeRegistrations, RunningIsRegistered, Rev
  <2>6. WorkIsWhole'
    <3>1. /\ \A m \in Nodes \ {tx.call.node} : WholeIn(tx.work, m)
          /\ tx.work.label[tx.call.node] = tx.call.rev
          /\ tx.work.endpoints[tx.call.node] = tx.call.rev
          /\ tx.step = "commit" => tx.work.services[tx.call.node] = tx.call.rev
      BY <1>6 DEF IInv, WorkIsWhole
    <3>2. \A m \in Nodes \ {tx.call.node} : WholeIn(tx.work, m)'
      BY <2>2, <3>1 DEF WholeIn
    <3> QED
      BY <2>2, <2>3, <3>1, <3>2 DEF WorkIsWhole
  <2>7. AwaitedIsCurrent'
    <3>1. ASSUME NEW c \in calls', c.live PROVE Awaited(c)'
      BY <1>3, <1>4, <3>1 DEF IInv, AwaitedIsCurrent, Awaited, Rev, Call
    <3>2. ASSUME tx'.call.live PROVE Awaited(tx.call)'
      BY <1>3, <1>6, <2>0, <2>3, <3>2 DEF IInv, AwaitedIsCurrent, Awaited, Rev, Call
    <3>3. ASSUME tx'.call.live, NEW c \in calls', c.live PROVE c.node # tx'.call.node
      BY <1>4, <1>6, <2>3, <3>3 DEF IInv, AwaitedIsCurrent
    <3> QED
      BY <3>1, <3>2, <3>3 DEF AwaitedIsCurrent
  <2> QED
    BY <2>4, <2>5, <2>6, <2>7 DEF IInv, RegistrationsAreWhole
<1> QED
  BY <1>5, <1>6

LEMMA StopKeepsIInv ==
    ASSUME IInv, NEW n \in Nodes, Stop(n) \/ ConnectionBreaks(n)
    PROVE  IInv'
<1>1. TypeOK
  BY DEF IInv
<1>2. PICK p \in {"off", "calling", "failed"}, a \in 0 .. MaxAttempts : Set(n, p, a)
  BY <1>1, FewAttempts, AgainSets DEF Stop, ConnectionBreaks
<1>3. Abandon(n) /\ UNCHANGED <<made, db, committed>>
  BY DEF Stop, ConnectionBreaks
<1> QED
  BY <1>2, <1>3, AbandonKeepsIInv

\* An agent that calls is awaited by none of the calls before.
LEMMA RegisterKeepsIInv == ASSUME IInv, NEW n \in Nodes, register_node(n) PROVE IInv'
<1>1. TypeOK
  BY DEF IInv
<1>2. Rev(n) \in Nat
  BY <1>1, LenProperties DEF TypeOK, Rev
<1>3. PICK c \in Call : /\ c.node = n /\ c.rev = Rev(n) /\ c.live = TRUE
                        /\ c = [node |-> n, rev |-> Rev(n), live |-> TRUE]
  BY <1>2 DEF Call
<1>4. /\ agent[n].phase = "calling" /\ Set(n, "asked", agent[n].attempt)
      /\ calls' = calls \cup {c} /\ UNCHANGED <<made, db, tx, committed>>
  BY <1>3 DEF register_node
<1>5. /\ agent' \in [Nodes -> [phase : {"off", "calling", "asked", "running", "failed"}, attempt : 0 .. MaxAttempts]]
      /\ agent'[n].phase = "asked"
      /\ \A m \in Nodes \ {n} : agent'[m] = agent[m]
  BY <1>1, <1>4 DEF TypeOK, Set
<1>6. /\ \A d \in calls : d.live => d.node # n
      /\ tx.open /\ tx.call.live => tx.call.node # n
  BY <1>4 DEF IInv, AwaitedIsCurrent, Awaited
<1>7. TypeOK'
  BY <1>1, <1>4, <1>3, <1>5 DEF TypeOK, IsDb
<1>8. WholeRegistrations' /\ RunningIsRegistered'
  BY <1>4, <1>5 DEF IInv, RegistrationsAreWhole, WholeRegistrations, RunningIsRegistered, Rev
<1>9. WorkIsWhole'
  BY <1>4 DEF IInv, WorkIsWhole, WholeIn
<1>10. AwaitedIsCurrent'
  <2>1. ASSUME NEW d \in Call, d.node # n, Awaited(d) PROVE Awaited(d)'
    BY <1>4, <1>5, <2>1 DEF Awaited, Rev, Call
  <2>2. Awaited(c)'
    BY <1>4, <1>3, <1>5 DEF Awaited, Rev
  <2>3. calls \subseteq Call /\ (tx.open => tx.call \in Call)
    BY <1>1, CallKinds DEF TypeOK
  <2> QED
    BY <1>3, <1>4, <1>6, <2>1, <2>2, <2>3 DEF IInv, AwaitedIsCurrent
<1> QED
  BY <1>7, <1>8, <1>9, <1>10 DEF IInv, RegistrationsAreWhole

\* The transaction begins with a call of n, and takes it from those that wait.
LEMMA TxBeginKeepsIInv == ASSUME IInv, NEW n \in Nodes, TxBegin(n) PROVE IInv'
<1>1. TypeOK /\ IsDb(db) /\ ~ tx.open
  BY DEF IInv, TypeOK, TxBegin, Free
<1>2. PICK c \in calls :
          /\ c.node = n /\ calls' = calls \ {c}
          /\ tx' = [open |-> TRUE, call |-> c, step |-> "services",
                    work |-> [db EXCEPT !.label[n] = c.rev, !.endpoints[n] = c.rev,
                                        !.services[n] = 0, !.older = Reinserted(@, n)]]
  BY DEF TxBegin
<1>3. UNCHANGED <<made, agent, db, committed>>
  BY DEF TxBegin
<1>4. c \in Call /\ c.rev \in Nat
  BY <1>1 DEF TypeOK, Call
<1>5. /\ DOMAIN tx' = {"open", "call", "step", "work"} /\ tx'.open = TRUE
      /\ tx'.call = c /\ tx'.step = "services"
  BY <1>2
<1>6. /\ IsDb(tx'.work)
      /\ tx'.work.label[n] = c.rev /\ tx'.work.endpoints[n] = c.rev
      /\ \A m \in Nodes \ {n} : /\ tx'.work.label[m] = db.label[m]
                                /\ tx'.work.endpoints[m] = db.endpoints[m]
                                /\ tx'.work.services[m] = db.services[m]
  <2> DEFINE w == [db EXCEPT !.label[n] = c.rev, !.endpoints[n] = c.rev,
                             !.services[n] = 0, !.older = Reinserted(@, n)]
  <2>1. /\ DOMAIN w = {"label", "endpoints", "services", "older"}
        /\ w.label = [db.label EXCEPT ![n] = c.rev]
        /\ w.endpoints = [db.endpoints EXCEPT ![n] = c.rev]
        /\ w.services = [db.services EXCEPT ![n] = 0]
    BY <1>1 DEF IsDb
  <2>2. tx'.work = w
    BY <1>2
  <2> HIDE DEF w
  <2> QED
    BY <1>1, <1>4, <2>1, <2>2 DEF IsDb
<1>7. TypeOK'
  <2>1. IsDb(db)' /\ IsDb(tx.work)'
    BY <1>1, <1>3, <1>6 DEF IsDb
  <2> QED
    BY <1>1, <1>2, <1>3, <1>4, <1>5, <2>1 DEF TypeOK
<1>8. WholeRegistrations' /\ RunningIsRegistered'
  BY <1>3 DEF IInv, RegistrationsAreWhole, WholeRegistrations, RunningIsRegistered, Rev
<1>9. WorkIsWhole'
  BY <1>2, <1>3, <1>5, <1>6 DEF IInv, RegistrationsAreWhole, WorkIsWhole, WholeIn, WholeRegistrations
<1>10. AwaitedIsCurrent'
  <2>1. \A d \in calls : d.live => Awaited(d) /\ Awaited(d)'
    BY <1>3 DEF IInv, AwaitedIsCurrent, Awaited, Rev
  <2>2. ASSUME c.live, NEW d \in calls', d.live, d.node = n PROVE FALSE
    <3>1. c.rev = Rev(n) /\ d.rev = Rev(n) /\ d # c /\ d \in Call
      BY <1>1, <1>2, <2>1, <2>2 DEF Awaited, TypeOK
    <3>2. c.live = TRUE /\ d.live = TRUE
      BY <1>4, <2>2, <3>1 DEF Call
    <3> QED
      BY <1>2, <1>4, <2>2, <3>1, <3>2 DEF Call
  <2>3. c.live => Awaited(tx.call)'
    BY <1>3, <1>5, <2>1 DEF Awaited, Rev
  <2> QED
    BY <1>2, <1>5, <2>1, <2>2, <2>3 DEF AwaitedIsCurrent
<1> QED
  BY <1>7, <1>8, <1>9, <1>10 DEF IInv, RegistrationsAreWhole

\* The transaction is over: with what it has written, or as if it had not been.
LEMMA ReturnKeepsIInv ==
    ASSUME IInv, tx.open, tx' = NoTx, NEW ok \in BOOLEAN, Return(ok),
           UNCHANGED <<made, calls>>, TypeOK', WholeRegistrations', committed \subseteq committed',
           ok => [node |-> tx.call.node, rev |-> tx.call.rev] \in committed'
    PROVE  IInv'
<1> DEFINE n == tx.call.node
<1>1. TypeOK /\ n \in Nodes
  BY CallKinds DEF IInv
<1>2. ~ tx'.open
  BY DEF NoTx
<1>3. CASE ~ tx.call.live
  <2>1. agent' = agent
    BY <1>3 DEF Return
  <2> QED
    BY <1>2, <2>1 DEF IInv, RegistrationsAreWhole, RunningIsRegistered, WorkIsWhole, AwaitedIsCurrent, Awaited, Rev
<1>4. CASE tx.call.live
  <2>1. /\ tx.call.rev = Rev(n)
        /\ \A c \in calls : c.live => c.node # n
    BY <1>4 DEF IInv, AwaitedIsCurrent, Awaited
  <2>2. PICK p \in {"running", "calling", "failed"}, a \in 0 .. MaxAttempts :
            Set(n, p, a) /\ (p = "running" => ok)
    <3>1. CASE ok
      BY <1>4, <3>1, FewAttempts DEF Return
    <3>2. CASE ~ ok
      BY <1>1, <1>4, <3>2, AgainSets DEF Return
    <3> QED
      BY <3>1, <3>2
  <2> HIDE DEF n
  <2>3. /\ agent'[n].phase = p
        /\ \A m \in Nodes \ {n} : agent'[m] = agent[m]
    BY <1>1, <2>2 DEF TypeOK, Set
  <2>4. RunningIsRegistered'
    BY <2>1, <2>2, <2>3 DEF IInv, RegistrationsAreWhole, RunningIsRegistered, Rev, n
  <2>5. AwaitedIsCurrent'
    BY <1>1, <1>2, <2>1, <2>3 DEF IInv, AwaitedIsCurrent, Awaited, Rev, TypeOK, Call
  <2> QED
    BY <1>2, <2>4, <2>5 DEF IInv, RegistrationsAreWhole, WorkIsWhole
<1> QED
  BY <1>3, <1>4

LEMMA ReturnKeepsAgents ==
    ASSUME TypeOK, tx.open, NEW ok \in BOOLEAN, Return(ok)
    PROVE  agent' \in [Nodes -> [phase : {"off", "calling", "asked", "running", "failed"}, attempt : 0 .. MaxAttempts]]
<1>1. tx.call.node \in Nodes
  BY CallKinds
<1>2. \/ agent' = agent
      \/ \E p \in {"running", "calling", "failed"}, a \in 0 .. MaxAttempts : Set(tx.call.node, p, a)
  <2>1. CASE ok
    BY <2>1, FewAttempts DEF Return
  <2>2. CASE ~ ok
    BY <1>1, <2>2, AgainSets DEF Return
  <2> QED
    BY <2>1, <2>2
<1>3. agent \in [Nodes -> [phase : {"off", "calling", "asked", "running", "failed"}, attempt : 0 .. MaxAttempts]]
  BY DEF TypeOK
<1>4. ASSUME NEW p \in {"running", "calling", "failed"}, NEW a \in 0 .. MaxAttempts, Set(tx.call.node, p, a)
      PROVE  agent' \in [Nodes -> [phase : {"off", "calling", "asked", "running", "failed"}, attempt : 0 .. MaxAttempts]]
  BY <1>1, <1>3, <1>4 DEF Set
<1> QED
  BY <1>2, <1>3, <1>4

LEMMA TxServicesKeepsIInv == ASSUME IInv, TxServices PROVE IInv'
<1> DEFINE n == tx.call.node
           failed == Duplicates(Config(n, tx.call.rev).services)
<1>1. TypeOK /\ tx.open /\ tx.step = "services"
  BY DEF IInv, TxServices
<1>2. UNCHANGED <<made, calls, db, committed>>
  BY DEF TxServices, Rollback
<1>3. WholeRegistrations'
  BY <1>2 DEF IInv, RegistrationsAreWhole, WholeRegistrations
<1>4. CASE failed
  <2>1. tx' = NoTx /\ Return(FALSE)
    BY <1>4 DEF TxServices
  <2>2. TypeOK'
    BY <1>1, <1>2, <2>1, ReturnKeepsAgents DEF TypeOK, IsDb, NoTx
  <2> QED
    BY <1>1, <1>2, <1>3, <2>1, <2>2, ReturnKeepsIInv
<1>5. CASE ~ failed
  <2>1. tx' = [tx EXCEPT !.step = "commit", !.work.services[n] = tx.call.rev] /\ agent' = agent
    BY <1>5 DEF TxServices
  <2>2. /\ DOMAIN tx = {"open", "call", "step", "work"} /\ tx.open = TRUE
        /\ tx.call \in Call /\ n \in Nodes /\ tx.call.rev \in Nat /\ IsDb(tx.work)
    BY <1>1, CallKinds DEF TypeOK, NoTx
  <2>3. /\ DOMAIN tx' = {"open", "call", "step", "work"} /\ tx'.open = TRUE
        /\ tx'.call = tx.call
        /\ tx'.work = [tx.work EXCEPT !.services = [tx.work.services EXCEPT ![n] = tx.call.rev]]
    BY <2>1, <2>2
  <2>4. /\ DOMAIN tx'.work = {"label", "endpoints", "services", "older"}
        /\ tx'.work.label = tx.work.label /\ tx'.work.endpoints = tx.work.endpoints
        /\ tx'.work.services = [tx.work.services EXCEPT ![n] = tx.call.rev]
    BY <2>2, <2>3 DEF IsDb
  <2>5. TypeOK'
    <3>1. IsDb(db)' /\ IsDb(tx.work)'
      BY <1>1, <1>2, <2>2, <2>4 DEF TypeOK, IsDb
    <3> QED
      BY <1>1, <1>2, <2>1, <2>2, <2>3, <3>1 DEF TypeOK
  <2>6. RunningIsRegistered'
    BY <1>2, <2>1 DEF IInv, RegistrationsAreWhole, RunningIsRegistered, Rev
  <2>7. WorkIsWhole'
    <3>1. /\ tx'.work.services[n] = tx.call.rev
          /\ \A m \in Nodes \ {n} : tx'.work.services[m] = tx.work.services[m]
      BY <2>2, <2>4 DEF IsDb
    <3>2. /\ \A m \in Nodes \ {n} : WholeIn(tx.work, m)
          /\ tx.work.label[n] = tx.call.rev /\ tx.work.endpoints[n] = tx.call.rev
      BY <1>1 DEF IInv, WorkIsWhole
    <3>3. \A m \in Nodes \ {n} : WholeIn(tx.work, m)'
      BY <1>2, <2>4, <3>1, <3>2 DEF WholeIn
    <3> QED
      BY <2>3, <2>4, <3>1, <3>2, <3>3 DEF WorkIsWhole
  <2>8. AwaitedIsCurrent'
    BY <1>1, <1>2, <2>1, <2>3 DEF IInv, AwaitedIsCurrent, Awaited, Rev
  <2> QED
    BY <1>3, <2>5, <2>6, <2>7, <2>8 DEF IInv, RegistrationsAreWhole
<1> QED
  BY <1>4, <1>5

\* What is committed is whole: the node's own rows are of the call.
LEMMA TxCommitKeepsIInv == ASSUME IInv, TxCommit PROVE IInv'
<1> DEFINE n == tx.call.node
<1>1. TypeOK /\ tx.open /\ tx.step = "commit" /\ n \in Nodes /\ IsDb(tx.work)
  BY CallKinds DEF IInv, TxCommit
<1>2. /\ db' = tx.work /\ tx' = NoTx /\ Return(TRUE) /\ UNCHANGED <<made, calls>>
      /\ committed' = committed \cup {[node |-> n, rev |-> tx.call.rev]}
  BY DEF TxCommit
<1>3. TypeOK'
  BY <1>1, <1>2, ReturnKeepsAgents DEF TypeOK, IsDb, NoTx
<1>4. WholeRegistrations'
  <2> SUFFICES ASSUME NEW m \in Nodes PROVE WholeIn(tx.work, m) \/ m = n
    BY <1>1, <1>2 DEF IInv, RegistrationsAreWhole, WholeRegistrations, WorkIsWhole, WholeIn
  <2> QED
    BY <1>1 DEF IInv, WorkIsWhole
<1> QED
  BY <1>1, <1>2, <1>3, <1>4, ReturnKeepsIInv

LEMMA CrashKeepsIInv == ASSUME IInv, ControlCrashes PROVE IInv'
<1>1. /\ tx' = NoTx /\ calls' = {} /\ UNCHANGED <<made, db, committed>> /\ ~ tx'.open
  BY DEF ControlCrashes, NoTx
<1>2. /\ agent' \in [Nodes -> [phase : {"off", "calling", "asked", "running", "failed"}, attempt : 0 .. MaxAttempts]]
      /\ \A n \in Nodes : agent'[n].phase = "running" => agent[n].phase = "running"
  <2>1. agent \in [Nodes -> [phase : {"off", "calling", "asked", "running", "failed"}, attempt : 0 .. MaxAttempts]]
    BY DEF IInv, TypeOK
  <2>2. \A n \in Nodes : agent[n].attempt < MaxAttempts => agent[n].attempt + 1 \in 0 .. MaxAttempts
    BY <2>1, RegistryAssumption
  <2> QED
    BY <2>1, <2>2, FewAttempts DEF ControlCrashes
<1>3. TypeOK'
  BY <1>1, <1>2 DEF IInv, TypeOK, IsDb
<1> QED
  BY <1>1, <1>2, <1>3
  DEF IInv, RegistrationsAreWhole, WholeRegistrations, RunningIsRegistered, WorkIsWhole, AwaitedIsCurrent, Rev

LEMMA ClientOnlyAsks == ASSUME Client PROVE UNCHANGED <<made, agent, calls, db, tx, committed>>
<1>1. CASE ListNodes \/ list_node_services \/ SshEntry
  BY <1>1 DEF ListNodes, list_node_services, SshEntry, Query
<1>2. CASE SshDevice \/ run_proxy_ssh
  BY <1>2 DEF SshDevice, run_proxy_ssh, TakeDevice
<1>3. CASE ChooseService
  BY <1>3 DEF ChooseService
<1>4. CASE Route \/ issue_ssh_certificate \/ open_session
  BY <1>4 DEF Route, issue_ssh_certificate, open_session, Query
<1> QED
  BY <1>1, <1>2, <1>3, <1>4 DEF Client

LEMMA NextKeepsIInv == IInv /\ [Next]_vars => IInv'
<1> SUFFICES ASSUME IInv, [Next]_vars PROVE IInv'
  OBVIOUS
<1>1. CASE UNCHANGED vars \/ ControlRestarts \/ Client \/ Retry
  BY <1>1, ClientOnlyAsks, QuietKeepsIInv DEF vars, ControlRestarts, Retry
<1>2. CASE TxServices \/ TxCommit \/ ControlCrashes
  BY <1>2, TxServicesKeepsIInv, TxCommitKeepsIInv, CrashKeepsIInv
<1>3. ASSUME NEW n \in Nodes, Start(n) \/ Stop(n) \/ ConnectionBreaks(n) \/ Agent(n) \/ TxBegin(n)
      PROVE  IInv'
  BY <1>3, StartKeepsIInv, StopKeepsIInv, RegisterKeepsIInv, RetriesKeepIInv, TxBeginKeepsIInv
  DEF Agent
<1> QED
  BY <1>1, <1>2, <1>3 DEF Next, Control

-----------------------------------------------------------------------------
\* A step that leaves the rows alone, makes no new call and starts no agent.
LEMMA RowsStay ==
    ASSUME RowsInv, UNCHANGED <<made, db>>,
           \A n \in Nodes : agent'[n].phase # "off" => agent[n].phase # "off",
           \A c \in calls' : \E d \in calls : c.node = d.node /\ c.rev = d.rev,
           tx'.open => tx.open /\ tx'.call.node = tx.call.node /\ tx'.call.rev = tx.call.rev /\ tx'.work = tx.work
    PROVE  RowsInv'
<1>1. \A n \in Nodes : agent'[n].phase # "off" => Rev(n)' > 0
  BY DEF RowsInv, Rev
<1>2. \A c \in calls' : c.rev \in 1 .. Rev(c.node)'
  BY DEF RowsInv, Rev
<1>3. RevsExist(db)' /\ IsOrdered(db)'
  BY DEF RowsInv, RevsExist, Rev
<1>4. CASE tx'.open
  <2>1. RevsExist(tx.work)' /\ IsOrdered(tx.work)'
    BY <1>4 DEF RowsInv, RevsExist, Rev
  <2>2. /\ tx'.call.rev \in 1 .. Rev(tx.call.node)'
        /\ \A n \in Nodes \ {tx'.call.node} : tx'.work.endpoints[n] = db'.endpoints[n]
    BY <1>4 DEF RowsInv, Rev
  <2> QED
    BY <1>1, <1>2, <1>3, <2>1, <2>2 DEF RowsInv
<1>5. CASE ~ tx'.open
  BY <1>1, <1>2, <1>3, <1>5 DEF RowsInv
<1> QED
  BY <1>4, <1>5

\* The configuration that a node starts with comes after those that it has used.
LEMMA StartExtends ==
    ASSUME TypeOK, NEW n \in Nodes, Start(n)
    PROVE  \A m \in Nodes : /\ Rev(m) \in Nat /\ Rev(m)' \in Nat /\ Rev(m) <= Rev(m)'
                            /\ \A rev \in 1 .. Rev(m) : Config(m, rev)' = Config(m, rev)
<1> DEFINE All == UNION {Configs[m] : m \in Nodes}
<1>1. made \in [Nodes -> Seq(All)]
  BY DEF TypeOK
<1>2. PICK c \in Configs[n] : made' = [made EXCEPT ![n] = Append(made[n], c)]
  BY DEF Start
<1>3. c \in All
  OBVIOUS
<1> HIDE DEF All
<1>4. ASSUME NEW m \in Nodes
      PROVE  /\ Len(made[m]) \in Nat /\ Len(made'[m]) \in Nat /\ Len(made[m]) <= Len(made'[m])
             /\ \A rev \in 1 .. Len(made[m]) : made'[m][rev] = made[m][rev]
  <2>1. CASE m = n
    <3>1. made'[m] = Append(made[m], c) /\ made[m] \in Seq(All) /\ Len(made[m]) \in Nat
      BY <1>1, <1>2, <2>1, LenProperties
    <3> QED
      BY <1>3, <3>1, AppendProperties
  <2>2. CASE m # n
    BY <1>1, <1>2, <2>2, LenProperties
  <2> QED
    BY <2>1, <2>2
<1> QED
  BY <1>4 DEF Rev, Config

LEMMA StartKeepsRows == ASSUME IInv, RowsInv, NEW n \in Nodes, Start(n) PROVE RowsInv'
<1>1. TypeOK /\ UNCHANGED <<calls, db, tx>> /\ Set(n, "calling", 1)
  BY DEF IInv, Start
<1>2. \A m \in Nodes : Rev(m) \in Nat /\ Rev(m)' \in Nat /\ Rev(m) <= Rev(m)'
  BY <1>1, StartExtends
<1>3. Rev(n)' > 0
  <2>1. PICK c \in Configs[n] : made' = [made EXCEPT ![n] = Append(made[n], c)]
    BY DEF Start
  <2>2. made[n] \in Seq(UNION {Configs[m] : m \in Nodes}) /\ made'[n] = Append(made[n], c)
    BY <1>1, <2>1 DEF TypeOK
  <2>3. Len(made'[n]) = Len(made[n]) + 1
    BY <2>2, AppendProperties
  <2> QED
    BY <1>2, <2>3 DEF Rev
<1>4. \A m \in Nodes \ {n} : agent'[m] = agent[m]
  BY <1>1 DEF TypeOK, Set
<1>5. \A m \in Nodes : agent'[m].phase # "off" => Rev(m)' > 0
  BY <1>2, <1>3, <1>4 DEF RowsInv
<1>6. ASSUME NEW d, RevsExist(d) PROVE \A m \in Nodes : {d.label[m], d.endpoints[m], d.services[m]} \subseteq 0 .. Rev(m)'
  BY <1>2, <1>6 DEF RevsExist
<1>7. RevsExist(db)' /\ (tx.open => RevsExist(tx.work)')
  BY <1>1, <1>6 DEF RowsInv, RevsExist
<1>8. \A c \in Call : c.rev \in 1 .. Rev(c.node) => c.rev \in 1 .. Rev(c.node)'
  BY <1>2 DEF Call
<1>9. (\A c \in calls' : c.rev \in 1 .. Rev(c.node)') /\ (tx.open => tx.call.rev \in 1 .. Rev(tx.call.node)')
  BY <1>1, <1>8, CallKinds DEF RowsInv, TypeOK
<1>10. /\ IsOrdered(db)'
       /\ tx.open => IsOrdered(tx.work)'
  BY <1>1 DEF RowsInv
<1> QED
  BY <1>1, <1>5, <1>7, <1>9, <1>10 DEF RowsInv

LEMMA RegisterKeepsRows == ASSUME IInv, RowsInv, NEW n \in Nodes, register_node(n) PROVE RowsInv'
<1>1. /\ TypeOK /\ agent[n].phase = "calling" /\ Set(n, "asked", agent[n].attempt)
      /\ calls' = calls \cup {[node |-> n, rev |-> Rev(n), live |-> TRUE]}
      /\ UNCHANGED <<made, db, tx>>
  BY DEF IInv, register_node
<1>2. Rev(n) \in Nat /\ Rev(n) > 0
  BY <1>1, LenProperties DEF TypeOK, RowsInv, Rev
<1>3. \A m \in Nodes : agent'[m].phase # "off" => Rev(m)' > 0
  BY <1>1, <1>2 DEF RowsInv, Rev, Set, TypeOK
<1>4. \A c \in calls' : c.rev \in 1 .. Rev(c.node)'
  <2>1. \A c \in calls : c.rev \in 1 .. Rev(c.node)'
    BY <1>1 DEF RowsInv, Rev
  <2>2. Rev(n)' = Rev(n) /\ Rev(n) \in 1 .. Rev(n)
    BY <1>1, <1>2 DEF Rev
  <2> QED
    BY <1>1, <2>1, <2>2
<1>5. RevsExist(db)' /\ (tx.open => RevsExist(tx.work)')
  BY <1>1 DEF RowsInv, RevsExist, Rev
<1>6. /\ IsOrdered(db)'
      /\ tx.open => IsOrdered(tx.work)'
  BY <1>1 DEF RowsInv
<1>7. tx.open => tx.call.rev \in 1 .. Rev(tx.call.node)'
  BY <1>1 DEF RowsInv, Rev
<1> QED
  BY <1>1, <1>3, <1>4, <1>5, <1>6, <1>7 DEF RowsInv

\* All other rows are older than those inserted again.
LEMMA ReinsertedIsOrder ==
    ASSUME NEW R, NEW n \in Nodes, IsOrder(R, Labelled)
    PROVE  IsOrder(Reinserted(R, n), Labelled \cup {n})
<1> DEFINE Others == Labelled \ {n}
           New == Reinserted(R, n)
<1>1. New = {p \in R : n \notin {p[1], p[2]}} \cup {<<m, n>> : m \in Others}
  BY DEF Reinserted, Labelled
<1>2. \A k, m \in Others : <<k, m>> \in New <=> <<k, m>> \in R
  BY <1>1
<1>3. \A m \in Others : <<m, n>> \in New
  BY <1>1
<1>4. \A m \in Labelled \cup {n} : <<n, m>> \notin New
  BY <1>1
<1>5. New \subseteq (Labelled \cup {n}) \X (Labelled \cup {n})
  BY <1>1 DEF IsOrder
<1> HIDE DEF New
<1>6. ASSUME NEW k \in Labelled \cup {n}, NEW m \in Labelled \cup {n}
      PROVE  IF k = m THEN <<k, m>> \notin New ELSE <<k, m>> \in New <=> <<m, k>> \notin New
  <2>1. CASE k # n /\ m # n
    BY <1>2, <2>1 DEF IsOrder
  <2>2. CASE k = n \/ m = n
    BY <1>3, <1>4, <2>2
  <2> QED
    BY <2>1, <2>2
<1>7. ASSUME NEW k \in Labelled \cup {n}, NEW l \in Labelled \cup {n}, NEW m \in Labelled \cup {n},
             <<k, l>> \in New, <<l, m>> \in New
      PROVE  <<k, m>> \in New
  <2>1. k \in Others /\ l \in Others
    BY <1>4, <1>7
  <2>2. CASE m # n
    BY <1>2, <1>7, <2>1, <2>2 DEF IsOrder
  <2>3. CASE m = n
    BY <1>3, <2>1, <2>3
  <2> QED
    BY <2>2, <2>3
<1> QED
  BY <1>5, <1>6, <1>7 DEF IsOrder, New

LEMMA TxBeginKeepsRows == ASSUME IInv, RowsInv, NEW n \in Nodes, TxBegin(n) PROVE RowsInv'
<1>1. TypeOK /\ IsDb(db) /\ ~ tx.open
  BY DEF IInv, TypeOK, TxBegin, Free
<1>2. PICK c \in calls :
          /\ c.node = n /\ calls' = calls \ {c}
          /\ tx' = [open |-> TRUE, call |-> c, step |-> "services",
                    work |-> [db EXCEPT !.label[n] = c.rev, !.endpoints[n] = c.rev,
                                        !.services[n] = 0, !.older = Reinserted(@, n)]]
  BY DEF TxBegin
<1>3. UNCHANGED <<made, agent, db>>
  BY DEF TxBegin
<1>4. c \in Call /\ c.rev \in 1 .. Rev(n) /\ Rev(n) \in Nat
  BY <1>1, <1>2, LenProperties DEF TypeOK, RowsInv, Rev
<1> DEFINE w == [db EXCEPT !.label[n] = c.rev, !.endpoints[n] = c.rev,
                           !.services[n] = 0, !.older = Reinserted(@, n)]
<1>5. /\ w.label = [db.label EXCEPT ![n] = c.rev]
      /\ w.endpoints = [db.endpoints EXCEPT ![n] = c.rev]
      /\ w.services = [db.services EXCEPT ![n] = 0]
      /\ w.older = Reinserted(db.older, n)
  BY <1>1 DEF IsDb
<1>6. tx'.open = TRUE /\ tx'.call = c /\ tx'.work = w
  BY <1>2
<1> HIDE DEF w
<1>7. /\ w.label[n] = c.rev /\ w.endpoints[n] = c.rev /\ w.services[n] = 0
      /\ \A m \in Nodes \ {n} : /\ w.label[m] = db.label[m] /\ w.endpoints[m] = db.endpoints[m]
                                /\ w.services[m] = db.services[m]
  BY <1>1, <1>5 DEF IsDb
<1>8. RevsExist(w)
  <2>0. c.rev \in 0 .. Rev(n) /\ 0 \in 0 .. Rev(n)
    BY <1>4
  <2>1. {w.label[n], w.endpoints[n], w.services[n]} \subseteq 0 .. Rev(n)
    BY <1>7, <2>0
  <2>2. \A m \in Nodes \ {n} : {w.label[m], w.endpoints[m], w.services[m]} \subseteq 0 .. Rev(m)
    <3>1. \A m \in Nodes : {db.label[m], db.endpoints[m], db.services[m]} \subseteq 0 .. Rev(m)
      BY DEF RowsInv, RevsExist
    <3> QED
      BY <1>7, <3>1
  <2> QED
    BY <2>1, <2>2 DEF RevsExist
<1>9. {m \in Nodes : w.label[m] # 0} = Labelled \cup {n}
  BY <1>4, <1>7 DEF Labelled
<1>10. IsOrdered(w)
  <2>1. IsOrder(db.older, Labelled)
    BY DEF RowsInv, IsOrdered, Labelled
  <2> QED
    BY <1>5, <1>9, <2>1, ReinsertedIsOrder DEF IsOrdered
<1>11. /\ RevsExist(db)' /\ RevsExist(tx.work)'
       /\ tx'.call.rev \in 1 .. Rev(tx.call.node)'
       /\ \A d \in calls' : d.rev \in 1 .. Rev(d.node)'
       /\ \A m \in Nodes : agent'[m].phase # "off" => Rev(m)' > 0
  BY <1>2, <1>3, <1>4, <1>6, <1>8 DEF RowsInv, RevsExist, Rev
<1>12. IsOrdered(db)'
  BY <1>3 DEF RowsInv
<1>13. IsOrdered(tx.work)'
  BY <1>6, <1>10
<1>14. \A m \in Nodes \ {tx'.call.node} : tx'.work.endpoints[m] = db'.endpoints[m]
  BY <1>2, <1>3, <1>6, <1>7
<1> QED
  BY <1>11, <1>12, <1>13, <1>14 DEF RowsInv

\* An agent that learns how its call ended is not off.
LEMMA ReturnStarts ==
    ASSUME IInv, tx.open, NEW ok \in BOOLEAN, Return(ok)
    PROVE  \A n \in Nodes : agent'[n].phase # "off" => agent[n].phase # "off"
<1> DEFINE n == tx.call.node
<1>1. TypeOK /\ n \in Nodes
  BY CallKinds DEF IInv
<1>2. CASE ~ tx.call.live
  BY <1>2 DEF Return
<1>3. CASE tx.call.live
  <2>1. agent[n].phase = "asked"
    BY <1>3 DEF IInv, AwaitedIsCurrent, Awaited
  <2>2. \A m \in Nodes \ {n} : agent'[m] = agent[m]
    BY <1>1, <1>3 DEF Return, Again, Set, TypeOK
  <2> QED
    BY <2>1, <2>2
<1> QED
  BY <1>2, <1>3

LEMMA TxServicesKeepsRows == ASSUME IInv, RowsInv, TxServices PROVE RowsInv'
<1> DEFINE n == tx.call.node
           failed == Duplicates(Config(n, tx.call.rev).services)
<1>1. TypeOK /\ tx.open /\ UNCHANGED <<made, calls, db>>
  BY DEF IInv, TxServices, Rollback
<1>2. CASE failed
  <2>1. tx' = NoTx /\ Return(FALSE)
    BY <1>2 DEF TxServices
  <2>2. ~ tx'.open
    BY <2>1 DEF NoTx
  <2>3. \A m \in Nodes : agent'[m].phase # "off" => agent[m].phase # "off"
    BY <1>1, <2>1, ReturnStarts
  <2> QED
    BY <1>1, <2>2, <2>3, RowsStay
<1>3. CASE ~ failed
  <2>1. tx' = [tx EXCEPT !.step = "commit", !.work.services[n] = tx.call.rev] /\ agent' = agent
    BY <1>3 DEF TxServices
  <2>2. /\ DOMAIN tx = {"open", "call", "step", "work"} /\ n \in Nodes /\ IsDb(tx.work)
    BY <1>1, CallKinds
  <2>3. /\ tx'.call = tx.call /\ tx'.open = tx.open
        /\ tx'.work = [tx.work EXCEPT !.services = [tx.work.services EXCEPT ![n] = tx.call.rev]]
    BY <2>1, <2>2
  <2>4. /\ tx'.work.label = tx.work.label /\ tx'.work.endpoints = tx.work.endpoints
        /\ tx'.work.older = tx.work.older
        /\ tx'.work.services[n] = tx.call.rev
        /\ \A m \in Nodes \ {n} : tx'.work.services[m] = tx.work.services[m]
    BY <2>2, <2>3 DEF IsDb
  <2>5. tx.call.rev \in 0 .. Rev(n) /\ RevsExist(tx.work)
    BY <1>1 DEF RowsInv
  <2>6. RevsExist(tx.work)'
    BY <1>1, <2>4, <2>5 DEF RevsExist, Rev
  <2>7. RevsExist(db)' /\ tx'.call.rev \in 1 .. Rev(tx.call.node)'
    BY <1>1, <2>3 DEF RowsInv, RevsExist, Rev
  <2>8. /\ IsOrdered(db)'
        /\ IsOrdered(tx.work)'
    BY <1>1, <2>4 DEF RowsInv, IsOrdered
  <2>9. /\ \A m \in Nodes : agent'[m].phase # "off" => Rev(m)' > 0
        /\ \A c \in calls' : c.rev \in 1 .. Rev(c.node)'
    BY <1>1, <2>1 DEF RowsInv, Rev
  <2>10. \A m \in Nodes \ {n} : tx'.work.endpoints[m] = db'.endpoints[m]
    BY <1>1, <2>4 DEF RowsInv
  <2> QED
    BY <2>3, <2>6, <2>7, <2>8, <2>9, <2>10 DEF RowsInv
<1> QED
  BY <1>2, <1>3

LEMMA TxCommitKeepsRows == ASSUME IInv, RowsInv, TxCommit PROVE RowsInv'
<1>1. /\ tx.open /\ db' = tx.work /\ tx' = NoTx /\ Return(TRUE) /\ UNCHANGED <<made, calls>>
  BY DEF TxCommit
<1>2. ~ tx'.open
  BY <1>1 DEF NoTx
<1>3. \A n \in Nodes : agent'[n].phase # "off" => Rev(n)' > 0
  BY <1>1, ReturnStarts DEF RowsInv, Rev
<1>4. \A c \in calls' : c.rev \in 1 .. Rev(c.node)'
  BY <1>1 DEF RowsInv, Rev
<1>5. RevsExist(db)' /\ IsOrdered(db)'
  BY <1>1 DEF RowsInv, RevsExist, Rev
<1> QED
  BY <1>2, <1>3, <1>4, <1>5 DEF RowsInv

\* Agents that retry, stop or lose their call, and a control plane that crashes.
LEMMA LossesKeepRows ==
    ASSUME IInv, RowsInv,
           \/ ControlCrashes
           \/ \E n \in Nodes : Stop(n) \/ ConnectionBreaks(n) \/ ConnectionRefused(n) \/ Respawn(n)
    PROVE  RowsInv'
<1>1. TypeOK
  BY DEF IInv
<1>2. CASE ControlCrashes
  <2>1. /\ UNCHANGED <<made, db>> /\ calls' = {} /\ ~ tx'.open
        /\ \A n \in Nodes : agent'[n].phase # "off" => agent[n].phase # "off"
    BY <1>2 DEF ControlCrashes, NoTx
  <2> QED
    BY <2>1, RowsStay
<1>3. ASSUME NEW n \in Nodes, ConnectionRefused(n) \/ Respawn(n) PROVE RowsInv'
  <2>1. agent[n].phase # "off" /\ UNCHANGED <<made, calls, db, tx>>
    BY <1>3 DEF ConnectionRefused, Respawn
  <2>2. \A m \in Nodes \ {n} : agent'[m] = agent[m]
    BY <1>1, <1>3 DEF ConnectionRefused, Respawn, Again, Set, TypeOK
  <2> QED
    BY <2>1, <2>2, RowsStay
<1>4. ASSUME NEW n \in Nodes, Stop(n) \/ ConnectionBreaks(n) PROVE RowsInv'
  <2>1. agent[n].phase # "off" /\ Abandon(n) /\ UNCHANGED <<made, db>>
    BY <1>4 DEF Stop, ConnectionBreaks
  <2>2. \A m \in Nodes \ {n} : agent'[m] = agent[m]
    BY <1>1, <1>4 DEF Stop, ConnectionBreaks, Again, Set, TypeOK
  <2>3. \A c \in calls' : \E d \in calls : c.node = d.node /\ c.rev = d.rev
    <3> TAKE c \in calls'
    <3>1. PICK d \in calls : c = [d EXCEPT !.live = d.live /\ d.node # n]
      BY <2>1 DEF Abandon
    <3>2. d \in Call
      BY <1>1 DEF TypeOK
    <3> QED
      BY <3>1, <3>2 DEF Call
  <2>4. CASE ~ tx.open
    BY <2>1, <2>2, <2>3, <2>4, RowsStay DEF Abandon
  <2>5. CASE tx.open
    <3> DEFINE live == tx.call.live /\ tx.call.node # n
    <3>1. DOMAIN tx = {"open", "call", "step", "work"} /\ tx.call \in Call
      BY <1>1, <2>5, CallKinds
    <3>2. tx' = [tx EXCEPT !.call = [tx.call EXCEPT !.live = live]]
      BY <2>1, <2>5 DEF Abandon
    <3>3. tx'.work = tx.work /\ tx'.call = [tx.call EXCEPT !.live = live]
      BY <3>1, <3>2
    <3>4. tx'.call.node = tx.call.node /\ tx'.call.rev = tx.call.rev
      BY <3>1, <3>3 DEF Call
    <3> QED
      BY <2>1, <2>2, <2>3, <2>5, <3>3, <3>4, RowsStay
  <2> QED
    BY <2>4, <2>5
<1> QED
  BY <1>2, <1>3, <1>4

LEMMA InitRows == Init => RowsInv
<1> SUFFICES ASSUME Init PROVE RowsInv
  OBVIOUS
<1>1. ~ tx.open /\ calls = {} /\ \A n \in Nodes : agent[n].phase = "off"
  BY DEF Init, NoTx
<1>2. \A n \in Nodes : db.label[n] = 0 /\ db.endpoints[n] = 0 /\ db.services[n] = 0 /\ Rev(n) = 0
  BY EmptySeq DEF Init, Empty, Rev
<1>3. RevsExist(db)
  <2>1. 0 \in 0 .. 0
    OBVIOUS
  <2> QED
    BY <1>2, <2>1 DEF RevsExist
<1>4. IsOrdered(db)
  BY <1>2 DEF Init, Empty, IsOrdered, IsOrder
<1> QED
  BY <1>1, <1>3, <1>4 DEF RowsInv

LEMMA NextKeepsRows == IInv /\ RowsInv /\ [Next]_vars => RowsInv'
<1> SUFFICES ASSUME IInv, RowsInv, [Next]_vars PROVE RowsInv'
  OBVIOUS
<1>1. CASE UNCHANGED vars \/ ControlRestarts \/ Client \/ Retry
  <2>1. UNCHANGED <<made, agent, calls, db, tx>>
    BY <1>1, ClientOnlyAsks DEF vars, ControlRestarts, Retry
  <2> QED
    BY <2>1, RowsStay
<1>2. CASE TxServices \/ TxCommit \/ ControlCrashes
  BY <1>2, TxServicesKeepsRows, TxCommitKeepsRows, LossesKeepRows
<1>3. ASSUME NEW n \in Nodes, Start(n) \/ Stop(n) \/ ConnectionBreaks(n) \/ Agent(n) \/ TxBegin(n)
      PROVE  RowsInv'
  BY <1>3, StartKeepsRows, LossesKeepRows, RegisterKeepsRows, TxBeginKeepsRows DEF Agent
<1> QED
  BY <1>1, <1>2, <1>3 DEF Next, Control

-----------------------------------------------------------------------------
\* A set of rows or devices has a first one.
LEMMA FirstIsIn ==
    ASSUME NEW S, S # {}, \A d \in S : d.node \in Nat
    PROVE  First(S) \in S
<1> DEFINE R == {p \in Nat \X Nat : p[1] < p[2]}
           T == {d.node : d \in S}
<1>1. IsWellFoundedOn(R, Nat)
  BY NatLessThanWellFounded DEF OpToRel
<1>2. T \subseteq Nat /\ T # {}
  OBVIOUS
<1> HIDE DEF R
<1>3. PICK x \in T : \A y \in T : ~ (<<y, x>> \in R)
  <2> HIDE DEF T
  <2> QED
    BY <1>1, <1>2, WFMin, Zenon
<1>4. \A y \in T : x <= y
  <2> TAKE y \in T
  <2>1. x \in Nat /\ y \in Nat /\ <<y, x>> \notin R
    BY <1>2, <1>3
  <2> QED
    BY <2>1 DEF R
<1>5. PICK d \in S : x = d.node
  BY <1>3
<1>6. \A e \in S : d.node <= e.node
  BY <1>4, <1>5
<1> QED
  BY <1>6 DEF First

\* Configurations that were used do not change, and so neither do the catalog, the device
\* that medium ssh wants and the user name, until a registration is committed.
ConfigsStay == \A m \in Nodes : \A rev \in 1 .. Rev(m) : Config(m, rev)' = Config(m, rev)

LEMMA CatalogStays ==
    ASSUME IInv, RowsInv, db' = db, ConfigsStay
    PROVE  /\ Labelled' = Labelled
           /\ Rows' = Rows /\ Devices' = Devices /\ Wanted' = Wanted
           /\ \A T : Listed(T)' = Listed(T)
           /\ \A n \in Nodes : \A id : UserOf(n, id)' = UserOf(n, id)
<1>1. Labelled' = Labelled
  BY DEF Labelled
<1>2. \A n \in Nodes : db.label[n] \in 0 .. Rev(n) /\ db.services[n] \in 0 .. Rev(n)
  BY DEF RowsInv, RevsExist
<1>3. \A n \in Nodes : db.label[n] \in Nat /\ db.services[n] \in Nat
  BY DEF IInv, TypeOK, IsDb
<1>4. \A n \in Nodes : (db.label[n] # 0 => db.label[n] \in 1 .. Rev(n)) /\ (db.services[n] # 0 => db.services[n] \in 1 .. Rev(n))
  BY <1>2, <1>3
<1>5. \A n \in Labelled : Row(n)' = Row(n)
  BY <1>4 DEF Labelled, Row, ConfigsStay
<1>6. \A n \in Nodes : ServicesOf(n, db.services[n])' = ServicesOf(n, db.services[n])
  BY <1>4 DEF ServicesOf, ConfigsStay
<1>7. \A n \in Nodes : SshService(n)' = SshService(n)
  BY <1>6 DEF SshService
<1>8. \A n \in Labelled : DeviceOf(n)' = DeviceOf(n)
  <2> TAKE n \in Labelled
  <2>1. n \in Nodes
    BY DEF Labelled
  <2>2. Row(n)' = Row(n) /\ SshService(n)' = SshService(n)
    BY <1>5, <1>7, <2>1
  <2> QED
    BY <2>2 DEF DeviceOf, Device
<1>9. Rows' = Rows /\ Devices' = Devices
  BY <1>1, <1>5, <1>8 DEF Rows, Devices
<1>10. Wanted' = Wanted
  BY <1>9 DEF Wanted, First
<1>11. \A n \in Nodes : \A id : UserOf(n, id)' = UserOf(n, id)
  BY <1>6 DEF UserOf
<1>12. ASSUME NEW T PROVE Listed(T)' = Listed(T)
  <2>1. {m \in Labelled : Row(m) \notin T}' = {m \in Labelled : Row(m) \notin T}
    BY <1>1, <1>5
  <2> QED
    BY <1>8, <2>1 DEF Listed
<1> QED
  BY <1>1, <1>9, <1>10, <1>11, <1>12

\* A step of others that commits nothing.
LEMMA ClientStays ==
    ASSUME IInv, RowsInv, ClientInv, UNCHANGED <<client, db>>, ConfigsStay
    PROVE  ClientInv'
<1>1. IsClient' /\ PresentWasSeen' /\ RouteWasSeen' /\ RouteIsRecent' /\ CertificateFits' = CertificateFits
  BY DEF ClientInv, IsClient, NewClient, PresentWasSeen, RouteWasSeen, RouteIsRecent, CertificateFits
<1>2. CatalogIsCurrent'
  <2>1. Rows' = Rows /\ Devices' = Devices /\ Listed(client.todo)' = Listed(client.todo)
    BY CatalogStays
  <2>2. First(client.todo)' = First(client.todo)
    BY DEF First
  <2> QED
    BY <2>1, <2>2 DEF ClientInv, CatalogIsCurrent
<1>3. SshIsCurrent'
  <2>1. IsWanted(client.route) => IsWanted(client.route)'
    BY CatalogStays DEF IsWanted
  <2>2. IsWanted(client.cert) => IsWanted(client.cert)'
    BY CatalogStays DEF IsWanted
  <2> QED
    BY <2>1, <2>2, CatalogStays DEF ClientInv, SshIsCurrent
<1> QED
  BY <1>1, <1>2, <1>3 DEF ClientInv

LEMMA RefusedKeepsClient == ASSUME ClientInv, client' = Refused PROVE ClientInv'
<1>1. /\ DOMAIN client' = DOMAIN NewClient(TRUE) /\ client'.phone = client.phone /\ client'.pc = "refused"
      /\ client'.purpose \in {"cert", "session"}
  BY DEF Refused, NewClient
<1>2. IsClient'
  BY <1>1 DEF ClientInv, IsClient, NewClient
<1>3. PresentWasSeen' /\ RouteWasSeen' /\ RouteIsRecent' /\ CatalogIsCurrent' /\ SshIsCurrent' /\ CertificateFits'
  BY <1>1 DEF PresentWasSeen, RouteWasSeen, RouteIsRecent, CatalogIsCurrent, SshIsCurrent, CertificateFits
<1> QED
  BY <1>2, <1>3 DEF ClientInv

LEMMA NewKeepsClient == ASSUME NEW phone \in BOOLEAN, client' = NewClient(phone) PROVE ClientInv'
<1>1. /\ DOMAIN client' = DOMAIN NewClient(TRUE) /\ client'.phone = phone /\ client'.pc = "nodes"
      /\ client'.purpose \in {"cert", "session"} /\ (~ phone => client'.purpose = "cert")
  BY DEF NewClient
<1>2. IsClient'
  BY <1>1 DEF IsClient, NewClient
<1>3. PresentWasSeen' /\ RouteWasSeen' /\ RouteIsRecent' /\ CatalogIsCurrent' /\ SshIsCurrent' /\ CertificateFits'
  BY <1>1 DEF PresentWasSeen, RouteWasSeen, RouteIsRecent, CatalogIsCurrent, SshIsCurrent, CertificateFits
<1> QED
  BY <1>2, <1>3 DEF ClientInv

\* A commit is seen by a client that has begun; all that it says of the rest is void.
LEMMA TxCommitKeepsClient == ASSUME IInv, RowsInv, ClientInv, TxCommit PROVE ClientInv'
<1> DEFINE n == tx.call.node
           row == [node |-> n, rev |-> tx.call.rev]
<1>1. tx.open /\ db' = tx.work /\ n \in Nodes
  BY CallKinds DEF IInv, TxCommit
<1>2. CASE ~ Asking
  <2>1. client' = client
    BY <1>2 DEF TxCommit
  <2>2. CASE client = NewClient(client.phone)
    BY <2>1, <2>2, NewKeepsClient DEF ClientInv, IsClient
  <2>3. CASE client.pc \in {"open", "refused"}
    <3>1. IsClient' /\ RouteIsRecent' /\ (~ client'.phone => CertificateFits')
      BY <2>1 DEF ClientInv, IsClient, NewClient, RouteIsRecent, CertificateFits
    <3>2. PresentWasSeen' /\ RouteWasSeen' /\ CatalogIsCurrent'
      BY <2>1, <2>3 DEF PresentWasSeen, RouteWasSeen, CatalogIsCurrent
    <3>3. SshIsCurrent'
      BY <2>1, <2>3 DEF ClientInv, SshIsCurrent
    <3> QED
      BY <3>1, <3>2, <3>3 DEF ClientInv
  <2> QED
    BY <1>2, <2>2, <2>3 DEF Asking
<1>3. CASE Asking
  <2>1. client' = [client EXCEPT !.quiet = FALSE, !.seen = client.seen \cup {row}]
    BY <1>3 DEF TxCommit
  <2>2. /\ DOMAIN client' = DOMAIN client /\ client'.quiet = FALSE /\ client'.seen = client.seen \cup {row}
        /\ client'.phone = client.phone /\ client'.pc = client.pc /\ client'.purpose = client.purpose
        /\ client'.route = client.route /\ client'.device = client.device
    BY <2>1 DEF ClientInv, IsClient, NewClient
  <2>3. IsClient'
    BY <2>2 DEF ClientInv, IsClient, NewClient
  <2>4. PresentWasSeen'
    <3>1. \A m \in Nodes : IF m = n THEN db'.endpoints[m] = tx.call.rev ELSE db'.endpoints[m] = db.endpoints[m]
      BY <1>1 DEF IInv, WorkIsWhole, RowsInv
    <3> QED
      BY <2>2, <3>1 DEF ClientInv, PresentWasSeen
  <2>5. RouteWasSeen'
    BY <2>2 DEF ClientInv, RouteWasSeen
  <2>6. RouteIsRecent'
    BY <1>3, <2>2 DEF RouteIsRecent, Asking
  <2>7. CatalogIsCurrent' /\ CertificateFits'
    BY <2>2 DEF CatalogIsCurrent, CertificateFits
  <2>8. SshIsCurrent'
    BY <2>2 DEF ClientInv, SshIsCurrent
  <2> QED
    BY <2>3, <2>4, <2>5, <2>6, <2>7, <2>8 DEF ClientInv
<1> QED
  BY <1>2, <1>3

\* What a query of the client leaves as it is.
LEMMA QueriesStay ==
    ASSUME IInv, RowsInv, UNCHANGED <<made, db>>
    PROVE  /\ Rows' = Rows /\ Devices' = Devices /\ Wanted' = Wanted
           /\ \A T : Listed(T)' = Listed(T)
           /\ \A r : IsWanted(r)' <=> IsWanted(r)
<1>1. ConfigsStay
  BY DEF ConfigsStay, Config
<1>2. Wanted' = Wanted /\ \A n \in Nodes : \A id : UserOf(n, id)' = UserOf(n, id)
  BY <1>1, CatalogStays
<1>3. \A r : IsWanted(r)' <=> IsWanted(r)
  BY <1>2 DEF IsWanted
<1> QED
  BY <1>1, <1>2, <1>3, CatalogStays

LEMMA ListNodesKeepsClient == ASSUME IInv, RowsInv, ClientInv, ListNodes PROVE ClientInv'
<1>1. UNCHANGED <<made, db>>
  BY DEF ListNodes, Query
<1>2. /\ DOMAIN client' = DOMAIN client /\ client'.pc = "services" /\ client'.list = {}
      /\ client'.todo = Rows
      /\ client'.seen = {[node |-> n, rev |-> db.endpoints[n]] : n \in Nodes}
      /\ client'.phone = client.phone /\ client'.purpose = client.purpose /\ client'.cert = client.cert
      /\ client'.quiet = client.quiet /\ client.pc = "nodes"
  BY DEF ListNodes, Query, ClientInv, IsClient, NewClient
<1>3. IsClient' /\ PresentWasSeen'
  BY <1>1, <1>2 DEF ClientInv, IsClient, NewClient, PresentWasSeen
<1>4. RouteWasSeen' /\ RouteIsRecent' /\ CertificateFits'
  BY <1>2 DEF RouteWasSeen, RouteIsRecent, CertificateFits
<1>5. CatalogIsCurrent'
  <2>1. Rows' = Rows /\ Listed(client.todo)' = {}
    BY <1>1, <1>2, QueriesStay DEF Listed, Rows
  <2> QED
    BY <1>2, <2>1 DEF CatalogIsCurrent
<1>6. SshIsCurrent'
  BY <1>1, <1>2, QueriesStay DEF ClientInv, SshIsCurrent
<1> QED
  BY <1>3, <1>4, <1>5, <1>6 DEF ClientInv

LEMMA ServicesKeepClient == ASSUME IInv, RowsInv, ClientInv, list_node_services PROVE ClientInv'
<1>1. UNCHANGED <<made, db>>
  BY DEF list_node_services, Query
<1>2. /\ DOMAIN client' = DOMAIN client /\ client'.list = client.list /\ client'.todo = client.todo
      /\ client'.seen = client.seen /\ client.pc = "services"
      /\ client'.phone = client.phone /\ client'.purpose = client.purpose /\ client'.cert = client.cert
      /\ client'.quiet = client.quiet
      /\ \/ client.todo = {} /\ client'.pc = "find"
         \/ /\ client.todo # {} /\ client'.pc = "endpoint"
            /\ client'.services = db.services[First(client.todo).node]
  BY DEF list_node_services, Query, ClientInv, IsClient, NewClient
<1>3. IsClient' /\ PresentWasSeen'
  BY <1>1, <1>2 DEF ClientInv, IsClient, NewClient, PresentWasSeen
<1>4. RouteWasSeen' /\ RouteIsRecent' /\ CertificateFits'
  BY <1>2 DEF RouteWasSeen, RouteIsRecent, CertificateFits
<1>5. CatalogIsCurrent'
  <2> SUFFICES ASSUME client.quiet PROVE CatalogIsCurrent'
    BY <1>2 DEF CatalogIsCurrent
  <2>1. /\ client.todo \subseteq Rows
        /\ client.list = Listed(client.todo)
    BY <1>2 DEF ClientInv, CatalogIsCurrent
  <2>2. CASE client'.pc = "find"
    <3>1. client.list = Devices
      BY <1>2, <2>1, <2>2 DEF Listed, Devices
    <3> QED
      BY <1>1, <1>2, <2>2, <3>1, QueriesStay DEF CatalogIsCurrent
  <2>3. CASE client'.pc = "endpoint"
    <3>1. Rows' = Rows /\ Listed(client.todo)' = Listed(client.todo) /\ First(client.todo)' = First(client.todo)
      BY <1>1, <1>2, QueriesStay DEF First
    <3> QED
      BY <1>1, <1>2, <2>1, <2>3, <3>1 DEF CatalogIsCurrent
  <2> QED
    BY <1>2, <2>2, <2>3
<1>6. SshIsCurrent'
  BY <1>1, <1>2, QueriesStay DEF ClientInv, SshIsCurrent
<1> QED
  BY <1>3, <1>4, <1>5, <1>6 DEF ClientInv

\* The entry made of the rows read in two queries is what one look would have found.
LEMMA SshEntryKeepsClient == ASSUME IInv, RowsInv, ClientInv, SshEntry PROVE ClientInv'
<1> DEFINE row == First(client.todo)
           d == Device(row, client.services, SshService(row.node))
<1>1. UNCHANGED <<made, db>> /\ client.pc = "endpoint"
  BY DEF SshEntry, Query
<1>2. CASE client' = Refused
  BY <1>2, RefusedKeepsClient
<1>3. CASE client' = [client EXCEPT !.pc = "services", !.todo = client.todo \ {row}, !.services = 0,
                                    !.list = client.list \cup {d}]
  <2>1. /\ DOMAIN client' = DOMAIN client /\ client'.pc = "services"
        /\ client'.todo = client.todo \ {row} /\ client'.list = client.list \cup {d}
        /\ client'.seen = client.seen /\ client'.quiet = client.quiet
        /\ client'.phone = client.phone /\ client'.purpose = client.purpose /\ client'.cert = client.cert
    BY <1>3 DEF ClientInv, IsClient, NewClient
  <2>2. IsClient' /\ PresentWasSeen'
    BY <1>1, <2>1 DEF ClientInv, IsClient, NewClient, PresentWasSeen
  <2>3. RouteWasSeen' /\ RouteIsRecent' /\ CertificateFits'
    BY <2>1 DEF RouteWasSeen, RouteIsRecent, CertificateFits
  <2>4. CatalogIsCurrent'
    <3> SUFFICES ASSUME client.quiet PROVE CatalogIsCurrent'
      BY <2>1 DEF CatalogIsCurrent
    <3>1. /\ client.todo \subseteq Rows /\ client.todo # {}
          /\ client.list = Listed(client.todo)
          /\ client.services = db.services[row.node]
      BY <1>1 DEF ClientInv, CatalogIsCurrent
    <3>2. \A r \in client.todo : r.node \in Nat
      BY <3>1, RegistryAssumption DEF Rows, Row, Labelled
    <3>3. row \in client.todo
      BY <3>1, <3>2, FirstIsIn
    <3>4. PICK k \in Labelled : row = Row(k)
      BY <3>1, <3>3 DEF Rows
    <3>5. row.node = k
      BY <3>4 DEF Row
    <3>6. d = DeviceOf(k)
      BY <3>1, <3>4, <3>5 DEF DeviceOf
    <3>7. \A m \in Labelled : Row(m) = row => m = k
      BY <3>5 DEF Row
    <3> HIDE DEF row, d
    <3>8. {m \in Labelled : Row(m) \notin client'.todo} = {m \in Labelled : Row(m) \notin client.todo} \cup {k}
      BY <2>1, <3>3, <3>4, <3>7
    <3>9. client'.list = Listed(client'.todo)
      BY <2>1, <3>1, <3>6, <3>8 DEF Listed
    <3>10. client'.todo \subseteq Rows
      BY <2>1, <3>1
    <3> QED
      BY <1>1, <2>1, <3>9, <3>10, QueriesStay DEF CatalogIsCurrent
  <2>5. SshIsCurrent'
    BY <1>1, <2>1, QueriesStay DEF ClientInv, SshIsCurrent
  <2> QED
    BY <2>2, <2>3, <2>4, <2>5 DEF ClientInv
<1> QED
  BY <1>2, <1>3 DEF SshEntry

\* The device is the wanted one: by its name, and with a name that is no node's id also
\* by its name or id.
LEMMA TakeKeepsClient == ASSUME IInv, RowsInv, ClientInv, SshDevice \/ run_proxy_ssh PROVE ClientInv'
<1> DEFINE hits == {d \in client.list : d.label = Ask}
<1>1. client.pc = "find" /\ UNCHANGED <<made, db>>
  BY DEF SshDevice, run_proxy_ssh, TakeDevice
<1>2. CASE client' = Refused
  BY <1>2, RefusedKeepsClient
<1>3. ASSUME NEW S, client' = [client EXCEPT !.pc = "route", !.list = {}, !.device = [node |-> First(S).node, id |-> First(S).id]],
             client.quiet => S = hits
      PROVE  ClientInv'
  <2>1. /\ DOMAIN client' = DOMAIN client /\ client'.pc = "route"
        /\ client'.device.node = First(S).node /\ client'.device.id = First(S).id
        /\ client'.seen = client.seen /\ client'.quiet = client.quiet
        /\ client'.phone = client.phone /\ client'.purpose = client.purpose /\ client'.cert = client.cert
    BY <1>3 DEF ClientInv, IsClient, NewClient
  <2>2. IsClient' /\ PresentWasSeen'
    BY <1>1, <2>1 DEF ClientInv, IsClient, NewClient, PresentWasSeen
  <2>3. RouteWasSeen' /\ RouteIsRecent' /\ CertificateFits' /\ CatalogIsCurrent'
    BY <2>1 DEF RouteWasSeen, RouteIsRecent, CertificateFits, CatalogIsCurrent
  <2>4. client.quiet => First(S) = Wanted
    BY <1>1, <1>3 DEF ClientInv, CatalogIsCurrent, Wanted
  <2>5. SshIsCurrent'
    BY <1>1, <2>1, <2>4, QueriesStay DEF ClientInv, SshIsCurrent
  <2> QED
    BY <2>2, <2>3, <2>5 DEF ClientInv
<1>4. CASE SshDevice
  BY <1>2, <1>3, <1>4 DEF SshDevice, TakeDevice
<1>5. CASE run_proxy_ssh
  <2> DEFINE S == {d \in client.list : find_device(d, Ask)}
  <2>1. client.quiet => S = hits
    <3> SUFFICES ASSUME client.quiet PROVE \A d \in client.list : d.node # Ask
      BY DEF find_device
    <3>1. client.list = Devices
      BY <1>1 DEF ClientInv, CatalogIsCurrent
    <3>2. \A n \in Labelled : DeviceOf(n).node = n
      BY DEF DeviceOf, Device, Row
    <3> QED
      BY <3>1, <3>2, RegistryAssumption DEF Devices, Labelled
  <2>2. \/ client' = Refused
        \/ client' = [client EXCEPT !.pc = "route", !.list = {}, !.device = [node |-> First(S).node, id |-> First(S).id]]
    BY <1>5 DEF run_proxy_ssh, TakeDevice
  <2> QED
    BY <1>2, <1>3, <2>1, <2>2
<1> QED
  BY <1>4, <1>5

LEMMA ChooseKeepsClient == ASSUME IInv, RowsInv, ClientInv, ChooseService PROVE ClientInv'
<1>1. client.pc = "find" /\ client.phone /\ UNCHANGED <<made, db>>
  BY DEF ChooseService
<1>2. CASE client' = Refused
  BY <1>2, RefusedKeepsClient
<1>3. ASSUME NEW dev, client' = [client EXCEPT !.pc = "route", !.list = {}, !.device = dev] PROVE ClientInv'
  <2>1. /\ DOMAIN client' = DOMAIN client /\ client'.pc = "route" /\ client'.seen = client.seen
        /\ client'.phone = client.phone /\ client'.purpose = client.purpose
    BY <1>3 DEF ClientInv, IsClient, NewClient
  <2>2. IsClient' /\ PresentWasSeen'
    BY <1>1, <2>1 DEF ClientInv, IsClient, NewClient, PresentWasSeen
  <2>3. RouteWasSeen' /\ RouteIsRecent' /\ CertificateFits' /\ CatalogIsCurrent' /\ SshIsCurrent'
    BY <1>1, <2>1 DEF RouteWasSeen, RouteIsRecent, CertificateFits, CatalogIsCurrent, SshIsCurrent
  <2> QED
    BY <2>2, <2>3 DEF ClientInv
<1> QED
  BY <1>2, <1>3 DEF ChooseService

\* With the node's id the route leads to the device.
LEMMA RouteKeepsClient == ASSUME IInv, RowsInv, ClientInv, Route PROVE ClientInv'
<1> DEFINE to(n) == [node |-> n, rev |-> db.endpoints[n], user |-> UserOf(n, client.device.id)]
<1>1. client.pc = "route" /\ UNCHANGED <<made, db>>
  BY DEF Route, Query
<1>2. CASE client' = Refused
  BY <1>2, RefusedKeepsClient
<1>3. ASSUME NEW n \in Nodes, ~ client.phone => n = client.device.node,
             client' = [client EXCEPT !.pc = "endpoints", !.route = to(n)]
      PROVE  ClientInv'
  <2>1. /\ DOMAIN client' = DOMAIN client /\ client'.pc = "endpoints" /\ client'.route = to(n)
        /\ client'.device = client.device /\ client'.seen = client.seen /\ client'.quiet = client.quiet
        /\ client'.phone = client.phone /\ client'.purpose = client.purpose /\ client'.cert = client.cert
    BY <1>3 DEF ClientInv, IsClient, NewClient
  <2>2. /\ client'.route.node = n /\ client'.route.rev = db.endpoints[n]
        /\ client'.route.user = UserOf(n, client.device.id)
    BY <2>1
  <2>3. IsClient' /\ PresentWasSeen'
    BY <1>1, <2>1 DEF ClientInv, IsClient, NewClient, PresentWasSeen
  <2>4. RouteWasSeen'
    BY <1>1, <2>1, <2>2 DEF ClientInv, PresentWasSeen, RouteWasSeen
  <2>5. RouteIsRecent' /\ CertificateFits' /\ CatalogIsCurrent'
    BY <2>1 DEF RouteIsRecent, CertificateFits, CatalogIsCurrent
  <2>6. SshIsCurrent'
    <3> SUFFICES ASSUME ~ client.phone PROVE SshIsCurrent'
      BY <2>1 DEF SshIsCurrent
    <3>1. client.quiet => client.device.node = Wanted.node /\ client.device.id = Wanted.id
      BY <1>1 DEF ClientInv, SshIsCurrent
    <3>2. client.quiet => IsWanted(client'.route)
      BY <1>3, <2>2, <3>1 DEF IsWanted
    <3>3. client.quiet /\ client.purpose = "session" => IsWanted(client.cert)
      BY <1>1 DEF ClientInv, SshIsCurrent
    <3>4. (client.quiet => IsWanted(client.route)') /\ (client.quiet /\ client.purpose = "session" => IsWanted(client.cert)')
      BY <1>1, <2>1, <3>2, <3>3, QueriesStay DEF IsWanted
    <3> QED
      BY <1>1, <1>3, <2>1, <2>2, <3>1, <3>4, QueriesStay DEF SshIsCurrent
  <2> QED
    BY <2>3, <2>4, <2>5, <2>6 DEF ClientInv
<1>4. \/ client' = Refused
      \/ \E n \in Nodes : /\ ~ client.phone => n = client.device.node
                          /\ client' = [client EXCEPT !.pc = "endpoints", !.route = to(n)]
  BY DEF Route, resolve_service_route, resolve_node_service_route, Publishers
<1> QED
  BY <1>2, <1>3, <1>4

LEMMA IssueKeepsClient == ASSUME IInv, RowsInv, ClientInv, issue_ssh_certificate PROVE ClientInv'
<1>1. client.pc = "endpoints" /\ UNCHANGED <<made, db>>
  BY DEF issue_ssh_certificate, Query
<1>2. CASE client' = Refused
  BY <1>2, RefusedKeepsClient
<1>3. CASE client' = [client EXCEPT !.pc = "nodes", !.purpose = "session", !.cert = client.route]
  <2>1. /\ DOMAIN client' = DOMAIN client /\ client'.pc = "nodes" /\ client'.purpose = "session"
        /\ client'.cert = client.route /\ client'.quiet = client.quiet /\ client'.phone = client.phone
    BY <1>3 DEF ClientInv, IsClient, NewClient
  <2>2. IsClient'
    BY <2>1 DEF ClientInv, IsClient, NewClient
  <2>3. PresentWasSeen' /\ RouteWasSeen' /\ RouteIsRecent' /\ CertificateFits' /\ CatalogIsCurrent'
    BY <2>1 DEF PresentWasSeen, RouteWasSeen, RouteIsRecent, CertificateFits, CatalogIsCurrent
  <2>4. ~ client.phone /\ client.quiet => IsWanted(client.cert)'
    BY <1>1, <2>1, QueriesStay DEF ClientInv, SshIsCurrent, IsWanted
  <2>5. SshIsCurrent'
    BY <2>1, <2>4 DEF SshIsCurrent
  <2> QED
    BY <2>2, <2>3, <2>5 DEF ClientInv
<1> QED
  BY <1>2, <1>3 DEF issue_ssh_certificate

LEMMA OpenKeepsClient == ASSUME IInv, RowsInv, ClientInv, open_session PROVE ClientInv'
<1>1. client.pc = "endpoints" /\ client.purpose = "session" /\ UNCHANGED <<made, db>>
  BY DEF open_session, Query
<1>2. /\ DOMAIN client' = DOMAIN client /\ client'.pc = "open" /\ client'.udp = db.endpoints[client.route.node]
      /\ client'.route = client.route /\ client'.device = client.device /\ client'.cert = client.cert
      /\ client'.seen = client.seen /\ client'.quiet = client.quiet
      /\ client'.phone = client.phone /\ client'.purpose = client.purpose
  BY DEF open_session, UdpOf, ClientInv, IsClient, NewClient
<1>3. IsClient'
  BY <1>2 DEF ClientInv, IsClient, NewClient
<1>4. PresentWasSeen' /\ RouteWasSeen' /\ CatalogIsCurrent'
  BY <1>2 DEF PresentWasSeen, RouteWasSeen, CatalogIsCurrent
<1>5. RouteIsRecent'
  BY <1>1, <1>2 DEF ClientInv, PresentWasSeen, RouteWasSeen, RouteIsRecent
<1>6. SshIsCurrent' /\ (~ client'.phone => CertificateFits')
  BY <1>1, <1>2 DEF ClientInv, SshIsCurrent, IsWanted, CertificateFits
<1> QED
  BY <1>3, <1>4, <1>5, <1>6 DEF ClientInv

LEMMA NextKeepsClient == IInv /\ RowsInv /\ ClientInv /\ [Next]_vars => ClientInv'
<1> SUFFICES ASSUME IInv, RowsInv, ClientInv, [Next]_vars PROVE ClientInv'
  OBVIOUS
<1>1. CASE UNCHANGED <<client, db, made>>
  <2>1. ConfigsStay
    BY <1>1 DEF ConfigsStay, Config
  <2> QED
    BY <1>1, <2>1, ClientStays
<1>2. CASE UNCHANGED vars \/ ControlRestarts \/ TxServices
  BY <1>1, <1>2 DEF vars, ControlRestarts, TxServices, Rollback
<1>3. CASE TxCommit
  BY <1>3, TxCommitKeepsClient
<1>4. CASE ControlCrashes
  BY <1>1, <1>4, RefusedKeepsClient DEF ControlCrashes
<1>5. CASE Client
  BY <1>5, ListNodesKeepsClient, ServicesKeepClient, SshEntryKeepsClient, TakeKeepsClient,
     ChooseKeepsClient, RouteKeepsClient, IssueKeepsClient, OpenKeepsClient DEF Client
<1>6. CASE Retry
  BY <1>6, NewKeepsClient, RegistryAssumption DEF Retry
<1>7. ASSUME NEW n \in Nodes, Start(n) PROVE ClientInv'
  <2>1. ConfigsStay /\ UNCHANGED <<client, db>>
    BY <1>7, StartExtends DEF IInv, ConfigsStay, Start
  <2> QED
    BY <2>1, ClientStays
<1>8. ASSUME NEW n \in Nodes, Stop(n) \/ ConnectionBreaks(n) \/ Agent(n) \/ TxBegin(n) PROVE ClientInv'
  BY <1>1, <1>8 DEF Stop, ConnectionBreaks, Agent, register_node, ConnectionRefused, Respawn, TxBegin
<1> QED
  BY <1>2, <1>3, <1>4, <1>5, <1>6, <1>7, <1>8 DEF Next, Control

LEMMA AlwaysIInv == Spec => [](IInv /\ RowsInv /\ ClientInv)
<1>1. Init => ClientInv
  <2> SUFFICES ASSUME Init PROVE ClientInv
    OBVIOUS
  <2>1. PICK phone \in BOOLEAN : client = NewClient(phone)
    BY RegistryAssumption DEF Init
  <2>2. /\ DOMAIN client = DOMAIN NewClient(TRUE) /\ client.phone = phone /\ client.pc = "nodes"
        /\ client.purpose \in {"cert", "session"} /\ (~ phone => client.purpose = "cert")
    BY <2>1 DEF NewClient
  <2>3. IsClient
    BY <2>2 DEF IsClient
  <2>4. PresentWasSeen /\ RouteWasSeen /\ RouteIsRecent /\ CatalogIsCurrent /\ SshIsCurrent /\ CertificateFits
    BY <2>2 DEF PresentWasSeen, RouteWasSeen, RouteIsRecent, CatalogIsCurrent, SshIsCurrent, CertificateFits
  <2> QED
    BY <2>3, <2>4 DEF ClientInv
<1> QED
  BY <1>1, InitIInv, InitRows, NextKeepsIInv, NextKeepsRows, NextKeepsClient, PTL DEF Spec

\* The addresses in a grant are of one node and were registered at some moment since the
\* catalog was asked for, and are of one registration if none was committed in between
\* (open_session: resolve_service_route or resolve_node_service_route, then endpoints).
THEOREM GrantsAreRecent == Spec => []RouteIsRecent
<1>1. ClientInv => RouteIsRecent
  BY DEF ClientInv
<1> QED
  BY <1>1, AlwaysIInv, PTL

\* However registrations interleave with its queries, medium ssh is connected to the node
\* whose device it chose; and if none was committed meanwhile the certificate that it got
\* before is for that node and for the user that the second look at the catalog finds
\* (run_ssh_command, run_proxy_ssh).
THEOREM SshIsServed == Spec => []SshFits
<1>1. IInv /\ RowsInv /\ ClientInv => SshFits
  BY DEF ClientInv, SshIsCurrent, SshFits, SessionIsTheChosen
<1> QED
  BY <1>1, AlwaysIInv, PTL

\* The rows of a node come from one committed registration, whatever failed, crashed or
\* arrived late, and an agent that runs has its present configuration committed
\* (RegistryStore::register_node, run_with_shutdown).
THEOREM RowsAreWhole == Spec => []RegistrationsAreWhole
<1>1. IInv => RegistrationsAreWhole
  BY DEF IInv
<1> QED
  BY <1>1, InitIInv, NextKeepsIInv, PTL DEF Spec
=============================================================================
