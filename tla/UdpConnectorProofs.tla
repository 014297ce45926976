--------------------------- MODULE UdpConnectorProofs ---------------------------
(***************************************************************************)
(* For every finite set of candidates: the caller of                       *)
(* connectFirstSuccessful gets the right result and no other stream stays  *)
(* open.                                                                   *)
(***************************************************************************)
EXTENDS UdpConnector, FiniteSetTheorems, TLAPS

\* A step that neither ends a task nor changes what is counted keeps the count.
LEMMA FinishedIsFinite == IsFiniteSet(Finished) /\ Cardinality(Finished) \in Nat
BY ConnectorAssumption, FS_Subset, FS_CardinalityType DEF Finished

LEMMA InitIInv == Init => IInv
<1> SUFFICES ASSUME Init PROVE IInv
  OBVIOUS
<1>1. Finished = {} /\ Cardinality({}) = 0
  BY FS_EmptySet DEF Init, Finished
<1> QED
  BY <1>1 DEF Init, IInv, Places, LosersAreClosed, SignalledOnce

LEMMA ConnectKeepsIInv == ASSUME IInv, NEW c \in Candidates, Connect(c) PROVE IInv'
<1>1. Finished' = Finished
  BY DEF Connect, Goto, Finished, IInv
<1>2. winner = None \/ c # winner
  BY DEF IInv, Connect
<1> QED
  BY <1>1, <1>2 DEF Connect, Goto, IInv, Places, LosersAreClosed, Returned, SignalledOnce

LEMMA DecideKeepsIInv == ASSUME IInv, NEW c \in Candidates, Decide(c) PROVE IInv'
<1>1. Finished' = Finished /\ c \notin Finished
  BY DEF Decide, Goto, Finished, IInv
<1>2. done > 0 \/ caller # <<>> => winner # None
  BY <1>1 DEF IInv
<1>3. CASE winner = None
  BY <1>1, <1>2, <1>3, ConnectorAssumption DEF Decide, Goto, IInv, Places, LosersAreClosed, Returned, SignalledOnce
<1>4. CASE winner # None
  BY <1>1, <1>2, <1>4 DEF Decide, Goto, IInv, Places, LosersAreClosed, Returned, SignalledOnce
<1> QED
  BY <1>3, <1>4

LEMMA CloseKeepsIInv == ASSUME IInv, NEW c \in Candidates, CloseLoser(c) PROVE IInv'
<1>1. Finished' = Finished
  BY DEF CloseLoser, Goto, Finished, IInv
<1>2. c # winner
  BY ConnectorAssumption DEF CloseLoser, IInv
<1> QED
  BY <1>1, <1>2 DEF CloseLoser, Goto, IInv, Places, LosersAreClosed, Returned, SignalledOnce

LEMMA SignalKeepsIInv == ASSUME IInv, NEW c \in Candidates, Signal(c) PROVE IInv'
<1>1. Finished' = Finished
  BY DEF Signal, Goto, Finished, IInv
<1>2. winner # None \/ Finished = Candidates
  BY ConnectorAssumption DEF Signal, IInv
<1>3. done = 0 /\ caller = <<>> /\ \A d \in Candidates \ {c} : task[d] \notin {"signal", "signalFailure"}
  BY DEF Signal, IInv, SignalledOnce
<1> QED
  BY <1>1, <1>2, <1>3 DEF Signal, Goto, IInv, Places, LosersAreClosed, Returned, SignalledOnce

\* The one step that changes the count: with it the last task sees that all are done.
LEMMA DeferKeepsIInv == ASSUME IInv, NEW c \in Candidates, Defer(c) PROVE IInv'
<1>1. Finished' = Finished \cup {c} /\ c \notin Finished
  BY DEF Defer, Goto, Finished, IInv, Places
<1>2. completed' = Cardinality(Finished') /\ completed \in Nat
  BY <1>1, FinishedIsFinite, FS_AddElement DEF Defer, IInv
<1>3. completed + 1 = Cardinality(Candidates) => Finished' = Candidates
  <2>1. Finished' \in SUBSET Candidates
    BY <1>1 DEF Finished
  <2> QED
    BY <2>1, <1>2, FS_Subset, ConnectorAssumption DEF Defer
<1>4. \A d \in Candidates : task[d] # "signalFailure"
  BY <1>1 DEF IInv
<1>5. done > 0 \/ caller # <<>> => winner # None
  BY <1>1 DEF IInv
<1>6. SignalledOnce'
  <2>1. winner = None => \A d \in Candidates : task[d] \notin {"signal", "signalFailure"}
    BY <1>4, ConnectorAssumption DEF IInv
  <2>2. CASE ShouldSignalFailure(completed + 1)
    BY <1>5, <2>1, <2>2 DEF Defer, Goto, ShouldSignalFailure, IInv, SignalledOnce
  <2>3. CASE ~ ShouldSignalFailure(completed + 1)
    BY <2>3 DEF Defer, Goto, IInv, SignalledOnce
  <2> QED
    BY <2>2, <2>3
<1> QED
  BY <1>1, <1>2, <1>3, <1>4, <1>5, <1>6 DEF Defer, Goto, ShouldSignalFailure, IInv, Places, LosersAreClosed, Returned

LEMMA ReturnKeepsIInv == ASSUME IInv, Return PROVE IInv'
<1>1. Finished' = Finished
  BY DEF Return, Finished
<1> QED
  BY <1>1 DEF Return, IInv, LosersAreClosed, Returned, SignalledOnce

LEMMA NextKeepsIInv == IInv /\ [Next]_vars => IInv'
<1>1. ASSUME IInv, UNCHANGED vars PROVE IInv'
  BY <1>1 DEF vars, IInv, Finished, LosersAreClosed, Returned, SignalledOnce
<1> QED
  BY <1>1, ConnectKeepsIInv, DecideKeepsIInv, CloseKeepsIInv, SignalKeepsIInv,
     DeferKeepsIInv, ReturnKeepsIInv DEF Next, Step

\* With no winner and every task past its block there is no stream left to be open.
LEMMA IInvResult == IInv => ResultIsRight /\ LosersAreClosed
<1> SUFFICES ASSUME IInv PROVE ResultIsRight
  BY DEF IInv
<1>1. CASE winner = None /\ caller # <<>>
  <2>1. Finished = Candidates
    BY <1>1 DEF IInv
  <2>2. \A c \in Candidates : task[c] \in {"over", "signalFailure"}
    BY <2>1 DEF Finished
  <2>3. open = {}
    BY <1>1, <2>2, ConnectorAssumption DEF IInv, LosersAreClosed
  <2> QED
    BY <1>1, <2>2, <2>3 DEF IInv, ResultIsRight
<1>2. CASE winner # None /\ caller # <<>>
  <2>1. Returned(winner) # Returned(None)
    BY <1>2 DEF Returned
  <2> QED
    BY <1>2, <2>1 DEF IInv, ResultIsRight
<1> QED
  BY <1>1, <1>2 DEF ResultIsRight

LEMMA IInvTypeOK == IInv => TypeOK
<1> SUFFICES ASSUME IInv PROVE completed \in 0 .. Cardinality(Candidates) /\ done \in 0 .. 1
  BY DEF IInv, SignalledOnce, TypeOK
<1>1. Finished \in SUBSET Candidates
  BY DEF Finished
<1> QED
  BY <1>1, ConnectorAssumption, FinishedIsFinite, FS_Subset, FS_CardinalityType DEF IInv, SignalledOnce

\* However many candidates race, and in whatever order their tasks run: the caller is
\* told of a failure only when all have failed, otherwise it gets an open stream, and
\* the streams that lost are closed.
THEOREM RaceIsRight == Spec => []OneStreamReturned
<1> QED
  BY InitIInv, NextKeepsIInv, IInvResult, PTL DEF Spec, OneStreamReturned

\* The semaphore is signalled once for all candidates together: by the winner, or by the
\* last to fail.  A caller that was woken leaves no second signal behind, and the count of
\* completed tasks never passes the number of candidates (done, shouldSignalFailure).
THEOREM CallerIsWokenOnce == Spec => []TypeOK
BY InitIInv, NextKeepsIInv, IInvTypeOK, PTL DEF Spec
=============================================================================
