------------------------------ MODULE UdpConnector ------------------------------
(***************************************************************************)
(* ForegroundUdpConnector.connectFirstSuccessful of the Apple app: every   *)
(* ICE candidate is tried by a task of its own; the caller sleeps on a     *)
(* semaphore until one has connected or all have failed.  A step is what a *)
(* task does between two operations that others can see.                   *)
(***************************************************************************)
EXTENDS Naturals, FiniteSets

CONSTANTS Candidates, None

ASSUME ConnectorAssumption == IsFiniteSet(Candidates) /\ Candidates # {} /\ None \notin Candidates

VARIABLES
    task,       \* where the task of each candidate is
    open,       \* candidates whose stream is open
    winner, completed,
    done,       \* the semaphore
    caller      \* <<>> while it waits, then <<what it returned>>

vars == <<task, open, winner, completed, done, caller>>
Returned(c) == <<c>>

Init ==
    /\ task = [c \in Candidates |-> "connect"]
    /\ open = {} /\ winner = None /\ completed = 0 /\ done = 0
    /\ caller = <<>>

Goto(c, pc) == task' = [task EXCEPT ![c] = pc]

\* connect(selection) returns a stream or throws; a failure is only noted.
Connect(c) ==
    /\ task[c] = "connect"
    /\ \/ Goto(c, "decide") /\ open' = open \cup {c}
       \/ Goto(c, "defer") /\ UNCHANGED open
    /\ UNCHANGED <<winner, completed, done, caller>>

Decide(c) ==
    /\ task[c] = "decide"
    /\ IF winner = None THEN winner' = c /\ Goto(c, "signal")
       ELSE UNCHANGED winner /\ Goto(c, "close")
    /\ UNCHANGED <<open, completed, done, caller>>

CloseLoser(c) ==
    /\ task[c] = "close"
    /\ open' = open \ {c} /\ Goto(c, "defer")
    /\ UNCHANGED <<winner, completed, done, caller>>

\* done.signal()
Signal(c) ==
    /\ task[c] \in {"signal", "signalFailure"}
    /\ done' = done + 1
    /\ Goto(c, IF task[c] = "signal" THEN "defer" ELSE "over")
    /\ UNCHANGED <<open, winner, completed, caller>>

\* Seeded bug: every failure wakes the caller.
FirstFailure(n) == winner = None
\* Seeded bug: the last task signals although there is a winner.
LastOne(n) == n = Cardinality(Candidates)
\* Seeded bug: off by one.
OneMore(n) == n = Cardinality(Candidates) + 1 /\ winner = None

ShouldSignalFailure(n) == n = Cardinality(Candidates) /\ winner = None

\* The deferred block.
Defer(c) ==
    /\ task[c] = "defer"
    /\ completed' = completed + 1
    /\ Goto(c, IF ShouldSignalFailure(completed + 1) THEN "signalFailure" ELSE "over")
    /\ UNCHANGED <<open, winner, done, caller>>

\* done.wait(), then the winner is read.
Return ==
    /\ caller = <<>> /\ done > 0
    /\ done' = done - 1 /\ caller' = Returned(winner)
    /\ UNCHANGED <<task, open, winner, completed>>

Step(c) == Connect(c) \/ Decide(c) \/ CloseLoser(c) \/ Signal(c) \/ Defer(c)
Next == Return \/ \E c \in Candidates : Step(c)

\* Dispatched tasks run, and every attempt to connect has a timeout.
Spec == Init /\ [][Next]_vars /\ WF_vars(Return) /\ \A c \in Candidates : WF_vars(Step(c))

-----------------------------------------------------------------------------
\* The caller is woken once: a second signal would be left in the semaphore.
TypeOK ==
    /\ open \subseteq Candidates /\ winner \in Candidates \cup {None}
    /\ completed \in 0 .. Cardinality(Candidates)
    /\ done \in 0 .. 1 /\ (caller # <<>> => done = 0)

\* The caller gets an error only when every candidate has failed, and otherwise a
\* stream that is open and stays its own (connectFirstSuccessful, lines 216-226).
ResultIsRight ==
    caller # <<>> =>
        IF caller = Returned(None) THEN open = {} /\ \A c \in Candidates : task[c] \in {"over", "signalFailure"}
        ELSE caller = Returned(winner) /\ winner \in open

\* A stream that lost the race is closed by its own task, however late it came.
LosersAreClosed == \A c \in open : c = winner \/ task[c] \in {"decide", "close"}

\* One open stream is handed to the caller, or an error when there is none
\* (connectFirstSuccessful).
OneStreamReturned == ResultIsRight /\ LosersAreClosed

\* The caller returns and every task ends.
Settles == <>(caller # <<>> /\ \A c \in Candidates : task[c] = "over")

-----------------------------------------------------------------------------
\* The inductive invariant behind ResultIsRight and LosersAreClosed: completed counts
\* the tasks that are past their deferred block, so that a failure is signalled only
\* when no task is left that could win; the winner is set once, and its stream is the
\* only one that outlives its task.
Places == {"connect", "decide", "signal", "close", "defer", "signalFailure", "over"}
Finished == {c \in Candidates : task[c] \in {"signalFailure", "over"}}

\* One task at most is left to signal, and none once the semaphore has been signalled.
SignalledOnce ==
    /\ done <= 1 /\ (caller # <<>> => done = 0)
    /\ \A c \in Candidates : task[c] \in {"signal", "signalFailure"} =>
           /\ done = 0 /\ caller = <<>>
           /\ \A d \in Candidates : task[d] \in {"signal", "signalFailure"} => d = c

IInv ==
    /\ task \in [Candidates -> Places]
    /\ open \subseteq Candidates /\ winner \in Candidates \cup {None}
    /\ completed = Cardinality(Finished) /\ done \in Nat
    /\ \A c \in Candidates :
           /\ task[c] \in {"decide", "close"} => c \in open
           /\ task[c] = "signal" => c = winner
           /\ task[c] = "close" => winner # None
           /\ task[c] = "signalFailure" => winner = None /\ Finished = Candidates
    /\ LosersAreClosed
    /\ winner # None => winner \in open /\ task[winner] \in {"signal", "defer", "over"}
    /\ done > 0 \/ caller # <<>> => winner # None \/ Finished = Candidates
    /\ caller = <<>> \/ caller = Returned(winner)
    /\ SignalledOnce
=============================================================================
