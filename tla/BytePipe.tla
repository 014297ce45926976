------------------------------- MODULE BytePipe -------------------------------
(***************************************************************************)
(* What a session promises the applications at its ends: for each writing  *)
(* end a pipe for its bytes, numbered from 1.  The writer offers a chunk,  *)
(* the pipe delivers it to the other end, and only then write reports it   *)
(* accepted.  There is never more than one chunk under way, and a chunk    *)
(* does not change once it is offered.                                     *)
(***************************************************************************)
EXTENDS Naturals

CONSTANT Ends

VARIABLES
    offered,    \* bytes the writer has offered so far
    delivered,  \* bytes the other end has, in order
    accepted    \* bytes reported as written

vars == <<offered, delivered, accepted>>

Init ==
    /\ offered = [e \in Ends |-> 0]
    /\ delivered = [e \in Ends |-> 0]
    /\ accepted = [e \in Ends |-> 0]

Offer(e) ==
    /\ accepted[e] = offered[e]
    /\ offered'[e] > offered[e]
    /\ offered' = [offered EXCEPT ![e] = offered'[e]]
    /\ UNCHANGED <<delivered, accepted>>

Deliver(e) ==
    /\ delivered[e] < offered[e]
    /\ delivered' = [delivered EXCEPT ![e] = offered[e]]
    /\ UNCHANGED <<offered, accepted>>

Accept(e) ==
    /\ accepted[e] < delivered[e]
    /\ accepted' = [accepted EXCEPT ![e] = delivered[e]]
    /\ UNCHANGED <<offered, delivered>>

Next == \E e \in Ends : Offer(e) \/ Deliver(e) \/ Accept(e)

Spec == Init /\ [][Next]_vars
=============================================================================
