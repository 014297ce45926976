--------------------------- MODULE MCSwiftUdpSession ---------------------------
(***************************************************************************)
(* Instances of SwiftUdpSession for TLC: the Apple client and the node's   *)
(* bridge both give up a session when a write times out.                   *)
(***************************************************************************)
EXTENDS SwiftUdpSession

\* A request of two bytes and a response of one, the repeats of which the
\* client takes in without end: the bound on what it has been handed.
TwoAndOne == [e \in Ends |-> IF e = "client" THEN 2 ELSE 1]
BothAbort == [e \in Ends |-> "abort"]
MaxReceived == 2
ReceivedBound == Len(received["client"]) <= MaxReceived
=============================================================================
