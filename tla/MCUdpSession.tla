----------------------------- MODULE MCUdpSession -----------------------------
(***************************************************************************)
(* Instances of UdpSession for TLC.                                        *)
(***************************************************************************)
EXTENDS UdpSession

\* The command line client (the TLS layer offers the same record again) and
\* the node's bridge (a timed-out write ends its copy thread).
CliAndNode == [e \in Ends |-> IF e = "client" THEN "same" ELSE "abort"]

\* The Android client, whose pending bytes grow between two attempts.
AndroidAndNode == [e \in Ends |-> IF e = "client" THEN "grow" ELSE "abort"]

\* Two ends that both offer the same chunk again.
BothRetry == [e \in Ends |-> "same"]

OneByteEach == [e \in Ends |-> 1]
TwoAndOne == [e \in Ends |-> IF e = "client" THEN 2 ELSE 1]
=============================================================================
