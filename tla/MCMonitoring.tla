---------------------------- MODULE MCMonitoring ----------------------------
(* An instance of Monitoring for TLC. *)
EXTENDS Monitoring

CONSTANTS r1, r2, in1, out1, eth0

\* The rates share no state with the requests: each half runs with the other at
\* rest, in place of the product of the two.
OneHalf ==
    \/ clock = 0 /\ readAt = 0 /\ passed = 0 /\ rates = Nothing /\ since = Zero(Interfaces)
       /\ bytes = Zero(Interfaces) /\ previous = bytes
    \/ carried = Zero(Counters) /\ lost = {} /\ \A r \in Requests : req[r] = Idle
=============================================================================
