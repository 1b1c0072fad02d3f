---------------------------- MODULE SingleFlight ----------------------------
(***************************************************************************)
(* What the "Request already in progress" guards of the node promise: of   *)
(* all the requests being served at most one is inside the guarded section *)
(* (`isXrayStartedProccesing', `isStartProcessing'), a request that finds  *)
(* it occupied turns away (Safety), and, where nothing inside can wait     *)
(* forever, the one inside always leaves it again (Spec).                  *)
(***************************************************************************)
CONSTANT Requests

VARIABLE inside    \* the requests inside the guarded section

TypeOK == inside \subseteq Requests

Init == inside = {}

Enter(r) ==
    /\ inside = {}
    /\ inside' = {r}

Leave(r) ==
    /\ r \in inside
    /\ inside' = inside \ {r}

Next == \E r \in Requests : Enter(r) \/ Leave(r)

Fairness == \A r \in Requests : WF_inside(Leave(r))

Safety == Init /\ [][Next]_inside

Spec == Safety /\ Fairness
=============================================================================
