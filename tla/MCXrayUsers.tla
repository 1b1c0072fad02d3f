---------------------------- MODULE MCXrayUsers ----------------------------
(* Instances of XrayUsers for TLC. *)
EXTENDS XrayUsers, TLC

CONSTANTS r1, r2, t1, t2, a1, a2, b1, p1

\* Ann has two uuids in turn, Bob one; Pat stays where she is.
MCUserOfOnce == (a1 :> "ann") @@ (b1 :> "bob") @@ (p1 :> "pat")
MCUserOfTwice == (a1 :> "ann") @@ (a2 :> "ann") @@ (p1 :> "pat")
MCMovable == {"ann", "bob"}
AnnMovable == {"ann"}
PatInFirst == [t \in Tags |-> IF t = t1 THEN {p1} ELSE {}]
AnnInFirst == [t \in Tags |-> IF t = t1 THEN {a1} ELSE {}]
Symmetry == Permutations(Requests)
=============================================================================
