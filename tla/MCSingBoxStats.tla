--------------------------- MODULE MCSingBoxStats ---------------------------
(* Instances of SingBoxStats for TLC. *)
EXTENDS SingBoxStats, TLC

CONSTANTS r1, r2, k1, k2, k3

MCCategoryOf == (k1 :> "user") @@ (k2 :> "user") @@ (k3 :> "inbound")
MCCategories == {"user", "inbound"}
NoFaults == {}
AllFaults == FaultKinds
Symmetry == Permutations(Requests)
=============================================================================
