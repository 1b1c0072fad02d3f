--------------------------- MODULE MCSingBoxUsers ---------------------------
(* Instances of SingBoxUsers for TLC. *)
EXTENDS SingBoxUsers, TLC

CONSTANTS r1, r2, a1, b1, b2

MCUserOf == (a1 :> "ann") @@ (b1 :> "bob") @@ (b2 :> "bob")
UnhandledAccounts == {b2}
UnknownAccounts == {a1}
AllFaults == FaultKinds
Symmetry == Permutations(Requests)
=============================================================================
