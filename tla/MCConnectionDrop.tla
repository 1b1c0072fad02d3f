-------------------------- MODULE MCConnectionDrop --------------------------
(* An instance of ConnectionDrop for TLC. *)
EXTENDS ConnectionDrop, TLC

CONSTANTS u1, i1, i2, d1, d2, k1, r1

MCWhitelists == {{}, {i1}, {i2}}

Symmetry == Permutations(Drops) \cup Permutations(Ips)
=============================================================================
