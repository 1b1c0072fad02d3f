-------------------------- MODULE MCCoreLifecycle --------------------------
(* Instances of CoreLifecycle for TLC. *)
EXTENDS CoreLifecycle, TLC

OutsideFaults == FaultKinds \ {"control", "prepare", "hang"}
IntegrationFaults == {"integrations"}
ConfigSymmetry == Permutations(XrayConfigs) \cup Permutations(SingBoxConfigs)
Symmetry == Permutations(Requests) \cup ConfigSymmetry
=============================================================================
