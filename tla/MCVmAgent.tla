----------------------------- MODULE MCVmAgent -----------------------------
(* Instances of VmAgent with two connections.                              *)
EXTENDS VmAgent, TLC

CONSTANTS c1, c2

Symmetry == Permutations(Connections)
=============================================================================
