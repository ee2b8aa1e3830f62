---------------------------- MODULE MCVmManager ----------------------------
(* Instances of VmManager; workers and VM names are interchangeable.         *)
EXTENDS VmManager, TLC

Symmetry == Permutations(Workers) \cup Permutations(VmIds)
=============================================================================
