---------------------------- MODULE MCVmCommands ----------------------------
(* Instances of VmCommands; workers are interchangeable.                     *)
EXTENDS VmCommands, TLC

Symmetry == Permutations(Workers)
=============================================================================
