-------------------------- MODULE MCFindingRegister --------------------------
(* Small instances of FindingRegister for TLC.                              *)
EXTENDS FindingRegister, TLC

Symmetry == Permutations(Session)
==============================================================================
