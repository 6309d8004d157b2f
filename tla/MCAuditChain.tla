----------------------------- MODULE MCAuditChain -----------------------------
(* Small instances of AuditChain for TLC.                                   *)
EXTENDS AuditChain, TLC

SessionSymmetry == Permutations(Session)
==============================================================================
