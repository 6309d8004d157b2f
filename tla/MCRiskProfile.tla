----------------------------- MODULE MCRiskProfile -----------------------------
(* Small instances of RiskProfile for TLC.                                  *)
EXTENDS RiskProfile, TLC

CONSTANTS minor, major

\* Two findings, one of them critical.
TwoSeverities == (minor :> 1) @@ (major :> 3)

Symmetry == Permutations(Viewer) \cup Permutations(Score)
==============================================================================
