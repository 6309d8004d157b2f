----------------------------- MODULE MCResearchJobs -----------------------------
(* Small instances of ResearchJobs for TLC.                                 *)
EXTENDS ResearchJobs, TLC

WorkerSymmetry == Permutations(Worker)
==============================================================================
