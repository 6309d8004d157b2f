-------------------------- MODULE MCAssessmentReview --------------------------
(* Small instances of AssessmentReview for TLC.                             *)
EXTENDS AssessmentReview, TLC

\* The configured cadence, in days instead of months.
MCCadence == [band \in Band \cup {None} |-> IF band = "HIGH" THEN 1 ELSE 2]

\* Bounds: at most one of the assessments is worked on or has an assessor, the
\* others stay as created, without a band, and count for the link; at most one of
\* the requests in progress has loaded engagements (the other one dates them with
\* its commit, or the vendor's edit schedules them); a vendor's edit is explored
\* where it is the integrity fix, which schedules in the same way.
Worked == {a \in DOMAIN asm : asm[a] # NewRow(asm[a].eng, asm[a].inherent, None)
                                \/ a \in signed}
Loaders == {t \in Session : req[t].op \in {"date", "schedule"}}
Narrow ==
    /\ Cardinality(Worked) <= 1
    /\ Worked # {} => \A a \in DOMAIN asm \ Worked : asm[a].inherent = None
    /\ Cardinality(Loaders) <= 1
    /\ \A e \in Engagement : eng[e].reason # "vendor"

Symmetry == Permutations(Session) \cup Permutations(Engagement)
==============================================================================
