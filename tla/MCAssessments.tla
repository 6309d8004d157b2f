----------------------------- MODULE MCAssessments -----------------------------
(* Small instances of Assessments for TLC.                                  *)
EXTENDS Assessments, TLC

\* Answers of bands LOW, ELEVATED (by the floor of mission-critical work) and HIGH.
SampleIrqs ==
    {Mildest, [Mildest EXCEPT !.service = "Mission-critical", !.yes = {"crossBorder"},
                              !.data = {"Personal"}],
     [Mildest EXCEPT !.yes = {"sanctions"}]}

\* Every combination of answers with at most one type of data and no regimes (they
\* count like "ai" and nowhere else).
AllIrqs == {irq \in Irq : "regimes" \notin irq.yes /\ Cardinality(irq.data) <= 1}

\* Control answers that raise the band by zero to three.
SampleDdqs ==
    {ddq \in Ddq : \A c, d \in Control \ Critical : ddq[c] = ddq[d]}

\* What agents merge: nothing that is modelled, a band, a band that is none, or
\* another list of findings.
SampleFacts ==
    {<<>>, [inherent |-> "LOW"], [inherent |-> "ELEVATED", residual |-> None],
     [residual |-> "LOW"], [findings |-> <<>>]}

Symmetry == Permutations(Request) \cup Permutations(Call)
==============================================================================
