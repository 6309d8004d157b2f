------------------------------- MODULE ProAssess -------------------------------
(***************************************************************************)
(* The autonomous assessment of app/features/domain/master_service.py: the *)
(* risk engine run over the answers at hand, the domains in scope at the   *)
(* band it finds, the gaps in the evidence, and the recommendation.        *)
(***************************************************************************)
EXTENDS RiskEngine

ASSUME NothingSupplied == None \notin Irq \cup Ddq

\* Evidence that other engines extract from documents.
Extract == {"financial", "reputation"}

Scope(band) ==
    LET low == {"infosec", "compliance"}
        moderate == low \cup {"privacy", "resilience"}
        elevated == moderate \cup Extract
    IN CASE band = "LOW"      -> low
         [] band = "MODERATE" -> moderate
         [] band = "ELEVATED" -> elevated
         [] band = "HIGH"     -> elevated \cup {"esg", "physical", "org", "fourth_party"}

\* Domains in scope with a score of three or four.
Exposed(irq) ==
    {d \in Scope(Inherent(irq)) \cap DOMAIN Weight : Exposure(irq)[d] >= 3}

Gaps(band, ddq, extracted) ==
    ((Scope(band) \cap Extract) \ extracted) \cup {c \in {"controls"} : ddq = None}

\* Without answers every question counts as its mildest.
Mildest == [yes |-> {}, service |-> "Standard", supply |-> "Easy", data |-> {}]
Found(irq) == Inherent(IF irq = None THEN Mildest ELSE irq)

Recommendations == <<"Approve", "Approve-with-conditions", "Do-not-approve">>

Recommendation(residual, gaps) ==
    IF residual = "HIGH" THEN "Do-not-approve"
    ELSE IF gaps # {} THEN "Approve-with-conditions" ELSE "Approve"

\* Without control evidence the residual band is the inherent one.
ResidualOf(band, ddq) == IF ddq = None THEN band ELSE Residual(band, ddq)

Assessment(band, ddq, extracted) ==
    [inherent |-> band, controls |-> ddq, extracted |-> extracted,
     residual |-> ResidualOf(band, ddq),
     recommendation |-> Recommendation(ResidualOf(band, ddq), Gaps(band, ddq, extracted))]
==============================================================================
