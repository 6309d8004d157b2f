------------------------------ MODULE RiskEngine ------------------------------
(***************************************************************************)
(* The risk engine of app/features/assessment/bro_engine.py as operators:  *)
(* tier, inherent band and route of a set of questionnaire answers, and    *)
(* the residual band and decision that control answers make of a band.     *)
(*                                                                         *)
(* A question that was not answered counts as its mildest answer, so the   *)
(* answers are a record with a value for each question.  Data types the    *)
(* engine treats alike (health, payment card, special category) are one.   *)
(* Its weighted sum of quarters is exact in doubles; here it is in         *)
(* quarters of a per cent.  Blanks in the names of values are hyphens.     *)
(***************************************************************************)
EXTENDS Integers, Sequences, FiniteSets, FiniteSetsExt, SequencesExt

CONSTANTS
    Control,  \* questions of the control questionnaire
    Critical, \* those marked critical
    None      \* nothing there: no answers, no evidence, a column without a value

ASSUME RiskConstants == IsFiniteSet(Control) /\ Critical \subseteq Control

------------------------------------------------------------------------------
(* Questions.                                                              *)

Bands == <<"LOW", "MODERATE", "ELEVATED", "HIGH">>
Routes == <<"AUTO-APPROVE", "FAST-TRACK", "FULL-DILIGENCE">>
Decisions == <<"APPROVE", "APPROVE-WITH-CONDITIONS", "ESCALATE", "DO-NOT-PROCEED">>
Band == Range(Bands)

\* How severe a value is, in the order of one of the lists above.
Rank(value, order) == CHOOSE i \in DOMAIN order : order[i] = value

Service == <<"Standard", "Important", "Mission-critical">>
Supply == <<"Easy", "Difficult", "Sole-source">>
DataType == {"Personal", "Customer", "Confidential", "Restricted", "Special"}
YesNo == {"sanctions", "bulk", "crossBorder", "connected", "onSite", "brand",
          "regulated", "regimes", "ai"}

\* Yes answers, Q2, Q8 and Q3 ("bulk": more than 100,000 records, of Q4).
Irq == [yes: SUBSET YesNo, service: Range(Service), supply: Range(Supply),
        data: SUBSET DataType]

Points(condition, n) == IF condition THEN n ELSE 0
Holds(irq, types) == irq.data \cap types # {}

------------------------------------------------------------------------------
(* The inherent risk.                                                      *)

Tier(irq) ==
    IF \/ Holds(irq, {"Restricted", "Special"})
       \/ irq.service = "Mission-critical" \/ irq.supply = "Sole-source"
    THEN 1
    ELSE IF irq.service = "Important" \/ Holds(irq, {"Personal", "Customer"}) THEN 2 ELSE 3

\* Domain scores, 0 to 4, as points before the cap.
Exposure(irq) ==
    LET yes(q) == q \in irq.yes
        class == Rank(irq.service, Service) - 1
    IN [infosec    |-> (IF Holds(irq, {"Restricted", "Confidential", "Special"}) THEN 2
                        ELSE Points("Personal" \in irq.data, 1))
                       + Points(yes("connected"), 1) + Points(yes("onSite"), 1),
        privacy    |-> (IF "Special" \in irq.data THEN 2
                        ELSE Points(Holds(irq, {"Personal", "Customer"}), 1))
                       + Points(yes("crossBorder"), 1) + Points(yes("bulk"), 1),
        resilience |-> class + Rank(irq.supply, Supply) - 1 + Points(yes("regulated"), 1),
        compliance |-> Points(yes("sanctions"), 3) + Points(yes("regimes"), 1)
                       + Points(yes("ai"), 1),
        physical   |-> Points(yes("onSite"), 2) + Points(yes("connected"), 1),
        org        |-> Points(yes("sanctions"), 3),
        reputation |-> Points(yes("brand"), 2) + Points(yes("sanctions"), 2),
        esg        |-> Points(yes("bulk"), 1) + Points(class = 2, 1)]

Weight == [infosec |-> 30, privacy |-> 20, resilience |-> 15, compliance |-> 10,
           physical |-> 10, org |-> 5, reputation |-> 5, esg |-> 5]

\* Four times the weighted percentage.
Weighted(irq) ==
    LET exposure == Exposure(irq)
        share(d) == Min({4, exposure[d]}) * Weight[d]
    IN  share("infosec") + share("privacy") + share("resilience") + share("compliance")
        + share("physical") + share("org") + share("reputation") + share("esg")

\* The band of the percentage alone.
Scale(weighted) ==
    IF weighted >= 280 THEN "HIGH"
    ELSE IF weighted >= 200 THEN "ELEVATED"
    ELSE IF weighted >= 120 THEN "MODERATE" ELSE "LOW"

\* Mission-critical work on such data across borders is ELEVATED at least.
(* (UnguardedFloor sets that band whatever it was.) *)
Floors(irq) ==
    /\ irq.service = "Mission-critical" /\ "crossBorder" \in irq.yes
    /\ Holds(irq, DataType \ {"Customer"})
UnguardedFloor(irq, band) == IF Floors(irq) THEN "ELEVATED" ELSE band
Floored(irq, band) ==
    IF Floors(irq) /\ band \notin {"HIGH", "ELEVATED"} THEN "ELEVATED" ELSE band

Inherent(irq) ==
    IF "sanctions" \in irq.yes THEN "HIGH" ELSE Floored(irq, Scale(Weighted(irq)))

\* What keeps answers from being cleared without anybody looking at them.
Blocked(irq) ==
    \/ "sanctions" \in irq.yes \/ Holds(irq, {"Special", "Restricted"})
    \/ Inherent(irq) = "HIGH" \/ Tier(irq) = 1

Route(irq) ==
    IF Blocked(irq) THEN "FULL-DILIGENCE"
    ELSE IF /\ Inherent(irq) = "LOW" /\ Tier(irq) = 3
            /\ irq.yes \cap {"crossBorder", "ai"} = {}
    THEN "AUTO-APPROVE"
    ELSE "FAST-TRACK"

------------------------------------------------------------------------------
(* The residual risk.                                                      *)

Answer == {"COMPLIANT", "PARTIAL", "MARGINAL"}
Ddq == [Control -> Answer]

Given(ddq, answer) == {c \in Control : ddq[c] = answer}

\* Each of these raises the band by one, to HIGH at most (ExactNotches: the first
\* one for exactly one partial answer).
ExactNotches(ddq) ==
    LET partial == Cardinality(Given(ddq, "PARTIAL")) IN
    Points(partial = 1, 1) + Points(partial >= 4, 1) + Points(Given(ddq, "MARGINAL") # {}, 1)
Notches(ddq) ==
    LET partial == Cardinality(Given(ddq, "PARTIAL")) IN
    Points(partial >= 1, 1) + Points(partial >= 4, 1) + Points(Given(ddq, "MARGINAL") # {}, 1)

CriticalMarginal(ddq) == Given(ddq, "MARGINAL") \cap Critical # {}

Residual(band, ddq) ==
    IF CriticalMarginal(ddq) THEN "HIGH"
    ELSE Bands[Min({4, Rank(band, Bands) + Notches(ddq)})]

DecisionFor(residual) == Decisions[Rank(residual, Bands)]
==============================================================================
