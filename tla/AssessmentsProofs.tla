--------------------------- MODULE AssessmentsProofs ---------------------------
(***************************************************************************)
(* For every set of answers, any number of controls, of requests and calls *)
(* in flight, any window of findings and any bounds.                       *)
(*                                                                         *)
(* The engine: one set of answers is no milder than another when every     *)
(* answer is not; exposures, weights and the number of deficient controls  *)
(* grow with it, and so do the band, the tier, the route and the notches.  *)
(*                                                                         *)
(* An engagement: no request takes a residual band or a decision away, so  *)
(* columns written by different requests fit together.  A conversation:    *)
(* while nothing was lost, the worst finding is in the dossier, and a call *)
(* that overwrites nothing has read what the session holds.                *)
(***************************************************************************)
EXTENDS Assessments, FiniteSetTheorems, SequenceTheorems, TLAPS

(* Where bands, routes, decisions and answers stand in their orders.       *)

LEMMA BandRanks ==
    /\ Band = {"LOW", "MODERATE", "ELEVATED", "HIGH"}
    /\ Rank("LOW", Bands) = 1 /\ Rank("MODERATE", Bands) = 2
    /\ Rank("ELEVATED", Bands) = 3 /\ Rank("HIGH", Bands) = 4
<1>1. DOMAIN Bands = 1..4
  BY DEF Bands
<1>2. /\ Bands[1] = "LOW" /\ Bands[2] = "MODERATE" /\ Bands[3] = "ELEVATED" /\ Bands[4] = "HIGH"
  BY DEF Bands
<1>3. Band = {"LOW", "MODERATE", "ELEVATED", "HIGH"}
  BY <1>1, <1>2 DEF Band, Range
<1> QED
  BY <1>1, <1>2, <1>3 DEF Rank

LEMMA RouteRanks ==
    /\ Range(Routes) = {"AUTO-APPROVE", "FAST-TRACK", "FULL-DILIGENCE"}
    /\ Rank("AUTO-APPROVE", Routes) = 1 /\ Rank("FAST-TRACK", Routes) = 2
    /\ Rank("FULL-DILIGENCE", Routes) = 3
<1>1. DOMAIN Routes = 1..3
  BY DEF Routes
<1>2. Routes[1] = "AUTO-APPROVE" /\ Routes[2] = "FAST-TRACK" /\ Routes[3] = "FULL-DILIGENCE"
  BY DEF Routes
<1>3. Range(Routes) = {"AUTO-APPROVE", "FAST-TRACK", "FULL-DILIGENCE"}
  BY <1>1, <1>2 DEF Range
<1> QED
  BY <1>1, <1>2, <1>3 DEF Rank

LEMMA DecisionRanks ==
    /\ Range(Decisions) = {"APPROVE", "APPROVE-WITH-CONDITIONS", "ESCALATE", "DO-NOT-PROCEED"}
    /\ \A band \in Band : /\ DecisionFor(band) \in Range(Decisions)
                          /\ Rank(DecisionFor(band), Decisions) = Rank(band, Bands)
<1>1. DOMAIN Decisions = 1..4
  BY DEF Decisions
<1>2. /\ Decisions[1] = "APPROVE" /\ Decisions[2] = "APPROVE-WITH-CONDITIONS"
      /\ Decisions[3] = "ESCALATE" /\ Decisions[4] = "DO-NOT-PROCEED"
  BY DEF Decisions
<1>3. Range(Decisions) = {"APPROVE", "APPROVE-WITH-CONDITIONS", "ESCALATE", "DO-NOT-PROCEED"}
  BY <1>1, <1>2 DEF Range
<1>4. /\ Rank("APPROVE", Decisions) = 1 /\ Rank("APPROVE-WITH-CONDITIONS", Decisions) = 2
      /\ Rank("ESCALATE", Decisions) = 3 /\ Rank("DO-NOT-PROCEED", Decisions) = 4
  BY <1>1, <1>2, <1>3 DEF Rank
<1> QED
  BY <1>2, <1>3, <1>4, BandRanks DEF DecisionFor

LEMMA RecommendationRanks ==
    /\ Range(Recommendations) = {"Approve", "Approve-with-conditions", "Do-not-approve"}
    /\ Rank("Approve", Recommendations) = 1
    /\ Rank("Approve-with-conditions", Recommendations) = 2
    /\ Rank("Do-not-approve", Recommendations) = 3
<1>1. DOMAIN Recommendations = 1..3
  BY DEF Recommendations
<1>2. /\ Recommendations[1] = "Approve" /\ Recommendations[2] = "Approve-with-conditions"
      /\ Recommendations[3] = "Do-not-approve"
  BY DEF Recommendations
<1>3. Range(Recommendations) = {"Approve", "Approve-with-conditions", "Do-not-approve"}
  BY <1>1, <1>2 DEF Range
<1> QED
  BY <1>1, <1>2, <1>3 DEF Rank

LEMMA BandOfRank ==
    \A n \in 1..4 : Bands[n] \in Band /\ Rank(Bands[n], Bands) = n
  BY BandRanks DEF Bands

LEMMA Capped == \A n \in Nat : Min({4, n}) = IF n < 4 THEN n ELSE 4
  BY DEF Min

LEMMA ServiceRanks ==
    /\ Range(Service) = {"Standard", "Important", "Mission-critical"}
    /\ Rank("Standard", Service) = 1 /\ Rank("Important", Service) = 2
    /\ Rank("Mission-critical", Service) = 3
<1>1. DOMAIN Service = 1..3
  BY DEF Service
<1>2. Service[1] = "Standard" /\ Service[2] = "Important" /\ Service[3] = "Mission-critical"
  BY DEF Service
<1>3. Range(Service) = {"Standard", "Important", "Mission-critical"}
  BY <1>1, <1>2 DEF Range
<1> QED
  BY <1>1, <1>2, <1>3 DEF Rank

LEMMA SupplyRanks ==
    /\ Range(Supply) = {"Easy", "Difficult", "Sole-source"}
    /\ Rank("Easy", Supply) = 1 /\ Rank("Difficult", Supply) = 2
    /\ Rank("Sole-source", Supply) = 3
<1>1. DOMAIN Supply = 1..3
  BY DEF Supply
<1>2. Supply[1] = "Easy" /\ Supply[2] = "Difficult" /\ Supply[3] = "Sole-source"
  BY DEF Supply
<1>3. Range(Supply) = {"Easy", "Difficult", "Sole-source"}
  BY <1>1, <1>2 DEF Range
<1> QED
  BY <1>1, <1>2, <1>3 DEF Rank

------------------------------------------------------------------------------
(* One set of answers is no milder than another, question by question.     *)

NoMilder(worse, irq) ==
    /\ irq.yes \subseteq worse.yes /\ irq.data \subseteq worse.data
    /\ Rank(irq.service, Service) <= Rank(worse.service, Service)
    /\ Rank(irq.supply, Supply) <= Rank(worse.supply, Supply)

LEMMA WorseIsNoMilder ==
    ASSUME NEW irq \in Irq, NEW worse \in Worse(irq)
    PROVE  worse \in Irq /\ NoMilder(worse, irq)
<1>1. /\ irq.yes \in SUBSET YesNo /\ irq.data \in SUBSET DataType
      /\ irq.service \in Range(Service) /\ irq.supply \in Range(Supply)
      /\ irq = [yes |-> irq.yes, service |-> irq.service, supply |-> irq.supply,
                data |-> irq.data]
  BY DEF Irq
<1>2. Rank(irq.service, Service) \in 1..3 /\ Rank(irq.supply, Supply) \in 1..3
  BY <1>1, ServiceRanks, SupplyRanks
<1>3. CASE worse \in {Yes(irq, q) : q \in YesNo}
  BY <1>1, <1>2, <1>3 DEF Yes, Irq, NoMilder
<1>4. CASE worse \in {[irq EXCEPT !.data = @ \cup {d}] : d \in DataType}
  BY <1>1, <1>2, <1>4 DEF Irq, NoMilder
<1>5. ASSUME NEW s \in Range(Service), Rank(s, Service) > Rank(irq.service, Service),
             worse = [irq EXCEPT !.service = s]
      PROVE  worse \in Irq /\ NoMilder(worse, irq)
  <2>1. Rank(s, Service) \in 1..3
    BY ServiceRanks
  <2> QED
    BY <1>1, <1>2, <1>5, <2>1 DEF Irq, NoMilder
<1>6. ASSUME NEW s \in Range(Supply), Rank(s, Supply) > Rank(irq.supply, Supply),
             worse = [irq EXCEPT !.supply = s]
      PROVE  worse \in Irq /\ NoMilder(worse, irq)
  <2>1. Rank(s, Supply) \in 1..3
    BY SupplyRanks
  <2> QED
    BY <1>1, <1>2, <1>6, <2>1 DEF Irq, NoMilder
<1> QED
  BY <1>3, <1>4, <1>5, <1>6 DEF Worse

LEMMA TierNeverEases ==
    ASSUME NEW irq \in Irq, NEW worse \in Irq, NoMilder(worse, irq)
    PROVE  /\ Tier(worse) <= Tier(irq)
           /\ Tier(irq) \in 1..3 /\ Tier(worse) \in 1..3
<1>1. /\ irq.service \in Range(Service) /\ irq.supply \in Range(Supply)
      /\ worse.service \in Range(Service) /\ worse.supply \in Range(Supply)
  BY DEF Irq
<1>2. irq.service = "Mission-critical" => worse.service = "Mission-critical"
  BY <1>1, ServiceRanks DEF NoMilder
<1>3. irq.service = "Important" => worse.service \in {"Important", "Mission-critical"}
  BY <1>1, ServiceRanks DEF NoMilder
<1>4. irq.supply = "Sole-source" => worse.supply = "Sole-source"
  BY <1>1, SupplyRanks DEF NoMilder
<1>5. \A types : Holds(irq, types) => Holds(worse, types)
  BY DEF NoMilder, Holds
<1> QED
  BY <1>2, <1>3, <1>4, <1>5 DEF Tier

LEMMA ExposureGrows ==
    ASSUME NEW irq \in Irq, NEW worse \in Irq, NoMilder(worse, irq)
    PROVE  \A d \in DOMAIN Weight :
             /\ Exposure(irq)[d] \in Nat /\ Exposure(worse)[d] \in Nat
             /\ Exposure(irq)[d] <= Exposure(worse)[d]
<1>1. /\ irq.service \in Range(Service) /\ irq.supply \in Range(Supply)
      /\ worse.service \in Range(Service) /\ worse.supply \in Range(Supply)
  BY DEF Irq
<1>2. /\ Rank(irq.service, Service) \in 1..3 /\ Rank(worse.service, Service) \in 1..3
      /\ Rank(irq.supply, Supply) \in 1..3 /\ Rank(worse.supply, Supply) \in 1..3
      /\ Rank(irq.service, Service) <= Rank(worse.service, Service)
      /\ Rank(irq.supply, Supply) <= Rank(worse.supply, Supply)
  BY <1>1, ServiceRanks, SupplyRanks DEF NoMilder
<1>3. \A types : Holds(irq, types) => Holds(worse, types)
  BY DEF NoMilder, Holds
<1>4. \A q : (q \in irq.yes => q \in worse.yes) /\ (q \in irq.data => q \in worse.data)
  BY DEF NoMilder
<1>5. DOMAIN Weight = {"infosec", "privacy", "resilience", "compliance", "physical", "org",
                      "reputation", "esg"}
  BY DEF Weight
<1> DEFINE Grows(d) == /\ Exposure(irq)[d] \in Nat /\ Exposure(worse)[d] \in Nat
                       /\ Exposure(irq)[d] <= Exposure(worse)[d]
<1>6. Grows("infosec")
  BY <1>3, <1>4 DEF Exposure, Points
<1>7. Grows("privacy")
  BY <1>3, <1>4 DEF Exposure, Points
<1>8. Grows("resilience")
  <2> DEFINE before == Points("regulated" \in irq.yes, 1)
             after == Points("regulated" \in worse.yes, 1)
  <2>1. before \in 0..1 /\ after \in 0..1 /\ before <= after
    BY <1>4 DEF Points
  <2>2. /\ Exposure(irq)["resilience"]
             = Rank(irq.service, Service) - 1 + Rank(irq.supply, Supply) - 1 + before
        /\ Exposure(worse)["resilience"]
             = Rank(worse.service, Service) - 1 + Rank(worse.supply, Supply) - 1 + after
    BY DEF Exposure
  <2> HIDE DEF before, after
  <2>3. Exposure(irq)["resilience"] \in Nat
    BY <1>2, <2>1, <2>2
  <2>4. Exposure(worse)["resilience"] \in Nat
    BY <1>2, <2>1, <2>2
  <2>5. Exposure(irq)["resilience"] <= Exposure(worse)["resilience"]
    BY <1>2, <2>1, <2>2
  <2> QED
    BY <2>3, <2>4, <2>5
<1>9. Grows("compliance") /\ Grows("physical") /\ Grows("org") /\ Grows("reputation")
  BY <1>4 DEF Exposure, Points
<1>10. Grows("esg")
  BY <1>2, <1>4 DEF Exposure, Points
<1> QED
  BY <1>5, <1>6, <1>7, <1>8, <1>9, <1>10

LEMMA WeightedGrows ==
    ASSUME NEW irq \in Irq, NEW worse \in Irq, NoMilder(worse, irq)
    PROVE  Weighted(irq) \in Nat /\ Weighted(worse) \in Nat /\ Weighted(irq) <= Weighted(worse)
<1> DEFINE share(i, d) == Min({4, Exposure(i)[d]}) * Weight[d]
           Grows(d) == share(irq, d) \in Nat /\ share(worse, d) \in Nat
                       /\ share(irq, d) <= share(worse, d)
<1>1. \A d \in DOMAIN Weight : Grows(d)
  <2> SUFFICES ASSUME NEW d \in DOMAIN Weight
               PROVE  Grows(d)
    OBVIOUS
  <2>1. Weight[d] \in Nat
    BY DEF Weight
  <2>2. \A m, n \in 0..4, k \in Nat : m <= n => m * k <= n * k /\ m * k \in Nat /\ n * k \in Nat
    OBVIOUS
  <2>3. /\ Min({4, Exposure(irq)[d]}) \in 0..4 /\ Min({4, Exposure(worse)[d]}) \in 0..4
        /\ Min({4, Exposure(irq)[d]}) <= Min({4, Exposure(worse)[d]})
    BY ExposureGrows, Capped
  <2> QED
    BY <2>1, <2>2, <2>3
<1>2. /\ Weighted(irq) = share(irq, "infosec") + share(irq, "privacy") + share(irq, "resilience")
           + share(irq, "compliance") + share(irq, "physical") + share(irq, "org")
           + share(irq, "reputation") + share(irq, "esg")
      /\ Weighted(worse) = share(worse, "infosec") + share(worse, "privacy")
           + share(worse, "resilience") + share(worse, "compliance") + share(worse, "physical")
           + share(worse, "org") + share(worse, "reputation") + share(worse, "esg")
  BY DEF Weighted
<1>3. /\ Grows("infosec") /\ Grows("privacy") /\ Grows("resilience") /\ Grows("compliance")
      /\ Grows("physical") /\ Grows("org") /\ Grows("reputation") /\ Grows("esg")
  BY <1>1 DEF Weight
<1> HIDE DEF share
<1> QED
  BY <1>2, <1>3

LEMMA InherentNeverEases ==
    ASSUME NEW irq \in Irq, NEW worse \in Irq, NoMilder(worse, irq)
    PROVE  /\ Inherent(irq) \in Band /\ Inherent(worse) \in Band
           /\ Rank(Inherent(irq), Bands) <= Rank(Inherent(worse), Bands)
<1>1. Weighted(irq) \in Nat /\ Weighted(worse) \in Nat /\ Weighted(irq) <= Weighted(worse)
  BY WeightedGrows
<1>2. \A m \in Nat : Scale(m) \in Band
  BY BandRanks DEF Scale
<1>3. Rank(Scale(Weighted(irq)), Bands) <= Rank(Scale(Weighted(worse)), Bands)
  BY <1>1, BandRanks DEF Scale
<1>4. Floors(irq) => Floors(worse)
  <2>1. irq.service = "Mission-critical" => worse.service = "Mission-critical"
    BY ServiceRanks DEF NoMilder, Irq
  <2> QED
    BY <2>1 DEF Floors, Holds, NoMilder
<1>5. \A a, b \in Band : Rank(a, Bands) <= Rank(b, Bands) =>
         /\ Floored(irq, a) \in Band /\ Floored(worse, b) \in Band
         /\ Rank(Floored(irq, a), Bands) <= Rank(Floored(worse, b), Bands)
  BY <1>4, BandRanks DEF Floored
<1>6. "sanctions" \in irq.yes => "sanctions" \in worse.yes
  BY DEF NoMilder
<1>7. \A a \in Band : Rank(a, Bands) <= Rank("HIGH", Bands)
  BY BandRanks
<1> QED
  BY <1>1, <1>2, <1>3, <1>5, <1>6, <1>7, BandRanks DEF Inherent

LEMMA RouteNeverEases ==
    ASSUME NEW irq \in Irq, NEW worse \in Irq, NoMilder(worse, irq)
    PROVE  /\ Route(irq) \in Range(Routes) /\ Route(worse) \in Range(Routes)
           /\ Rank(Route(irq), Routes) <= Rank(Route(worse), Routes)
<1>1. Inherent(irq) = "HIGH" => Inherent(worse) = "HIGH"
  BY InherentNeverEases, BandRanks
<1>2. Inherent(worse) = "LOW" => Inherent(irq) = "LOW"
  BY InherentNeverEases, BandRanks
<1>3. Tier(irq) = 1 => Tier(worse) = 1
  BY TierNeverEases
<1>4. Tier(worse) = 3 => Tier(irq) = 3
  BY TierNeverEases
<1>5. Blocked(irq) => Blocked(worse)
  BY <1>1, <1>3 DEF Blocked, Holds, NoMilder
<1>6. worse.yes \cap {"crossBorder", "ai"} = {} => irq.yes \cap {"crossBorder", "ai"} = {}
  BY DEF NoMilder
<1> QED
  BY <1>2, <1>4, <1>5, <1>6, RouteRanks DEF Route

LEMMA ExposedNeverEases ==
    ASSUME NEW irq \in Irq, NEW worse \in Irq, NoMilder(worse, irq)
    PROVE  Exposed(irq) \subseteq Exposed(worse)
<1>1. \A a, b \in Band : Rank(a, Bands) <= Rank(b, Bands) => Scope(a) \subseteq Scope(b)
  <2>1. /\ Scope("LOW") \subseteq Scope("MODERATE")
        /\ Scope("MODERATE") \subseteq Scope("ELEVATED")
        /\ Scope("ELEVATED") \subseteq Scope("HIGH")
    BY DEF Scope
  <2> QED
    BY <2>1, BandRanks
<1>2. Scope(Inherent(irq)) \subseteq Scope(Inherent(worse))
  BY <1>1, InherentNeverEases
<1>3. \A d \in DOMAIN Weight : Exposure(irq)[d] >= 3 => Exposure(worse)[d] >= 3
  BY ExposureGrows
<1> QED
  BY <1>2, <1>3 DEF Exposed

------------------------------------------------------------------------------
(* One set of control answers is no better than another.                   *)

NoBetter(worse, ddq) ==
    \A answer \in {"PARTIAL", "MARGINAL"} : Given(ddq, answer) \subseteq Given(worse, answer)

LEMMA NotchesGrow ==
    ASSUME NEW ddq, NEW worse, NoBetter(worse, ddq)
    PROVE  Notches(ddq) \in 0..3 /\ Notches(worse) \in 0..3 /\ Notches(ddq) <= Notches(worse)
<1> DEFINE few == Cardinality(Given(ddq, "PARTIAL"))
           many == Cardinality(Given(worse, "PARTIAL"))
<1>1. IsFiniteSet(Given(ddq, "PARTIAL")) /\ IsFiniteSet(Given(worse, "PARTIAL"))
  BY RiskConstants, FS_Subset DEF Given
<1>2. few \in Nat /\ many \in Nat /\ few <= many
  BY <1>1, FS_Subset, FS_CardinalityType DEF NoBetter
<1>3. Given(ddq, "MARGINAL") # {} => Given(worse, "MARGINAL") # {}
  BY DEF NoBetter
<1> HIDE DEF few, many
<1>4. /\ Points(few >= 1, 1) \in 0..1 /\ Points(many >= 1, 1) \in 0..1
      /\ Points(few >= 1, 1) <= Points(many >= 1, 1)
      /\ Points(few >= 4, 1) \in 0..1 /\ Points(many >= 4, 1) \in 0..1
      /\ Points(few >= 4, 1) <= Points(many >= 4, 1)
  BY <1>2 DEF Points
<1>5. /\ Points(Given(ddq, "MARGINAL") # {}, 1) \in 0..1
      /\ Points(Given(worse, "MARGINAL") # {}, 1) \in 0..1
      /\ Points(Given(ddq, "MARGINAL") # {}, 1) <= Points(Given(worse, "MARGINAL") # {}, 1)
  BY <1>3 DEF Points
<1>6. /\ Notches(ddq) = Points(few >= 1, 1) + Points(few >= 4, 1)
                        + Points(Given(ddq, "MARGINAL") # {}, 1)
      /\ Notches(worse) = Points(many >= 1, 1) + Points(many >= 4, 1)
                          + Points(Given(worse, "MARGINAL") # {}, 1)
  BY DEF Notches, few, many
<1> QED
  BY <1>4, <1>5, <1>6

LEMMA ResidualNeverEases ==
    ASSUME NEW band \in Band, NEW ddq, NEW worse, NoBetter(worse, ddq)
    PROVE  /\ Residual(band, ddq) \in Band /\ Residual(band, worse) \in Band
           /\ Rank(band, Bands) <= Rank(Residual(band, ddq), Bands)
           /\ Rank(Residual(band, ddq), Bands) <= Rank(Residual(band, worse), Bands)
<1>1. Rank(band, Bands) \in 1..4 /\ Rank("HIGH", Bands) = 4 /\ "HIGH" \in Band
  BY BandRanks
<1>2. CriticalMarginal(ddq) => CriticalMarginal(worse)
  BY DEF CriticalMarginal, NoBetter
<1> DEFINE raised(d) == Min({4, Rank(band, Bands) + Notches(d)})
<1>3. raised(ddq) \in 1..4 /\ raised(worse) \in 1..4 /\ raised(ddq) <= raised(worse)
      /\ Rank(band, Bands) <= raised(ddq)
  BY <1>1, NotchesGrow, Capped
<1> HIDE DEF raised
<1>4. \A d : Residual(band, d) = IF CriticalMarginal(d) THEN "HIGH" ELSE Bands[raised(d)]
  BY DEF Residual, raised
<1> QED
  BY <1>1, <1>2, <1>3, <1>4, BandOfRank

------------------------------------------------------------------------------
(* An engagement.  Whatever a request makes of the row it loaded, a residual *)
(* band and a decision that were there stay there; so a stage that is        *)
(* written without them, because the request had loaded the same values,     *)
(* finds them in the row.                                                    *)

HasVerdict(r) == r.stage \in {"decision", "contract"} => r.residual # None /\ r.decision # None

NoVerdictLost(before, after) ==
    /\ before.residual # None => after.residual # None
    /\ before.decision # None => after.decision # None

VerdictInv ==
    /\ HasVerdict(row)
    /\ \A r \in Request : loaded[r] # None =>
         HasVerdict(loaded[r]) /\ NoVerdictLost(loaded[r], row)

Covers(r) ==
    r.stage \in {"decision", "contract"} /\ r.inherent # None =>
        Rank(r.decision, Decisions) >= Rank(r.inherent, Bands)

\* Steps are created by requests that are no longer in flight.
Pending == {r \in Request : loaded[r] # None}
StepsInv ==
    /\ IsFiniteSet(Pending)
    /\ steps \in Nat /\ requests \in 0 .. MaxRequests
    /\ steps + Cardinality(Pending) <= requests

RowsInv ==
    /\ row \in Row /\ loaded \in [Request -> Row \cup {None}] /\ torn \in BOOLEAN

EngagementInv == RowsInv /\ StepsInv /\ VerdictInv /\ DecisionCoversInherent

LEMMA EngagementInvImplies == EngagementInv => TypeOK /\ ContractHasVerdict
<1> SUFFICES ASSUME EngagementInv
             PROVE  TypeOK /\ ContractHasVerdict
  OBVIOUS
<1>1. ContractHasVerdict
  BY DEF EngagementInv, VerdictInv, HasVerdict, ContractHasVerdict
<1>2. Cardinality(Pending) \in Nat
  BY FS_CardinalityType DEF EngagementInv, StepsInv
<1>3. steps \in 0 .. requests /\ requests \in 0 .. MaxRequests
  BY <1>2, EngagementConstants DEF EngagementInv, StepsInv
<1> QED
  BY <1>1, <1>3 DEF EngagementInv, RowsInv, TypeOK

LEMMA InitEngagement == Init => EngagementInv
<1> SUFFICES ASSUME Init
             PROVE  EngagementInv
  OBVIOUS
<1>1. RowsInv
  BY DEF Init, RowsInv, Row, Stages, Statuses
<1>2. Pending = {}
  BY DEF Init, Pending
<1>3. StepsInv
  BY <1>2, FS_EmptySet, EngagementConstants DEF Init, StepsInv
<1>4. VerdictInv /\ DecisionCoversInherent
  BY DEF Init, VerdictInv, HasVerdict, DecisionCoversInherent
<1> QED
  BY <1>1, <1>3, <1>4 DEF EngagementInv

Column == {"stage", "status", "inherent", "route", "residual", "decision"}

LEMMA CommitColumns ==
    ASSUME RowsInv, NEW r \in Request, loaded[r] \in Row, NEW after \in Row, Commit(r, after)
    PROVE  /\ row' \in Row /\ loaded' \in [Request -> Row \cup {None}]
           /\ \A c \in Column : row'[c] = IF after[c] # loaded[r][c] THEN after[c] ELSE row[c]
           /\ loaded[r] = row => row' = after
<1>1. DOMAIN row = Column
  BY DEF RowsInv, Row, Column
<1>2. row' = [c \in Column |-> IF after[c] # loaded[r][c] THEN after[c] ELSE row[c]]
  BY <1>1 DEF Commit
<1>3. \A c \in Column : row'[c] = IF after[c] # loaded[r][c] THEN after[c] ELSE row[c]
  BY <1>2
<1>4. row' \in Row
  BY <1>2 DEF RowsInv, Row, Column
<1>5. loaded' \in [Request -> Row \cup {None}]
  BY DEF RowsInv, Commit
<1>6. ASSUME loaded[r] = row
      PROVE  row' = after
  <2>1. \A c \in Column : row'[c] = after[c]
    BY <1>3, <1>6
  <2>2. DOMAIN row' = Column /\ DOMAIN after = Column
    BY <1>2 DEF Row, Column
  <2> QED
    BY <1>4, <2>1, <2>2 DEF Row, Column
<1> QED
  BY <1>3, <1>4, <1>5, <1>6

LEMMA InherentBand == \A irq \in Irq : Inherent(irq) \in Band
<1> SUFFICES ASSUME NEW irq \in Irq
             PROVE  Inherent(irq) \in Band
  OBVIOUS
<1>1. NoMilder(irq, irq)
  <2>1. Rank(irq.service, Service) \in 1..3 /\ Rank(irq.supply, Supply) \in 1..3
    BY ServiceRanks, SupplyRanks DEF Irq
  <2> QED
    BY <2>1 DEF NoMilder
<1> QED
  BY <1>1, InherentNeverEases

LEMMA ResidualCovers ==
    ASSUME NEW band \in Band, NEW ddq
    PROVE  /\ Residual(band, ddq) \in Band
           /\ Rank(band, Bands) <= Rank(Residual(band, ddq), Bands)
<1>1. NoBetter(ddq, ddq)
  BY DEF NoBetter
<1> QED
  BY <1>1, ResidualNeverEases

\* What each request makes of the row it loaded.
Made(before, after) ==
    /\ after \in Row
    /\ NoVerdictLost(before, after)
    /\ HasVerdict(before) => HasVerdict(after)

LEMMA ScoredRow ==
    ASSUME NEW before \in Row, NEW irq \in Irqs
    PROVE  Made(before, Scored(before, irq)) /\ Covers(Scored(before, irq))
<1>1. Inherent(irq) \in Band /\ Route(irq) \in Range(Routes)
  BY InherentBand, RouteRanks, EngagementConstants DEF Route
<1> QED
  BY <1>1 DEF Made, NoVerdictLost, HasVerdict, Covers, Scored, Row, Stages

LEMMA DecidedRow ==
    ASSUME NEW before \in Row, NEW ddq \in Ddqs
    PROVE  Made(before, Decided(before, ddq)) /\ Covers(Decided(before, ddq))
<1> DEFINE band == IF before.inherent = None THEN "LOW" ELSE before.inherent
           residual == Residual(band, ddq)
<1>1. band \in Band
  BY BandRanks DEF Row
<1>2. residual \in Band /\ Rank(band, Bands) <= Rank(residual, Bands)
  BY <1>1, ResidualCovers
<1>3. DecisionFor(residual) \in Range(Decisions)
      /\ Rank(DecisionFor(residual), Decisions) = Rank(residual, Bands)
  BY <1>2, DecisionRanks
<1>4. Decided(before, ddq) = [before EXCEPT !.residual = residual,
                                           !.decision = DecisionFor(residual),
                                           !.stage = "decision"]
  BY DEF Decided
<1>5. before.inherent # None => band = before.inherent
  OBVIOUS
<1>6. Rank(band, Bands) \in 1..4 /\ Rank(residual, Bands) \in 1..4
  BY <1>1, <1>2, BandRanks
<1>7. residual # None /\ DecisionFor(residual) # None
  BY <1>2, <1>3, EngagementConstants
<1> HIDE DEF residual, band
<1>8. Made(before, Decided(before, ddq))
  BY <1>2, <1>3, <1>4, <1>7 DEF Made, NoVerdictLost, HasVerdict, Row, Stages
<1>9. Covers(Decided(before, ddq))
  BY <1>2, <1>3, <1>4, <1>5, <1>6 DEF Covers, Row
<1> QED
  BY <1>8, <1>9

LEMMA HandleRow ==
    ASSUME RowsInv, NEW r \in Request, Handle(r)
    PROVE  \E after \in Row :
             /\ Commit(r, after)
             /\ Made(loaded[r], after)
             /\ ~torn' => loaded[r] = row /\ (DecisionCoversInherent => Covers(after))
             /\ steps' \in {steps, steps + 1} /\ torn' \in BOOLEAN
<1>1. loaded[r] \in Row /\ loaded[r] # None
  BY DEF RowsInv, Handle
<1>2. CASE SubmitIrq(r)
  <2>1. PICK irq \in Irqs : Commit(r, Scored(loaded[r], irq))
    BY <1>2 DEF SubmitIrq
  <2> QED
    BY <1>1, <1>2, <2>1, ScoredRow DEF SubmitIrq, Made
<1>3. CASE SubmitDdq(r)
  <2>1. PICK ddq \in Ddqs : Commit(r, Decided(loaded[r], ddq))
    BY <1>3 DEF SubmitDdq
  <2> QED
    BY <1>1, <1>3, <2>1, DecidedRow DEF SubmitDdq, Made, Disturbed, RowsInv
<1> USE DEF Disturbed, RowsInv, Made, NoVerdictLost, HasVerdict, Covers, Row, DecisionCoversInherent
<1>4. CASE Override(r)
  <2>1. PICK band \in Band : Commit(r, [loaded[r] EXCEPT !.residual = band])
    BY <1>4 DEF Override
  <2>2. band # None
    BY EngagementConstants
  <2>3. Made(loaded[r], [loaded[r] EXCEPT !.residual = band])
    BY <1>1, <2>2
  <2> QED
    BY <1>1, <1>4, <2>1, <2>3 DEF Override
<1>5. CASE GenContract(r)
  <2>1. Made(loaded[r], Contracted(loaded[r]))
    BY <1>1 DEF Contracted, Stages
  <2> QED
    BY <1>1, <1>5, <2>1 DEF GenContract, Contracted
<1>6. CASE SetStatus(r)
  <2>1. PICK status \in {"cancelled", "signed_off", "returned"} :
          Commit(r, [loaded[r] EXCEPT !.status = status])
    BY <1>6 DEF SetStatus
  <2>2. Made(loaded[r], [loaded[r] EXCEPT !.status = status])
    BY <1>1 DEF Statuses
  <2> QED
    BY <1>1, <1>6, <2>1, <2>2 DEF SetStatus
<1>7. CASE Terminate(r)
  <2> DEFINE after == [loaded[r] EXCEPT !.stage = "terminate", !.status = "terminated"]
  <2>1. Made(loaded[r], after) /\ Covers(after)
    BY <1>1 DEF Statuses, Stages
  <2> QED
    BY <1>1, <1>7, <2>1 DEF Terminate
<1> QED
  BY <1>2, <1>3, <1>4, <1>5, <1>6, <1>7 DEF Handle

LEMMA NextEngagement == EngagementInv /\ [Next]_vars => EngagementInv'
<1> SUFFICES ASSUME EngagementInv, [Next]_vars
             PROVE  EngagementInv'
  OBVIOUS
<1>1. CASE UNCHANGED vars
  BY <1>1 DEF vars, EngagementInv, RowsInv, StepsInv, VerdictInv, DecisionCoversInherent,
              Pending, HasVerdict
<1>2. ASSUME NEW r \in Request, Load(r)
      PROVE  EngagementInv'
  <2>1. RowsInv' /\ VerdictInv' /\ DecisionCoversInherent'
    BY <1>2 DEF Load, EngagementInv, RowsInv, VerdictInv, DecisionCoversInherent, HasVerdict,
                NoVerdictLost
  <2>2. Pending' \subseteq Pending \cup {r} /\ IsFiniteSet(Pending)
    BY <1>2 DEF Load, Pending, EngagementInv, RowsInv, StepsInv
  <2>3. /\ IsFiniteSet(Pending \cup {r}) /\ Cardinality(Pending) \in Nat
        /\ Cardinality(Pending \cup {r}) <= Cardinality(Pending) + 1
    <3>1. Cardinality(Pending) \in Nat
      BY <2>2, FS_CardinalityType
    <3>2. /\ IsFiniteSet(Pending \cup {r})
          /\ Cardinality(Pending \cup {r}) =
               IF r \in Pending THEN Cardinality(Pending) ELSE Cardinality(Pending) + 1
      BY <2>2, FS_AddElement, Zenon
    <3> QED
      BY <3>1, <3>2
  <2>4. /\ IsFiniteSet(Pending') /\ Cardinality(Pending') \in Nat
        /\ Cardinality(Pending') <= Cardinality(Pending \cup {r})
    BY <2>2, <2>3, FS_Subset, FS_CardinalityType
  <2>5. Cardinality(Pending \cup {r}) \in Nat
    BY <2>3, FS_CardinalityType
  <2>6. StepsInv'
    <3>1. /\ steps' = steps /\ requests' = requests + 1 /\ requests' \in 0 .. MaxRequests
          /\ steps \in Nat /\ requests \in Nat /\ steps + Cardinality(Pending) <= requests
      <4>1. requests \in Nat /\ MaxRequests \in Nat /\ requests < MaxRequests
        BY <1>2, EngagementConstants DEF Load, EngagementInv, StepsInv
      <4> QED
        BY <1>2, <4>1 DEF Load, EngagementInv, StepsInv
    <3>2. steps + Cardinality(Pending') <= requests'
      BY <2>3, <2>4, <2>5, <3>1
    <3> QED
      BY <2>4, <3>1, <3>2 DEF StepsInv
  <2> QED
    BY <2>1, <2>6 DEF EngagementInv
<1>3. ASSUME NEW r \in Request, Handle(r)
      PROVE  EngagementInv'
  <2>1. PICK after \in Row :
             /\ Commit(r, after)
             /\ Made(loaded[r], after)
             /\ ~torn' => loaded[r] = row /\ (DecisionCoversInherent => Covers(after))
             /\ steps' \in {steps, steps + 1} /\ torn' \in BOOLEAN
    BY <1>3, HandleRow DEF EngagementInv
  <2>2. loaded[r] # None /\ loaded[r] \in Row
    BY <1>3 DEF Handle, EngagementInv, RowsInv
  <2>3. /\ row' \in Row /\ loaded' \in [Request -> Row \cup {None}]
        /\ \A c \in Column : row'[c] = IF after[c] # loaded[r][c] THEN after[c] ELSE row[c]
        /\ loaded[r] = row => row' = after
    BY <2>1, <2>2, CommitColumns DEF EngagementInv
  <2>4. RowsInv'
    BY <2>1, <2>3 DEF RowsInv
  <2>5. DecisionCoversInherent'
    BY <2>1, <2>3 DEF EngagementInv, DecisionCoversInherent, Covers
  <2>6. VerdictInv'
    <3>1. /\ row'.stage = IF after.stage # loaded[r].stage THEN after.stage ELSE row.stage
          /\ row'.residual = IF after.residual # loaded[r].residual THEN after.residual
                             ELSE row.residual
          /\ row'.decision = IF after.decision # loaded[r].decision THEN after.decision
                             ELSE row.decision
      BY <2>3 DEF Column
    <3>2. HasVerdict(row) /\ HasVerdict(loaded[r]) /\ NoVerdictLost(loaded[r], row)
      BY <2>2 DEF EngagementInv, VerdictInv
    <3>3. NoVerdictLost(row, row') /\ HasVerdict(row')
      BY <2>1, <3>1, <3>2 DEF Made, NoVerdictLost, HasVerdict
    <3>4. \A q \in Request : loaded'[q] # None => loaded[q] # None /\ loaded'[q] = loaded[q]
      BY <2>1 DEF Commit, EngagementInv, RowsInv
    <3> QED
      BY <3>3, <3>4 DEF EngagementInv, VerdictInv, NoVerdictLost
  <2>7. StepsInv'
    <3>1. Pending' = Pending \ {r} /\ r \in Pending /\ requests' = requests
      BY <2>1, <2>2 DEF Commit, Pending, EngagementInv, RowsInv
    <3>2. /\ IsFiniteSet(Pending') /\ Cardinality(Pending') = Cardinality(Pending) - 1
          /\ Cardinality(Pending) \in Nat
      BY <3>1, FS_RemoveElement, FS_CardinalityType DEF EngagementInv, StepsInv
    <3> QED
      BY <2>1, <3>1, <3>2, EngagementConstants DEF EngagementInv, StepsInv
  <2> QED
    BY <2>4, <2>5, <2>6, <2>7 DEF EngagementInv
<1> QED
  BY <1>1, <1>2, <1>3 DEF Next

------------------------------------------------------------------------------
(* A conversation.  As long as nothing was lost, the worst finding recorded  *)
(* is among the findings of the dossier, because a call that does not        *)
(* overwrite another either read what the session holds or changes nothing.  *)

WindowInv ==
    ~lost =>
        /\ Len(session.dossier.findings) <= Window
        /\ \A c \in Call : read[c] # None => Len(read[c].dossier.findings) <= Window

WorstInv == ~lost => Rank(worst, Bands) <= Rank(WorstOf(session.dossier.findings), Bands)

StandInv ==
    ~rewritten /\ session.dossier.verdict # None =>
        session.dossier.residual = session.dossier.verdict

TalkInv == TalkTypeOK /\ WindowInv /\ WorstInv /\ StandInv

LEMMA MaxOfRanks ==
    ASSUME NEW S \in SUBSET (1..4), 1 \in S
    PROVE  Max(S) \in S /\ \A n \in S : n <= Max(S)
<1>1. \E m \in S : \A n \in S : m >= n
  <2>1. CASE 4 \in S
    BY <2>1
  <2>2. CASE 4 \notin S /\ 3 \in S
    BY <2>2
  <2>3. CASE 4 \notin S /\ 3 \notin S /\ 2 \in S
    BY <2>3
  <2>4. CASE 4 \notin S /\ 3 \notin S /\ 2 \notin S
    BY <2>4
  <2> QED
    BY <2>1, <2>2, <2>3, <2>4
<1> QED
  BY <1>1 DEF Max

Marks(findings) == {1} \cup {Rank(Floor[severity], Bands) : severity \in Range(findings)}

LEMMA FloorBands == \A severity \in Severity : Floor[severity] \in Band
BY BandRanks DEF Floor, Severity

LEMMA MarkedFindings ==
    ASSUME NEW findings \in Seq(Severity)
    PROVE  /\ Marks(findings) \in SUBSET (1..4) /\ 1 \in Marks(findings)
           /\ WorstOf(findings) \in Band
           /\ Rank(WorstOf(findings), Bands) = Max(Marks(findings))
<1>1. Range(findings) \subseteq Severity
  BY DEF Range
<1>2. Marks(findings) \in SUBSET (1..4) /\ 1 \in Marks(findings)
  BY <1>1, FloorBands, BandRanks DEF Marks
<1>3. WorstOf(findings) = Bands[Max(Marks(findings))]
  BY DEF WorstOf, Marks
<1>4. Max(Marks(findings)) \in 1..4
  BY <1>2, MaxOfRanks
<1> QED
  BY <1>2, <1>3, <1>4, BandOfRank

LEMMA WorstOfMore ==
    ASSUME NEW some \in Seq(Severity), NEW all \in Seq(Severity), Range(some) \subseteq Range(all)
    PROVE  Rank(WorstOf(some), Bands) <= Rank(WorstOf(all), Bands)
<1>1. Marks(some) \subseteq Marks(all)
  BY DEF Marks
<1> QED
  BY <1>1, MarkedFindings, MaxOfRanks

LEMMA WorstOfEach ==
    ASSUME NEW findings \in Seq(Severity), NEW severity \in Range(findings)
    PROVE  Rank(Floor[severity], Bands) <= Rank(WorstOf(findings), Bands)
<1>1. Rank(Floor[severity], Bands) \in Marks(findings)
  BY DEF Marks
<1> QED
  BY <1>1, MarkedFindings, MaxOfRanks

LEMMA HarsherBands ==
    ASSUME NEW a \in Band, NEW b \in Band
    PROVE  /\ Harsher(a, b) \in Band
           /\ Rank(Harsher(a, b), Bands) >= Rank(a, Bands)
           /\ Rank(Harsher(a, b), Bands) >= Rank(b, Bands)
           /\ \A c \in Band : Rank(c, Bands) >= Rank(a, Bands) /\ Rank(c, Bands) >= Rank(b, Bands)
                                => Rank(c, Bands) >= Rank(Harsher(a, b), Bands)
BY BandRanks DEF Harsher

LEMMA MaxOfTwo == \A m, n \in Int : Max({m, n}) = IF m >= n THEN m ELSE n
  BY DEF Max

\* A finding recorded is in the dossier, and all the others are still there unless
\* the window was full.
LEMMA RecordedDossier ==
    ASSUME NEW dossier \in Dossier, NEW severity \in Severity
    PROVE  LET findings == Recorded(dossier, severity).findings IN
           /\ Recorded(dossier, severity) = [dossier EXCEPT !.findings = findings]
           /\ findings \in Seq(Severity) /\ Len(findings) <= Window
           /\ severity \in Range(findings)
           /\ Len(dossier.findings) < Window => findings = Append(dossier.findings, severity)
<1> DEFINE longer == Append(dossier.findings, severity)
           first == Max({1, Len(longer) - Window + 1})
           findings == SubSeq(longer, first, Len(longer))
<1>1. dossier.findings \in Seq(Severity)
  BY DEF Dossier
<1>2. /\ longer \in Seq(Severity) /\ Len(longer) = Len(dossier.findings) + 1
      /\ longer[Len(longer)] = severity /\ Len(dossier.findings) \in Nat
  BY <1>1, AppendProperties
<1>3. /\ first \in 1 .. Len(longer)
      /\ Len(longer) - first + 1 <= Window
      /\ Len(dossier.findings) < Window => first = 1
  BY <1>2, MaxOfTwo, ConversationConstants
<1>4. /\ findings \in Seq(Severity) /\ Len(findings) = Len(longer) - first + 1
      /\ \A i \in 1 .. Len(longer) - first + 1 : findings[i] = longer[first + i - 1]
  <2>1. \A i \in first .. Len(longer) : longer[i] \in Severity
    BY <1>2, <1>3
  <2>2. first \in Int /\ Len(longer) \in Int /\ first <= Len(longer)
    BY <1>2, <1>3
  <2> HIDE DEF longer, first
  <2> QED
    BY <2>1, <2>2, SubSeqProperties
<1>5. Recorded(dossier, severity) = [dossier EXCEPT !.findings = findings]
  BY DEF Recorded
<1>6. Recorded(dossier, severity).findings = findings
  BY <1>5 DEF Dossier
<1> HIDE DEF longer, first
<1>7. severity \in Range(findings)
  <2>1. Len(longer) - first + 1 \in 1 .. Len(findings)
    BY <1>2, <1>3, <1>4
  <2>2. findings[Len(longer) - first + 1] = severity
    BY <1>2, <1>3, <1>4, <2>1
  <2> QED
    BY <1>4, <2>1, <2>2 DEF Range
<1>8. ASSUME Len(dossier.findings) < Window
      PROVE  findings = longer
  <2>1. first = 1
    BY <1>3, <1>8
  <2>2. Len(findings) = Len(longer) /\ \A i \in 1 .. Len(longer) : findings[i] = longer[i]
    BY <1>2, <1>4, <2>1
  <2> QED
    BY <1>2, <1>4, <2>2
<1> QED
  BY <1>3, <1>4, <1>5, <1>6, <1>7, <1>8, <1>2 DEF longer

LEMMA MergedDossier ==
    ASSUME NEW facts \in Facts, NEW dossier \in Dossier
    PROVE  /\ Merged(dossier, facts) \in Dossier
           /\ \A f \in {"findings", "residual", "verdict"} :
                f \notin DOMAIN facts => Merged(dossier, facts)[f] = dossier[f]
<1> DEFINE Field == {"inherent", "residual", "findings", "verdict"}
<1>1. Merged(Blank, facts) \in Dossier
  BY FactsAreFields
<1>2. DOMAIN Blank = Field /\ DOMAIN dossier = Field
  BY DEF Blank, Dossier
<1>3. /\ Merged(Blank, facts)
             = [f \in Field |-> IF f \in DOMAIN facts THEN facts[f] ELSE Blank[f]]
      /\ Merged(dossier, facts)
             = [f \in Field |-> IF f \in DOMAIN facts THEN facts[f] ELSE dossier[f]]
  BY <1>2 DEF Merged
<1>4. \A f \in Field \cap DOMAIN facts : facts[f] = Merged(Blank, facts)[f]
  BY <1>3
<1>5. Merged(dossier, facts) \in Dossier
  BY <1>1, <1>3, <1>4 DEF Dossier
<1> QED
  BY <1>3, <1>5

LEMMA VerdictBands ==
    ASSUME NEW dossier \in Dossier
    PROVE  /\ Verdict(dossier) \in Band
           /\ Rank(WorstOf(dossier.findings), Bands) <= Rank(Verdict(dossier), Bands)
           /\ dossier.residual # None =>
                Rank(dossier.residual, Bands) <= Rank(Verdict(dossier), Bands)
           /\ Concluded(dossier) \in Dossier
           /\ Concluded(dossier).verdict = Verdict(dossier)
           /\ Concluded(dossier).residual = Verdict(dossier)
           /\ Concluded(dossier).findings = dossier.findings
<1>1. Base(dossier) \in Band /\ (dossier.residual # None => Base(dossier) = dossier.residual)
  BY BandRanks DEF Base, Dossier
<1>2. WorstOf(dossier.findings) \in Band
  BY MarkedFindings DEF Dossier
<1>3. /\ Verdict(dossier) \in Band
      /\ Rank(Verdict(dossier), Bands) >= Rank(Base(dossier), Bands)
      /\ Rank(Verdict(dossier), Bands) >= Rank(WorstOf(dossier.findings), Bands)
  BY <1>1, <1>2, HarsherBands DEF Verdict
<1>4. \A band \in Band : Rank(band, Bands) \in 1..4
  BY BandRanks
<1>5. /\ Concluded(dossier) \in Dossier
      /\ Concluded(dossier).verdict = Verdict(dossier)
      /\ Concluded(dossier).residual = Verdict(dossier)
      /\ Concluded(dossier).findings = dossier.findings
  BY <1>3 DEF Concluded, Dossier
<1> QED
  BY <1>1, <1>2, <1>3, <1>4, <1>5

\* A call writes its dossier or leaves the session's, which are the same when
\* it does not overwrite another's.
LEMMA SavedSession ==
    ASSUME TalkTypeOK, NEW c \in Call, read[c] # None,
           NEW stage \in 0 .. LastStage, NEW dossier \in Dossier, Save(c, stage, dossier)
    PROVE  /\ read[c] \in Session
           /\ session' \in Session /\ read' = [read EXCEPT ![c] = None] /\ calls' = calls
           /\ \/ session'.dossier = dossier
              \/ session'.dossier = session.dossier /\ dossier = read[c].dossier
           /\ ~Overwrites(c) =>
                session.dossier = read[c].dossier \/ session.dossier = session'.dossier
<1>1. read[c] \in Session /\ session \in Session
  BY DEF TalkTypeOK
<1>2. PICK written \in {TRUE, dossier # read[c].dossier} :
        session' = [stage   |-> IF stage # read[c].stage THEN stage ELSE session.stage,
                    dossier |-> IF written THEN dossier ELSE session.dossier]
  BY DEF Save
<1>3. session' \in Session
  BY <1>1, <1>2 DEF Session
<1>4. \/ session'.dossier = dossier
      \/ session'.dossier = session.dossier /\ dossier = read[c].dossier
  BY <1>2
<1> QED
  BY <1>1, <1>3, <1>4 DEF Save, Overwrites

LEMMA InitTalk == TalkInit => TalkInv
<1> SUFFICES ASSUME TalkInit
             PROVE  TalkInv
  OBVIOUS
<1>1. Blank \in Dossier /\ Blank.findings = <<>> /\ Blank.verdict = None
  BY DEF Blank, Dossier
<1>2. TalkTypeOK
  <2>1. session \in Session
    BY <1>1, ConversationConstants DEF TalkInit, Session
  <2>2. read \in [Call -> Session \cup {None}]
    BY DEF TalkInit
  <2>3. calls \in 0 .. MaxCalls /\ worst \in Band
    BY BandRanks, ConversationConstants DEF TalkInit
  <2>4. lost \in BOOLEAN /\ rewritten \in BOOLEAN
    BY DEF TalkInit
  <2> QED
    BY <2>1, <2>2, <2>3, <2>4 DEF TalkTypeOK
<1>3. session.dossier = Blank /\ worst = "LOW" /\ \A c \in Call : read[c] = None
  BY DEF TalkInit
<1>4. WindowInv /\ StandInv
  BY <1>1, <1>3, ConversationConstants DEF WindowInv, StandInv
<1>5. Rank(WorstOf(<<>>), Bands) \in 1..4
  <2>1. <<>> \in Seq(Severity)
    OBVIOUS
  <2>2. \A findings \in Seq(Severity) : Rank(WorstOf(findings), Bands) \in 1..4
    BY MarkedFindings, BandRanks
  <2> QED
    BY <2>1, <2>2, Zenon
<1>6. WorstInv
  BY <1>1, <1>3, <1>5, BandRanks DEF WorstInv
<1> QED
  BY <1>2, <1>4, <1>6 DEF TalkInv

LEMMA MergeKeepsTalk ==
    ASSUME TalkInv, NEW c \in Call, read[c] # None, NEW facts \in Facts,
           NEW stage \in 0 .. LastStage, Merge(c, facts, stage)
    PROVE  TalkInv'
<1> DEFINE dossier == Merged(read[c].dossier, facts)
<1>1. /\ TalkTypeOK /\ read[c] \in Session /\ read[c].dossier \in Dossier
      /\ session \in Session /\ session.dossier \in Dossier
  BY DEF TalkInv, TalkTypeOK, Session
<1>2. /\ dossier \in Dossier
      /\ \A f \in {"findings", "residual", "verdict"} :
           f \notin DOMAIN facts => dossier[f] = read[c].dossier[f]
  BY <1>1, MergedDossier
<1>3. /\ session' \in Session /\ read' = [read EXCEPT ![c] = None] /\ calls' = calls
      /\ session'.dossier = dossier \/ session'.dossier = session.dossier
      /\ ~Overwrites(c) =>
           session.dossier = read[c].dossier \/ session.dossier = session'.dossier
  BY <1>1, <1>2, SavedSession DEF Merge
<1>4. TalkTypeOK'
  BY <1>1, <1>3 DEF Merge, TalkTypeOK
<1>5. ASSUME ~lost'
      PROVE  ~lost /\ session'.dossier.findings = session.dossier.findings
  <2>1. ~lost /\ ~Overwrites(c) /\ "findings" \notin DOMAIN facts
    BY <1>1, <1>5 DEF Merge, TalkTypeOK
  <2> QED
    BY <1>2, <1>3, <2>1
<1>6. WindowInv'
  BY <1>1, <1>3, <1>5 DEF TalkInv, WindowInv, TalkTypeOK
<1>7. WorstInv'
  BY <1>5 DEF TalkInv, WorstInv, Merge
<1>8. StandInv'
  <2> SUFFICES ASSUME ~rewritten', session'.dossier.verdict # None
               PROVE  session'.dossier.residual = session'.dossier.verdict
    BY DEF StandInv
  <2>1. /\ ~rewritten /\ ~Overwrites(c)
        /\ "residual" \notin DOMAIN facts /\ "verdict" \notin DOMAIN facts
    BY <1>1 DEF Merge, TalkTypeOK
  <2>2. /\ session'.dossier.residual = session.dossier.residual
        /\ session'.dossier.verdict = session.dossier.verdict
    BY <1>2, <1>3, <2>1
  <2> QED
    BY <2>1, <2>2 DEF TalkInv, StandInv
<1> QED
  BY <1>4, <1>6, <1>7, <1>8 DEF TalkInv

LEMMA RecordKeepsTalk ==
    ASSUME TalkInv, NEW c \in Call, read[c] # None, RecordFinding(c)
    PROVE  TalkInv'
<1>1. /\ TalkTypeOK /\ read[c] \in Session /\ read[c].dossier \in Dossier
      /\ read[c].stage \in 0 .. LastStage /\ worst \in Band
      /\ session \in Session /\ session.dossier \in Dossier
  BY DEF TalkInv, TalkTypeOK, Session
<1>2. PICK severity \in Severity :
        /\ Save(c, read[c].stage, Recorded(read[c].dossier, severity))
        /\ worst' = Harsher(worst, Floor[severity])
  BY DEF RecordFinding
<1> DEFINE before == read[c].dossier
           dossier == Recorded(before, severity)
<1>3. /\ dossier = [before EXCEPT !.findings = dossier.findings]
      /\ dossier.findings \in Seq(Severity) /\ Len(dossier.findings) <= Window
      /\ severity \in Range(dossier.findings)
      /\ Len(before.findings) < Window => dossier.findings = Append(before.findings, severity)
  BY <1>1, RecordedDossier
<1> HIDE DEF dossier
<1>4. /\ dossier \in Dossier /\ dossier.residual = before.residual
      /\ dossier.verdict = before.verdict
  BY <1>1, <1>3 DEF Dossier
<1>5. /\ session' \in Session /\ read' = [read EXCEPT ![c] = None] /\ calls' = calls
      /\ \/ session'.dossier = dossier
         \/ session'.dossier = session.dossier /\ dossier = before
      /\ ~Overwrites(c) => session.dossier = before \/ session.dossier = session'.dossier
  BY <1>1, <1>2, <1>4, SavedSession DEF dossier
<1>6. TalkTypeOK'
  <2>1. worst' \in Band
    BY <1>1, <1>2, FloorBands, HarsherBands
  <2> QED
    BY <1>1, <1>5, <2>1 DEF RecordFinding, TalkTypeOK
\* Short of the window, the dossier is written with the finding added to it.
<1>7. ASSUME ~lost'
      PROVE  /\ ~lost /\ session'.dossier = dossier
             /\ dossier.findings = Append(before.findings, severity)
             /\ session.dossier = before \/ session.dossier = session'.dossier
  <2>1. ~lost /\ ~Overwrites(c) /\ Len(before.findings) # Window
    BY <1>1, <1>7 DEF RecordFinding, TalkTypeOK
  <2>2. Len(before.findings) \in Nat /\ before.findings \in Seq(Severity)
    BY <1>1 DEF Dossier
  <2>3. Len(before.findings) < Window
    BY <2>1, <2>2, ConversationConstants DEF TalkInv, WindowInv
  <2>4. dossier.findings = Append(before.findings, severity)
    BY <1>3, <2>3
  <2>5. Len(dossier.findings) = Len(before.findings) + 1
    BY <2>2, <2>4, AppendProperties
  <2>6. dossier # before
    BY <2>2, <2>5
  <2> QED
    BY <1>5, <2>1, <2>4, <2>6
<1>8. WindowInv'
  BY <1>1, <1>3, <1>5, <1>7 DEF TalkInv, WindowInv, TalkTypeOK
<1>9. WorstInv'
  <2> SUFFICES ASSUME ~lost'
               PROVE  Rank(worst', Bands) <= Rank(WorstOf(dossier.findings), Bands)
    BY <1>7 DEF WorstInv
  <2>1. Rank(Floor[severity], Bands) <= Rank(WorstOf(dossier.findings), Bands)
    BY <1>3, WorstOfEach
  <2>2. Rank(worst, Bands) <= Rank(WorstOf(session.dossier.findings), Bands)
    BY <1>7 DEF TalkInv, WorstInv
  <2>3. before.findings \in Seq(Severity) /\ session.dossier.findings \in Seq(Severity)
    BY <1>1 DEF Dossier
  <2>4. Range(before.findings) \subseteq Range(dossier.findings)
    BY <1>7, <2>3, AppendProperties DEF Range
  <2>5. Rank(WorstOf(session.dossier.findings), Bands) <= Rank(WorstOf(dossier.findings), Bands)
    BY <1>3, <1>7, <2>3, <2>4, WorstOfMore
  <2>6. /\ WorstOf(dossier.findings) \in Band /\ WorstOf(session.dossier.findings) \in Band
        /\ Floor[severity] \in Band
    BY <1>3, <2>3, MarkedFindings, FloorBands
  <2>7. Rank(worst, Bands) <= Rank(WorstOf(dossier.findings), Bands)
    BY <1>1, <2>2, <2>5, <2>6, BandRanks
  <2> QED
    BY <1>1, <1>2, <2>1, <2>6, <2>7, HarsherBands
<1>10. StandInv'
  <2> SUFFICES ASSUME ~rewritten', session'.dossier.verdict # None
               PROVE  session'.dossier.residual = session'.dossier.verdict
    BY DEF StandInv
  <2>1. ~rewritten /\ ~Overwrites(c)
    BY <1>1 DEF RecordFinding, TalkTypeOK
  <2>2. /\ session'.dossier.residual = session.dossier.residual
        /\ session'.dossier.verdict = session.dossier.verdict
    BY <1>4, <1>5, <2>1
  <2> QED
    BY <2>1, <2>2 DEF TalkInv, StandInv
<1> QED
  BY <1>6, <1>8, <1>9, <1>10 DEF TalkInv

\* A verdict computed from what the session holds is the one it gets.
LEMMA ConcludedSession ==
    ASSUME TalkInv, NEW c \in Call, read[c] # None, ComputeVerdict(c)
    PROVE  /\ session' \in Session /\ read' = [read EXCEPT ![c] = None] /\ calls' = calls
           /\ read[c].dossier \in Dossier /\ session.dossier \in Dossier
           /\ \/ session'.dossier = Concluded(read[c].dossier)
              \/ session'.dossier = session.dossier
           /\ ~Overwrites(c) => session'.dossier.findings = session.dossier.findings
           /\ ~Overtaken(c) => session'.dossier = Concluded(session.dossier)
<1> DEFINE dossier == Concluded(read[c].dossier)
<1>1. /\ TalkTypeOK /\ read[c] \in Session /\ read[c].dossier \in Dossier
      /\ read[c].stage \in 0 .. LastStage /\ session.dossier \in Dossier
  BY DEF TalkInv, TalkTypeOK, Session
<1>2. dossier \in Dossier /\ dossier.findings = read[c].dossier.findings
  BY <1>1, VerdictBands
<1>3. /\ session' \in Session /\ read' = [read EXCEPT ![c] = None] /\ calls' = calls
      /\ \/ session'.dossier = dossier
         \/ session'.dossier = session.dossier /\ dossier = read[c].dossier
      /\ ~Overwrites(c) =>
           session.dossier = read[c].dossier \/ session.dossier = session'.dossier
  BY <1>1, <1>2, SavedSession DEF ComputeVerdict
<1>4. ~Overtaken(c) => session'.dossier = Concluded(session.dossier)
  BY <1>3 DEF Overtaken
<1> QED
  BY <1>1, <1>2, <1>3, <1>4

LEMMA ConcludeKeepsTalk ==
    ASSUME TalkInv, NEW c \in Call, read[c] # None, ComputeVerdict(c)
    PROVE  TalkInv'
<1>1. TalkTypeOK'
  BY ConcludedSession DEF ComputeVerdict, TalkInv, TalkTypeOK, Overtaken
<1>2. ASSUME ~lost'
      PROVE  ~lost /\ session'.dossier.findings = session.dossier.findings
  BY <1>2, ConcludedSession DEF ComputeVerdict, TalkInv, TalkTypeOK
<1>3. WindowInv'
  BY <1>2, ConcludedSession DEF TalkInv, WindowInv, TalkTypeOK
<1>4. WorstInv'
  BY <1>2 DEF TalkInv, WorstInv, ComputeVerdict
<1>5. StandInv'
  <2> SUFFICES ASSUME ~rewritten'
               PROVE  session'.dossier.residual = session'.dossier.verdict
    BY DEF StandInv
  <2>1. ~Overtaken(c)
    BY DEF ComputeVerdict
  <2> QED
    BY <2>1, ConcludedSession, VerdictBands
<1> QED
  BY <1>1, <1>3, <1>4, <1>5 DEF TalkInv

LEMMA NextTalk == TalkInv /\ [Talk]_talk => TalkInv'
<1> SUFFICES ASSUME TalkInv, [Talk]_talk
             PROVE  TalkInv'
  OBVIOUS
<1>1. CASE UNCHANGED talk
  BY <1>1 DEF talk, TalkInv, TalkTypeOK, WindowInv, WorstInv, StandInv
<1>2. ASSUME NEW c \in Call, Read(c)
      PROVE  TalkInv'
  <2>1. TalkTypeOK'
    BY <1>2, ConversationConstants DEF Read, TalkInv, TalkTypeOK
  <2>2. WindowInv'
    BY <1>2 DEF Read, TalkInv, TalkTypeOK, WindowInv
  <2>3. WorstInv' /\ StandInv'
    BY <1>2 DEF Read, TalkInv, WorstInv, StandInv
  <2> QED
    BY <2>1, <2>2, <2>3 DEF TalkInv
<1>3. ASSUME NEW c \in Call, read[c] # None, SetStage(c)
      PROVE  TalkInv'
  <2>1. /\ session' \in Session /\ session'.dossier = session.dossier
        /\ read' = [read EXCEPT ![c] = None]
    BY <1>3 DEF SetStage, TalkInv, TalkTypeOK, Session
  <2>2. TalkTypeOK'
    BY <1>3, <2>1 DEF SetStage, TalkInv, TalkTypeOK
  <2>3. WindowInv'
    BY <1>3, <2>1 DEF SetStage, TalkInv, TalkTypeOK, WindowInv
  <2>4. WorstInv' /\ StandInv'
    BY <1>3, <2>1 DEF SetStage, TalkInv, WorstInv, StandInv
  <2> QED
    BY <2>2, <2>3, <2>4 DEF TalkInv
<1>4. ASSUME NEW c \in Call, read[c] # None, UpdateDossier(c)
      PROVE  TalkInv'
  <2>1. read[c].stage \in 0 .. LastStage
    BY <1>4 DEF TalkInv, TalkTypeOK, Session
  <2> QED
    BY <1>4, <2>1, MergeKeepsTalk DEF UpdateDossier
<1>5. ASSUME NEW c \in Call, read[c] # None, Turn(c)
      PROVE  TalkInv'
  <2>1. read[c].stage \in 0 .. LastStage
    BY <1>5 DEF TalkInv, TalkTypeOK, Session
  <2>2. PICK facts \in Facts, stage \in {read[c].stage, read[c].stage + 1} \ {LastStage + 1} :
          Merge(c, facts, stage)
    BY <1>5 DEF Turn
  <2>3. stage \in 0 .. LastStage
    BY <2>1, ConversationConstants
  <2> QED
    BY <1>5, <2>2, <2>3, MergeKeepsTalk
<1> QED
  BY <1>1, <1>2, <1>3, <1>4, <1>5, RecordKeepsTalk, ConcludeKeepsTalk DEF Talk, Finish

------------------------------------------------------------------------------
(* Assessments.                                                            *)

AnswersInv == answers \in Irq \cup {None} /\ found \in Band \cup {None}

ReportInv ==
    assessment # None =>
        \E band \in Band, ddq \in Ddq \cup {None}, extracted \in SUBSET Extract :
            assessment = Assessment(band, ddq, extracted)

AssessingInv == EngagementInv /\ TalkInv /\ AnswersInv /\ ReportInv

LEMMA AssessmentReport ==
    ASSUME NEW band \in Band, NEW ddq \in Ddq \cup {None}, NEW extracted \in SUBSET Extract
    PROVE  Assessment(band, ddq, extracted) \in Reports
<1>1. ResidualOf(band, ddq) \in Band
  BY ResidualCovers DEF ResidualOf
<1>2. \A residual, gaps : Recommendation(residual, gaps) \in Range(Recommendations)
  BY RecommendationRanks DEF Recommendation
<1> QED
  BY <1>1, <1>2 DEF Assessment, Reports

LEMMA InitAssessing == Start => AssessingInv
BY InitEngagement, InitTalk, QuestionnairesAreAnswers
DEF Start, AssessingInv, AnswersInv, ReportInv

LEMMA NextAssessing == AssessingInv /\ [Step]_<<vars, talk, assessing>> => AssessingInv'
<1> SUFFICES ASSUME AssessingInv, [Step]_<<vars, talk, assessing>>
             PROVE  AssessingInv'
  OBVIOUS
<1>1. ASSUME [Next]_vars, [Talk]_talk
      PROVE  EngagementInv' /\ TalkInv'
  BY <1>1, NextEngagement, NextTalk DEF AssessingInv
<1>2. ASSUME UNCHANGED assessing
      PROVE  AnswersInv' /\ ReportInv'
  BY <1>2 DEF assessing, AssessingInv, AnswersInv, ReportInv
<1>3. CASE ScoreAnswers
  <2>1. Found(answers) \in Band
    <3>1. Mildest \in Irq
      BY ServiceRanks, SupplyRanks DEF Mildest, Irq
    <3> QED
      BY <3>1, InherentBand DEF Found, AssessingInv, AnswersInv
  <2>2. AnswersInv' /\ ReportInv'
    BY <1>3, <2>1 DEF ScoreAnswers, AssessingInv, AnswersInv, ReportInv
  <2> QED
    BY <1>1, <1>3, <2>2 DEF ScoreAnswers, AssessingInv
<1>4. CASE Assess
  <2>1. found \in Band
    BY <1>4 DEF Assess, AssessingInv, AnswersInv
  <2>2. AnswersInv' /\ ReportInv'
    BY <1>4, <2>1 DEF Assess, AssessingInv, AnswersInv, ReportInv
  <2> QED
    BY <1>1, <1>4, <2>2 DEF Assess, AssessingInv
<1>5. CASE Engage
  BY <1>1, <1>2, <1>5 DEF Engage, AssessingInv
<1>6. CASE Converse
  BY <1>1, <1>2, <1>6 DEF Converse, AssessingInv
<1>7. CASE UNCHANGED <<vars, talk, assessing>>
  BY <1>1, <1>2, <1>7 DEF AssessingInv
<1> QED
  BY <1>3, <1>4, <1>5, <1>6, <1>7 DEF Step

\* The inductive invariant of the three ways to a verdict, for any questionnaire
\* answers, control questions, requests and calls in flight, and any bounds.
THEOREM AssessingInvariant == Assessing => []AssessingInv
BY InitAssessing, NextAssessing, PTL DEF Assessing

\* Rows, dossiers and reports keep their types, and no more sets of offboarding
\* steps are created than there were requests.
THEOREM AssessingType == Assessing => []Typed
<1>1. AssessingInv => Typed
  <2>1. AssessingInv => TypeOK /\ TalkTypeOK
    BY EngagementInvImplies DEF AssessingInv, TalkInv
  <2>2. AssessingInv => assessment \in Reports \cup {None}
    BY AssessmentReport DEF AssessingInv, ReportInv
  <2> QED
    BY <2>1, <2>2 DEF AssessingInv, AnswersInv, Typed
<1> QED
  BY <1>1, AssessingInvariant, PTL

\* A standing decision is no milder than the inherent band calls for, however many
\* requests there were, unless they overlapped since the answers came in.
THEOREM AssessingCoversInherent == Assessing => []DecisionCoversInherent
<1>1. AssessingInv => DecisionCoversInherent
  BY DEF AssessingInv, EngagementInv
<1> QED
  BY <1>1, AssessingInvariant, PTL

\* A decision or a contract has its residual band and its decision, however the
\* columns of overlapping requests were mixed.
THEOREM AssessingContracts == Assessing => []ContractHasVerdict
<1>1. AssessingInv => ContractHasVerdict
  BY EngagementInvImplies DEF AssessingInv
<1> QED
  BY <1>1, AssessingInvariant, PTL

\* Whatever answers were given, a worse answer to one question never makes band,
\* tier, route or scope milder.
THEOREM AssessingWorseAnswers == Assessing => []WorseAnswersNeverEase
<1>1. AssessingInv => WorseAnswersNeverEase
  <2> SUFFICES ASSUME answers \in Irq, NEW worse \in Worse(answers)
               PROVE  /\ Rank(Inherent(worse), Bands) >= Rank(Inherent(answers), Bands)
                      /\ Tier(worse) <= Tier(answers)
                      /\ Rank(Route(worse), Routes) >= Rank(Route(answers), Routes)
                      /\ Exposed(answers) \subseteq Exposed(worse)
    BY DEF AssessingInv, AnswersInv, WorseAnswersNeverEase
  <2>1. worse \in Irq /\ NoMilder(worse, answers)
    BY WorseIsNoMilder
  <2>2. Rank(Inherent(worse), Bands) >= Rank(Inherent(answers), Bands)
    BY <2>1, InherentNeverEases, BandRanks
  <2>3. Rank(Route(worse), Routes) >= Rank(Route(answers), Routes)
    BY <2>1, RouteNeverEases, RouteRanks
  <2> QED
    BY <2>1, <2>2, <2>3, TierNeverEases, ExposedNeverEases
<1> QED
  BY <1>1, AssessingInvariant, PTL

LEMMA DeficientReport ==
    ASSUME NEW band \in Band, NEW ddq \in Ddq, NEW extracted \in SUBSET Extract,
           NEW c \in Given(ddq, "COMPLIANT"), NEW answer \in Answer
    PROVE  LET before == Assessment(band, ddq, extracted)
               after == Assessment(band, [ddq EXCEPT ![c] = answer], extracted)
           IN  /\ Rank(before.residual, Bands) >= Rank(band, Bands)
               /\ Rank(after.residual, Bands) >= Rank(before.residual, Bands)
               /\ Rank(DecisionFor(after.residual), Decisions)
                     >= Rank(DecisionFor(before.residual), Decisions)
               /\ Rank(after.recommendation, Recommendations)
                     >= Rank(before.recommendation, Recommendations)
<1> DEFINE worse == [ddq EXCEPT ![c] = answer]
           residual == Residual(band, ddq)
           harsher == Residual(band, worse)
<1>1. worse \in Ddq /\ NoBetter(worse, ddq)
  BY DEF Ddq, Given, NoBetter
<1>2. ddq # None /\ worse # None
  BY <1>1, NothingSupplied
<1>3. /\ residual \in Band /\ harsher \in Band
      /\ Rank(band, Bands) <= Rank(residual, Bands)
      /\ Rank(residual, Bands) <= Rank(harsher, Bands)
  BY <1>1, ResidualNeverEases
<1>4. \A b \in Band : Rank(b, Bands) \in 1..4
  BY BandRanks
<1>5. residual = "HIGH" => harsher = "HIGH"
  BY <1>3, BandRanks
<1>6. Gaps(band, ddq, extracted) = Gaps(band, worse, extracted)
  BY <1>2 DEF Gaps
<1> HIDE DEF residual, harsher, worse
<1>7. /\ Assessment(band, ddq, extracted).residual = residual
      /\ Assessment(band, worse, extracted).residual = harsher
      /\ Assessment(band, ddq, extracted).recommendation
            = Recommendation(residual, Gaps(band, ddq, extracted))
      /\ Assessment(band, worse, extracted).recommendation
            = Recommendation(harsher, Gaps(band, ddq, extracted))
  BY <1>2, <1>6 DEF Assessment, ResidualOf, residual, harsher
<1>8. Rank(Recommendation(harsher, Gaps(band, ddq, extracted)), Recommendations)
        >= Rank(Recommendation(residual, Gaps(band, ddq, extracted)), Recommendations)
  BY <1>5, RecommendationRanks DEF Recommendation
<1>9. Rank(DecisionFor(harsher), Decisions) >= Rank(DecisionFor(residual), Decisions)
  BY <1>3, <1>4, DecisionRanks
<1> QED
  BY <1>3, <1>4, <1>7, <1>8, <1>9 DEF worse

\* A deficient control never makes residual band, decision or recommendation milder,
\* for any number of controls, critical or not.
THEOREM AssessingDeficiency == Assessing => []DeficiencyNeverEases
<1>1. AssessingInv => DeficiencyNeverEases
  <2> SUFFICES ASSUME ReportInv, assessment # None, assessment.controls # None
               PROVE  DeficiencyNeverEases
    BY DEF AssessingInv, DeficiencyNeverEases
  <2>1. PICK band \in Band, ddq \in Ddq \cup {None}, extracted \in SUBSET Extract :
          assessment = Assessment(band, ddq, extracted)
    BY DEF ReportInv
  <2>2. /\ assessment.inherent = band /\ assessment.controls = ddq
        /\ assessment.extracted = extracted
    BY <2>1 DEF Assessment
  <2>3. ddq \in Ddq
    BY <2>2
  <2>4. Rank(assessment.residual, Bands) >= Rank(band, Bands)
    <3>1. assessment.residual = Residual(band, ddq)
      BY <2>1, <2>2 DEF Assessment, ResidualOf
    <3> QED
      BY <3>1, ResidualCovers, BandRanks
  <2> QED
    BY <2>1, <2>2, <2>3, <2>4, DeficientReport DEF DeficiencyNeverEases
<1> QED
  BY <1>1, AssessingInvariant, PTL

\* A verdict covers the worst finding recorded while nothing was lost, in a
\* conversation with any number of calls in flight and any window.
THEOREM AssessingCoversFindings == Assessing => VerdictCoversFindings
<1> DEFINE Covered ==
      \A c \in Call :
         read[c] # None /\ ComputeVerdict(c) /\ ~Overtaken(c) /\ ~lost =>
             Rank(session'.dossier.verdict, Bands) >= Rank(worst, Bands)
<1>1. AssessingInv => Covered
  <2> SUFFICES ASSUME TalkInv, NEW c \in Call, read[c] # None, ComputeVerdict(c),
                      ~Overtaken(c), ~lost
               PROVE  Rank(session'.dossier.verdict, Bands) >= Rank(worst, Bands)
    BY DEF AssessingInv
  <2>1. session.dossier \in Dossier /\ worst \in Band
    BY DEF TalkInv, TalkTypeOK, Session
  <2>2. session'.dossier.verdict = Verdict(session.dossier)
    BY <2>1, ConcludedSession, VerdictBands
  <2>3. WorstOf(session.dossier.findings) \in Band /\ Verdict(session.dossier) \in Band
    BY <2>1, MarkedFindings, VerdictBands DEF Dossier
  <2>4. \A b \in Band : Rank(b, Bands) \in 1..4
    BY BandRanks
  <2> QED
    BY <2>1, <2>2, <2>3, <2>4, VerdictBands DEF TalkInv, WorstInv
<1>2. AssessingInv => [Covered]_talk
  BY <1>1
<1> QED
  BY <1>2, AssessingInvariant, PTL DEF VerdictCoversFindings

\* A later verdict is no milder than the one before it, while the dossier was not
\* overwritten and no agent set its residual band.
THEOREM AssessingVerdictStands == Assessing => VerdictStands
<1> DEFINE Stands ==
      \A c \in Call :
         /\ read[c] # None /\ ComputeVerdict(c) /\ ~Overtaken(c)
         /\ ~rewritten /\ session.dossier.verdict # None
         =>
             Rank(session'.dossier.verdict, Bands) >= Rank(session.dossier.verdict, Bands)
<1>1. AssessingInv => Stands
  <2> SUFFICES ASSUME TalkInv, NEW c \in Call, read[c] # None, ComputeVerdict(c),
                      ~Overtaken(c), ~rewritten, session.dossier.verdict # None
               PROVE  Rank(session'.dossier.verdict, Bands)
                        >= Rank(session.dossier.verdict, Bands)
    BY DEF AssessingInv
  <2>1. session.dossier \in Dossier /\ session.dossier.verdict \in Band
    BY DEF TalkInv, TalkTypeOK, Session, Dossier
  <2>2. session'.dossier.verdict = Verdict(session.dossier) /\ Verdict(session.dossier) \in Band
    BY <2>1, ConcludedSession, VerdictBands
  <2>3. \A b \in Band : Rank(b, Bands) \in 1..4
    BY BandRanks
  <2> QED
    BY <2>1, <2>2, <2>3, VerdictBands DEF TalkInv, StandInv
<1>2. AssessingInv => [Stands]_talk
  BY <1>1
<1> QED
  BY <1>2, AssessingInvariant, PTL DEF VerdictStands
==============================================================================
