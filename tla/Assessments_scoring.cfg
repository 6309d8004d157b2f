SPECIFICATION Assessing
CONSTANTS
    k1 = k1
    k2 = k2
    k3 = k3
    k4 = k4
    Control = {k1, k2, k3, k4}
    Critical = {k1}
    r1 = r1
    r2 = r2
    Request = {r1, r2}
    Irqs <- SampleIrqs
    Ddqs <- SampleDdqs
    Questionnaires <- AllIrqs
    c1 = c1
    c2 = c2
    Call = {c1, c2}
    Facts <- SampleFacts
    LastStage = 1
    Window = 2
    MaxCalls = 5
    None = None
    MaxRequests = 5
SYMMETRY Symmetry
INVARIANTS Typed DecisionCoversInherent ContractHasVerdict WorseAnswersNeverEase DeficiencyNeverEases
PROPERTIES VerdictCoversFindings VerdictStands
CHECK_DEADLOCK FALSE
