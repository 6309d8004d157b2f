SPECIFICATION FairSpec
CONSTANTS
    j1 = j1
    j2 = j2
    Job = {j1, j2}
    OnVendor = {j1}
    w1 = w1
    w2 = w2
    Worker = {w1, w2}
    None = None
    Patience = 1
    MaxCrashes = 1
CHECK_DEADLOCK FALSE
INVARIANTS ResearchInv IndicatorsAreTold
PROPERTIES ImplementsBoard RunningEnds
