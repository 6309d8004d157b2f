SPECIFICATION WatchSpec
CONSTANTS
    t1 = t1
    t2 = t2
    Session = {t1, t2}
    e1 = e1
    Engagement = {e1}
    Raised = {}
    k1 = k1
    Contract = {k1}
    Inputs <- Lowest
    Unscored = Unscored
    None = None
    Absent = Absent
    d1 = d1
    d2 = d2
    Desk = {d1, d2}
    stress = stress
    Criterion = {stress}
    StressFlag = {stress}
    MaxEntries = 1
    MaxCandidates = 2
SYMMETRY Symmetry
CONSTRAINT Apart
INVARIANTS WatchTypeOK CriticalContractsMarked ApprovedHasEntry RepeatsAreCrossings
PROPERTIES EngineRespectsOverride SweepMissesNothing
