SPECIFICATION Spec
CONSTANTS
    t1 = t1
    t2 = t2
    e1 = e1
    ana = ana
    Session = {t1, t2}
    Engagement = {e1}
    User = {ana}
    Band = {"HIGH"}
    None = None
    Cadence <- MCCadence
    MaxAssessments = 2
    MaxDay = 1
CONSTRAINT Narrow
SYMMETRY Symmetry
CHECK_DEADLOCK FALSE
INVARIANT ApprovedHighIsSignedOff
