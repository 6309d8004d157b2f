SPECIFICATION FairSpec
CONSTANTS
    t1 = t1
    t2 = t2
    t3 = t3
    Thread = {t1, t2, t3}
    Threshold = 2
    Cooldown = 2
INVARIANTS TrippedIffFailing OneProbeAtATime
PROPERTIES ClosesAfterRecovery
