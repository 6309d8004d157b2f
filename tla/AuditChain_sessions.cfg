SPECIFICATION Spec
CONSTANTS
    s1 = s1
    s2 = s2
    s3 = s3
    Session = {s1, s2, s3}
    Actor = {"ana", "bob"}
    Action = {"vendor.created"}
    Erased = "ERASED"
    Nobody = Nobody
    SerialWriters = TRUE
    AuditOnlyHandlers = FALSE
    Window = 1
    MaxRows = 3
SYMMETRY SessionSymmetry
INVARIANTS TypeOK ChainIntact WindowIsNewestRows BreaksAreRewrites
