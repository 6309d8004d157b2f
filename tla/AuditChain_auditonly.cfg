SPECIFICATION Spec
CONSTANTS
    s1 = s1
    s2 = s2
    Session = {s1, s2}
    Actor = {"ana", "bob"}
    Action = {"vendor.created"}
    Erased = "ERASED"
    Nobody = Nobody
    SerialWriters = TRUE
    AuditOnlyHandlers = TRUE
    Window = 2
    MaxRows = 4
INVARIANTS ChainIntact
