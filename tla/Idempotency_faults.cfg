SPECIFICATION Spec
CONSTANTS
    r1 = r1
    r2 = r2
    r3 = r3
    Request = {r1, r2, r3}
    Body = {"acme", "acme corrected"}
    None = None
    Conflict = "409"
    Error = "500"
    Crashes = TRUE
    DbErrors = TRUE
    PartialWork = FALSE
    MaxEffects = 3
CHECK_DEADLOCK FALSE
INVARIANTS AtMostOneVendor
PROPERTIES ImplementsOnce
