SPECIFICATION Spec
CONSTANTS
    t1 = t1
    t2 = t2
    e1 = e1
    Session = {t1, t2}
    Engagement = {e1}
    None = None
    MaxId = 2
SYMMETRY Symmetry
CHECK_DEADLOCK FALSE
INVARIANTS NeverOvercounts CounterCoversIds
