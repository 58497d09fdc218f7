CONSTANTS
    Tasks = {t1, t2}
    Calls = {c1, c2, c3}
    None = None
    MaxRetries = 1
    MaxAttempts = 1
    MaxRaises = 0
    Overlap = TRUE
SYMMETRY Symmetry
SPECIFICATION Spec
INVARIANT WithinBudget
CHECK_DEADLOCK FALSE
