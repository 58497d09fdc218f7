CONSTANTS
    Tasks = {t1, t2}
    Calls = {c1, c2, c3}
    None = None
    MaxRetries = 1
    MaxAttempts = 1
    MaxRaises = 1
    Overlap = FALSE
SYMMETRY Symmetry
SPECIFICATION Spec
INVARIANTS
    Budgets
    
CHECK_DEADLOCK FALSE
