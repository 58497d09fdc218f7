CONSTANTS
    Executions = {e1, e2, e3}
    Tasks = {t1, t2}
    None = None
    Overlap = TRUE
SPECIFICATION FairSpec
INVARIANTS
    Consistent
PROPERTIES
    RecordsAreFinal
    ExecutionsEnd
CHECK_DEADLOCK FALSE
