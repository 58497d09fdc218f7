CONSTANTS
    Events = {e1, e2, bad}
    Malformed = {bad}
    BatchSize = 2
    MaxAttempts = 2
    MaxLog = 3
    MaxBoots = 2
SPECIFICATION FairSpec
INVARIANTS
    NoSilentLoss
    
PROPERTIES
    FetchedIsConcluded
CHECK_DEADLOCK FALSE
