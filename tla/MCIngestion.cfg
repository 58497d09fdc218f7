CONSTANTS
    Requests = {r1, r2, r3}
    ErrorTypes = {bad}
    MaxAttempts = 2
    MaxBuffer = 2
    MaxQueueSize = 2
    MaxRate = 2
    Window = 1
    MaxCount = 1
    MaxTime = 2
SPECIFICATION Spec
INVARIANTS
    BooksBalance
    WindowRespected
    
PROPERTIES
    PoolSpec
CHECK_DEADLOCK FALSE
