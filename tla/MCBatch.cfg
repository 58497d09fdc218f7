CONSTANTS
    r1 = r1
    r2 = r2
    r3 = r3
    r4 = r4
    Requests <- MCRequests
    Batches <- MCBatches
    ErrorTypes = {bad}
    MaxConcurrency = 2
    MaxAttempts = 1
    MaxBuffer = 1
    MaxQueueSize = 2
    MaxRate = 3
    Window = 1
    MaxCount = 1
    MaxTime = 1
SPECIFICATION FairBatchSpec
INVARIANTS
    ReportTruthful
PROPERTIES
    PipelineSpec
    BatchAnswered
CHECK_DEADLOCK FALSE
