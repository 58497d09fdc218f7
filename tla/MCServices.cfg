CONSTANTS
    Holders = {h1, h2}
    Free = Free
    LeaseTime = 2
    MaxAcquires = 2
    Requests = {r1, r2, r3, r4}
    Limit = 1
    Window = 2
    MaxDelay = 1
    MaxNow = 4
    Coroutines = {b1, b2, b3}
    Producers = {p1, p2, p3, p4}
    Nothing = Nothing
    Attempts = 2
    Analysts = {a1, a2}
    Indicators = {i1}
    Uncached = Uncached
    NoResult = NoResult
    Raises = Raises
    Opinions = {0, 1, 3}
    MaxProviders = 2
    MaxLookups = 3
    IncidentIds = {n1}
    Never = Never
    MaxMinutes = 2
    MaxEntries = 4
    Runs = {e1, e2}
    MaxRecords = 3
    Clients = {c1}
    Rate = 1
    Capacity = 2
    Timeout = 2
    MaxAsk = 3
    MaxTime = 5
    Callers = {c1, c2}
    FailureThreshold = 2
    RecoveryTimeout = 2
    HalfOpenRequests = 2
    MaxStreak = 3
    Keys = {k1, k2, k3}
    CacheSize = 2
    MaxOrder = 4
    Borrowers = {c1, c2, c3}
    Addresses = {d1, d2, d3, d4}
    NoConn = NoConn
    PoolSize = 2
SPECIFICATION ServicesSpec
INVARIANTS
    ServicesConsistent
    LeasesExclude
    LimitHoldsLessDelay
    
    
    WindowBounded
PROPERTIES
    OnlyOwnRelease
    StrongestIsTold
    EveryoneEnds
    LendingSpec
    TripsOnStreaks
    RecoversWhenHealthy
CHECK_DEADLOCK FALSE
