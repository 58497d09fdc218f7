CONSTANTS
    Subjects = {"router"}
    AgentTypes = {"log", "network", "email"}
    Capabilities = {"parsing", "anomalies", "headers"}
    Instances = {x1, x2}
    NoAgent = NoAgent
    CapabilitiesOf <- Skills
    RoutedEvents <- Arrivals
    RoutedFindings <- FindingArrivals
    CustomRules <- OperatorRules
    RemovedNames = {"network_ids", "ioc_match", "investigation", "all_edr"}
    NoRoute = NoRoute
    MaxAdded = 2
    MaxTasks = 2
    LogTasks <- LogArrivals
    LogKeys = {"k1", "k2"}
    BruteThreshold = 3
    BruteWindow = 1
    RateThreshold = 4
    RateWindow = 1
    BaselineRequests = 2
    AnomalyFactor = 2
    MaxAnalyses = 4
    MaxLogTime = 3
    Flows <- FlowArrivals
    Pairs = {"out", "in"}
    Inner = {"in"}
    Leaving = {"out"}
    Missing = Missing
    Null = Null
    ScanThreshold = 3
    BeaconConnections = 4
    Tolerance = 20
    ExfilThreshold = 6
    MaxFlows = 5
    CorTasks <- CorArrivals
    NoKey = NoKey
    NoTime = NoTime
    SourceThreshold = 2
    TargetThreshold = 3
    CorWindow = 1
    MinChain = 2
    SomeEvents = 2
    ManyEvents = 3
    MaxCorTasks = 3
    MaxCorTime = 2
    Mails <- EmailArrivals
    Cases <- CaseArrivals
    CaseFindings <- CaseFindingArrivals
    NoFindingGiven = NoFindingGiven
    NotANumber = NotANumber
    PlanIncidents <- PlanIncidentArrivals
    PlanFindings <- PlanFindingArrivals
    PlanEvents <- PlanEventArrivals
    NotGiven = NotGiven
    HostLimit = 2
    ResetLimit = 3
    AddressLimit = 1
    Lengthy = 120
    MaxListed = 5
    InvTasks <- InvArrivals
    InvIds = {"i1", "i2", "i3"}
    NoId = NoId
    Unused = Unused
    NoName = NoName
    ManyHigh = 1
    ManyAssets = 3
    MaxInvTasks = 3
    Handlers <- AlertHandlers
    Levels = {1, 4}
    Categories = {"malware"}
    MaxAlerts = 2
    MaxAlertTime = 1
    FindingLists <- CampaignFindings
    TimeWindow = 2
    Proximity = 2
    MinScore = 30
    MaxCorrelations = 3
    ReportTasks <- ReportArrivals
    NullValue = NullValue
    Absent = Absent
    Opaque = Opaque
    FindingLimit = 3
    TimelineLimit = 2
    KeyLimit = 2
    MaxReported = 8
    IntelTasks <- EnrichmentArrivals
    Known <- WhatIsKnown
    Kind <- LooksLike
    NullIndicator = NullIndicator
    OpenCases = {"c1", "c2"}
    StepTemplates <- CaseTemplates
    Exhibits <- CaseExhibits
    Unopened = Unopened
    MaxEvidence = 2
    MaxHypotheses = 1
SPECIFICATION AgentsSpec
INVARIANT PublishedIsTracked
CHECK_DEADLOCK FALSE
