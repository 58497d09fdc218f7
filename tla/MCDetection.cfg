CONSTANTS
    None = None
    Bundled = {"brute"}
    SigmaFiles = {"site"}
    Builtin = {"sqli"}
    Extra = {"custom"}
    IocRule = "ioc"
    Samples = {"demo"}
    Listed = {"bad"}
    Severity <- SampleSeverity
    Events <- SampleEvents
    MaxEvents = 2
    MaxChanges = 1
    Fields = {"image", "command"}
    Patterns = {"p", "q"}
    Absent = Absent
    Names = {"selection", "filter"}
    Conditions <- SampleConditions
    MaxSize = 2
SPECIFICATION LayerSpec

    
    
PROPERTIES
    NothingMissed
