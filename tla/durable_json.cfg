SPECIFICATION SweepSpec
CONSTANTS
    p1 = p1
    p2 = p2
    p3 = p3
    svc = svc
    svc2 = svc2
    a1 = a1
    a2 = a2
    NoProbe = NoProbe
    Probe <- MCProbe
    Service <- MCService
    SvcOf <- MCSvcOf
    Ttl <- MCTtl
    RingCapacity = 2
    AgentSvc <- MCAgentSvc
    Agent <- MCAgent
    Store = "json"
    CanFail = TRUE
    CanCrash = TRUE
    MapServices <- NoService
    ReportKinds <- ArmedAndError
    MaxClock = 3
    MaxReports = 2
    MaxVersion = 4
INVARIANTS
    IdleInSync
    AckedSurvives
    EventsDurable
PROPERTIES
    VersionMonotonicWhenIdle
    EventuallyExpired
