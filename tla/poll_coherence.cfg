SPECIFICATION LiveSpec
CONSTANTS
    p1 = p1
    p2 = p2
    p3 = p3
    svc = svc
    svc2 = svc2
    a1 = a1
    a2 = a2
    NoProbe = NoProbe
    Probe <- MCProbes
    Service <- MCServices
    SvcOf <- MCSvcsOf
    Ttl <- MCTtls
    RingCapacity = 2
    AgentSvc <- MCAgentsSvc
    Agent <- MCAgents
    Store = "json"
    CanFail = FALSE
    CanCrash = FALSE
    MapServices <- MCService
    ReportKinds <- NoKinds
    MaxClock = 3
    MaxReports = 0
    MaxVersion = 4
INVARIANTS
    PollCoherent
PROPERTIES
    ImplementsFeed
    GhostsRemoved
