SPECIFICATION LiveSpec
CONSTANTS
    p1 = p1
    p2 = p2
    svc = svc
    a1 = a1
    a2 = a2
    i1 = i1
    i2 = i2
    b1 = b1
    b2 = b2
    Service <- OneService
    SvcOf <- MCSvcOf
    InstSvc <- MCInstSvc
    Probe <- OneProbe
    Agent <- OneAgent
    InstanceId <- TwoInstances
    Build <- OneBuild
    Ttl <- LongTtl
    Store = "json"
    CanRestart = TRUE
    StatusKinds <- AnyStatus
    Grace = 2
    MaxClock = 3
    MaxVersion = 5
    MaxIngest = 2
INVARIANTS
    AssignmentsCoherent
    EndedExactly
PROPERTIES
    AssignmentsConverge
