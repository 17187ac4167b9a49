SPECIFICATION Spec
CONSTANTS
    p1 = p1
    p2 = p2
    svc = svc
    a1 = a1
    a2 = a2
    i1 = i1
    i2 = i2
    b1 = b1
    b2 = b2
    Service <- OneService
    SvcOf <- MCSvcOf
    InstSvc <- MCInstSvc
    Probe <- TwoProbes
    Agent <- TwoAgents
    InstanceId <- OneInstance
    Build <- OneBuild
    Ttl <- MCTtl
    Store = "postgres"
    CanRestart = FALSE
    StatusKinds <- Suspended
    Grace = 2
    MaxClock = 3
    MaxVersion = 3
    MaxIngest = 1
SYMMETRY Agents
INVARIANTS
    NoCollateralLoss
    OneOwner
