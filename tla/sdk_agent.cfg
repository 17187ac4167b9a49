\* Two probes that share breakpoints; three events for a buffer of two; or
\* two agents of the same commit, or of two of which one is retained, with a lease
\* of one unit and two questions for the code's six and ten.
SPECIFICATION MCLiveSpec
CONSTANTS
    pp = pp
    qq = qq
    p1 = p1
    p2 = p2
    q1 = q1
    q2 = q2
    s1 = s1
    s2 = s2
    None = None
    NoOne = NoOne
    uu = uu
    vv = vv
    c1 = c1
    c2 = c2
    Uploader = {uu, vv}
    Commit = {c1, c2}
    Deployments <- MCDeployments
    Files <- MCFiles
    Retained = 1
    LeaseUnits = 1
    WaitAttempts = 2
    ErrorAttempts = 2
    Patience = 1
    MaxErrors = 1
    Probes = {pp, qq}
    Defs = {p1, p2, q1, q2}
    Def <- MCDef
    Feeds <- MCFeeds
    Scripts = {s1, s2}
    PathLen <- MCPathLen
    Positions = {1, 2, 3}
    Snap <- MCSnap
    NoCode = {3}
    Rate = 1
    MaxCaptures = 2
    MaxStuck = 1
    ScriptsDuringReconcile = FALSE
    NumEvents = 3
    Probe <- Event
    ProbeOf <- OwnProbe
    Size <- UnitSize
    MaxBytes = 2
    ByteBudget = 2
    MaxSplits = 1
    MaxFailures = 1
CHECK_DEADLOCK FALSE
INVARIANTS
    InstalledHasBreakpoint
    NoOrphanBreakpoint
    HitLimitKept
    NotMixed
    CompleteIsWhole
PROPERTIES
    EventuallyDetached
    EventuallySettled
    EventuallyComplete
