\* A watch is serialized deeper than it was captured.
SPECIFICATION MCSpec
CONSTANTS
    x = x
    y = y
    z = z
    w = w
    block = block
    local = local
    caller = caller
    NoValue = NoValue
    Object <- MCObjects
    Array <- MCArrays
    Function <- MCFunctions
    Identity <- MCIdentity
    Heaps <- MCHeaps
    FrameScopes <- MCFrameScopes
    Scalar = Scalar
    Scope = {block, local, caller}
    Key <- MCKeys
    Redactions <- MCRedactions
    WatchPaths <- MCWatchPaths
    Depths = {1, 2}
    MaxArray = 1
    MaxProps = 2
    Budgets = {2, 5, 8}
    NumEvents = 6
    Probe <- FourProbes
    ProbeOf <- OwnProbe
    Size <- MixedSize
    MaxBytes = 4
    ByteBudget = 4
    MaxSplits = 2
    MaxFailures = 1
CHECK_DEADLOCK FALSE
INVARIANT WatchIsTruthful
