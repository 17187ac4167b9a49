\* Two requests wait at the broker for events of two probes; or one tool is
\* called at a time, one of each way a tool uses the broker.
SPECIFICATION MCLiveSpec
CONSTANTS
    Probe = {p1, p2}
    Request = {r1, r2}
    NoSet = NoSet
    RingCapacity = 2
    ToolCall = {call}
    Tool = {"set_log_probe", "get_probe_data", "list_probes", "list_services", "create_project", "remove_probe"}
    RequestTimeout = 2
    MaxWait = 3
CHECK_DEADLOCK FALSE
INVARIANTS
    NoLostWakeup
    ListenersExact
    NobodyWaitsForDeleted
    DoneExactlyOnce
    LateEffectsAreRetryable
PROPERTIES
    EveryRequestAnswered
    EveryCallAnswered
