CONSTANTS
    Callers = {c1, c2, c3, c4}
    FailureThreshold = 2
    MaxAttempts = 2
    Errors = {"retryable", "other"}
SPECIFICATION FairSpec
INVARIANTS
    ProbeHasCaller
PROPERTIES
    OnlyStragglersInterfere
    ProbesKeepComing
    CallsEnd
CHECK_DEADLOCK FALSE
