CONSTANTS
    c1 = c1
    Callers = {c1}
    MaxRetries = 1
    Configs <- MCConfigs
SPECIFICATION Spec
INVARIANTS
    PostureAsConfigured
    ReadyMeansPublished
    ReadyIsTrue
    InFlightSeesOpenPool
PROPERTIES
    AskedIsAnswered
    ShutdownCompletes
CHECK_DEADLOCK FALSE
