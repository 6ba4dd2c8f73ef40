SPECIFICATION UpkeepSpec
CONSTANTS
    Instances = {a, b}
    Writer = a
    SharedDir = FALSE
    BatchSize = 3
    MaxRows = 3
    MaxSeconds = 2
    MaxCrashes = 1
    Backends = {"postgres", "turso", "surrealdb", "clickhouse"}
    Threshold = 1
    Cooldown = 2
    NotifyRecovery = TRUE
    MaxTime = 5
    MaxOutcomes = 6
\* The clocks, the row count and the number of storage operations are bounded:
\* behaviours end there.
CHECK_DEADLOCK FALSE
INVARIANTS
    PurgedWereArchived
    ProtectedWhenQuiet
    AlertsSpaced
    RecoveriesMatchOutages
    LongOutagesAlerted
