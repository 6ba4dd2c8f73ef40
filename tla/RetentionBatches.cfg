SPECIFICATION UpkeepSpec
CONSTANTS
    Instances = {a}
    Writer = a
    SharedDir = FALSE
    BatchSize = 1
    MaxRows = 2
    MaxSeconds = 2
    MaxCrashes = 0
    Backends = {"postgres"}
    Threshold = 1
    Cooldown = 2
    NotifyRecovery = TRUE
    MaxTime = 5
    MaxOutcomes = 6
\* The clocks, the row count and the number of storage operations are bounded:
\* behaviours end there.
CHECK_DEADLOCK FALSE
INVARIANT PurgedWereArchived
