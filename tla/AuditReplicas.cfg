SPECIFICATION FairSpec
CONSTANTS
    Instances = {a, b}
    Backend = "turso"
    FineEvents <- FineClock
    MaxPending = 2
    MaxEvents = 3
    MaxTotal = 4
    MaxCrashes = 1
    None = None
INVARIANT BreaksAreReported
INVARIANT EmissionOrder
INVARIANT Accounted
INVARIANT UntamperedVerifies
PROPERTY Settles
