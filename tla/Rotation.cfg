CONSTANTS
    c1 = c1
    c2 = c2
    Clients = {c1, c2}
    Workloads <- RotatingWorkloads
    Ids = {1, 2, 3}
    NoName = "no name"
    MaxAttempts = 2
    Identities = {"A"}
    Email <- MCEmail
    Tokens = {"t1", "t2", "t3", "t4", "t5"}
    Keys = {"k1", "k2"}
    States = {"s1"}
SPECIFICATION Spec
PROPERTY ImplementsTrait
CHECK_DEADLOCK FALSE
