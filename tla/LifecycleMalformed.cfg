CONSTANTS
    c1 = c1
    Callers = {c1}
    MaxRetries = 1
    Configs <- MCMalformed
SPECIFICATION Spec
INVARIANT PostureAsConfigured
CHECK_DEADLOCK FALSE
