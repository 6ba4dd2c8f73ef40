CONSTANTS
    r1 = r1
    r2 = r2
    r3 = r3
    Ids = {r1, r2, r3}
    Deployments <- MCDeployments
SPECIFICATION PipelineSpec
INVARIANTS
    
    AnswersAreLogged
    LimitsHold
CHECK_DEADLOCK FALSE
