SPECIFICATION Spec
CONSTANTS
    NoTask = NoTask
    Tasks = {t1, t2}
    Callers = {c1}
    MaxConcurrent = 1
    MaxPanics = 1
    MaxCleanups = 1
\* A worker with every task finished and nobody asking has nothing to do.
CHECK_DEADLOCK FALSE
INVARIANT ConcurrencyLimited
INVARIANT AnswersAreTrue
PROPERTY QuestionsAnswered
