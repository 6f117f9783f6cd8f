CONSTANTS
    c1 = c1
    w1 = w1
    Clients = {c1, c2}
    Workers = {w1, w2}
    Keys = {k1}
    NoKey = NoKey
    MaxAttempts = 2
    DbFaults = TRUE
    MaxCrashes = 1
    MaxJobs = 2
SPECIFICATION ScenarioSpec
CHECK_DEADLOCK FALSE
INVARIANTS
    IdempotentEnqueue
PROPERTIES
    ImplementsJobLease
    EveryJobSettles
