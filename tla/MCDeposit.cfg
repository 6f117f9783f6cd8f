CONSTANTS
    u1 = u1
    u2 = u2
    o1 = o1
    n1 = n1
    n2 = n2
    Jobs = {u1, u2, o1}
    UserJobs = {u1, u2}
    Witnessed = {u1, o1}
    Notes = {n1, n2}
    Note <- MCNote
    Amount6 <- MCAmount6
    Value <- MCValue
    MaxAttempts = 2
    EmptyReads = FALSE
    Relayers = 1
    MaxBurns = 3
SPECIFICATION ScenarioSpec
CHECK_DEADLOCK FALSE
INVARIANTS
    
    NoteRegisteredOnce
    ReadyMeansRegistered
PROPERTIES
    EveryDepositEnds
