CONSTANTS
    a = a
    b = b
    c = c
    d = d
    n1 = n1
    n2 = n2
    n3 = n3
    Intents = {a, b, c}
    Rfq = {}
    Pays <- MCPays
    Wants <- MCWants
    Nodes = {n1, n2, n3}
    InProcess = FALSE
    MaxSubmits = 1
    MaxFaults = 2
SPECIFICATION RoundsSpec
CHECK_DEADLOCK FALSE
SYMMETRY Symmetry
INVARIANTS
    MatchedOnce
    SignedSessionIsExhausted
    BatchesHaveQuorum
