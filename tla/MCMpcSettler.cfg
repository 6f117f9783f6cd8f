CONSTANTS
    a = a
    b = b
    c = c
    d = d
    n1 = n1
    n2 = n2
    n3 = n3
    Intents = {a, b, c, d}
    Rfq = {c, d}
    Pays <- MCPays
    Wants <- MCWants
    Nodes = {n1, n2, n3}
    InProcess = TRUE
    MaxSubmits = 2
    MaxFaults = 2
SPECIFICATION SettlerSpec
CHECK_DEADLOCK FALSE
INVARIANTS
    OneJobPerMatch

    
