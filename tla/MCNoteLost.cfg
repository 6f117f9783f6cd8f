CONSTANTS
    i1 = i1
    q1 = q1
    q2 = q2
    n1 = n1
    n2 = n2
    k1 = k1
    u1 = u1
    u2 = u2
    Nil = Nil
    Intents = {i1, i2}
    Quotes = {q1, q2}
    Hashes = {h1}
    MaxLedger = 2
SPECIFICATION ScenarioSpec
CHECK_DEADLOCK FALSE
INVARIANTS
    FundedNoteIsKept
