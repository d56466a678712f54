SPECIFICATION Spec
CONSTANTS
    Keys = {k1}
    Requests = {r1, r2}
    MaxTurns = 1
    MaxSaves = 2
    Ops <- TwoTabs
    Serial = FALSE
    Faults = TRUE
    NoKey = NoKey
    NoCheck = NoCheck
    Answered = Answered
SYMMETRY Symmetry
INVARIANTS LedgerBacked
