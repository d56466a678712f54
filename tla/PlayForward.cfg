SPECIFICATION Spec
CONSTANTS
    Keys = {k1, k2}
    Requests = {r1}
    MaxTurns = 2
    MaxSaves = 1
    Ops <- Forward
    Serial = TRUE
    Faults = TRUE
    NoKey = NoKey
    NoCheck = NoCheck
    Answered = Answered
SYMMETRY Symmetry
INVARIANTS LedgerCurrent StatusTruthful MirrorMatches
