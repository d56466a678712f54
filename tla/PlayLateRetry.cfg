SPECIFICATION Spec
CONSTANTS
    Keys = {k1}
    Requests = {r1, r2}
    MaxTurns = 2
    MaxSaves = 3
    Ops <- ActOnly
    Serial = FALSE
    Faults = FALSE
    NoKey = NoKey
    NoCheck = NoCheck
    Answered = Answered
SYMMETRY Symmetry
INVARIANTS AppliedAtMostOnce
CHECK_DEADLOCK FALSE
