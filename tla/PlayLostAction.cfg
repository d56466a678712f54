SPECIFICATION Spec
CONSTANTS
    Keys = {k1}
    Requests = {r1, r2}
    MaxTurns = 2
    MaxSaves = 3
    Ops <- OnePage
    Serial = FALSE
    Faults = FALSE
    NoKey = NoKey
    NoCheck = NoCheck
    Answered = Answered
SYMMETRY Symmetry
PROPERTIES ResolvedStays
