SPECIFICATION Spec
CONSTANTS
    Keys = {k1}
    Requests = {r1}
    MaxTurns = 3
    MaxSaves = 1
    Ops <- Everything
    Serial = TRUE
    Faults = TRUE
    NoKey = NoKey
    NoCheck = NoCheck
    Answered = Answered
SYMMETRY Symmetry
INVARIANTS TypeOK CreatedHasSheet ActSettlesStatus
PROPERTIES OpeningWrittenOnce AutosaveHoldsTheBeat ThrowLandsOnItsBoard Serialised
