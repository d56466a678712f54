SPECIFICATION Spec
CONSTANTS
  Requests = {r1, r2}
  Deltas <- OnThePurse
  Statements <- Says
  Reasons <- Words
  Conflicts <- Clash
  Alike <- Near
  MaxHp = 2
  StatLow <- Lowest
  StatHigh = 3
  MoodBound = 1
  BondBound = 2
  EventBound = 3
  DurableMin = 3
  SlowMin = 2
  Anchor = 1
  FactLimit = 1
  Purse = 1
  Faults = FALSE
  MaxTurns = 2
  MaxAttempts = 2
  MaxDeltas = 2
SYMMETRY Threads
INVARIANT SheetInRange
CHECK_DEADLOCK FALSE
