SPECIFICATION Spec
CONSTANTS
  Beats <- RouteBeats
  MaxHp = 2
  MaxSilver = 8
  InspirationMax = 1
  None = None
INVARIANT TwoCluesOpenTheWay
