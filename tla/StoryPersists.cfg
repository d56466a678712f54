SPECIFICATION PersistentSpec
CONSTANTS
  Beats <- PersistBeats
  MaxHp = 2
  MaxSilver = 22
  InspirationMax = 1
  None = None
PROPERTY ArcFinishes
