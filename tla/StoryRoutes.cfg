SPECIFICATION Spec
CONSTANTS
  Beats <- BoardBeats
  MaxHp = 2
  MaxSilver = 8
  InspirationMax = 0
  None = None
INVARIANT TypeOK
INVARIANT SceneOnMap
INVARIANT ArcHangsTogether
INVARIANT GoalFollowsStory
INVARIANT AftermathStays
PROPERTY BoardAllows
PROPERTY ImplementsArc
