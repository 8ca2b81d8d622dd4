CONSTANTS
  FirstId = 1
  ResetAbove = 2
  MaxCreated = 4
  MaxLost = 1
  MatchThreshold = 3
  Objects = {a, b}
  WorldSize = 7
  MaxStep = 1
  Separation = 5
  a = a
  b = b
SPECIFICATION Spec
INVARIANTS
  IdReuseDistance
  StandingObstacleKeepsId
PROPERTIES
  ImplementsTrackIds
  LostWindow
  NoDoubledObstacle
  SteadyTracksContinue
