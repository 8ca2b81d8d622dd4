CONSTANTS
  PoolMax = 1
  CloudMax = 1
  MaxPackets = 3
  MaxSessions = 2
SPECIFICATION Spec
CHECK_DEADLOCK FALSE
INVARIANTS
  BuffersNotShared
  PointsInOrder
  NoSilentLoss
  QueueBounded
  NoLostWakeup
PROPERTY StopEnds
