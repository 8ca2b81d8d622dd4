CONSTANT MaxFrames = 3
SPECIFICATION Spec
CHECK_DEADLOCK FALSE
INVARIANTS
  NoThreadLeft
  WorkerQuietAfterLog
  ShownForward
PROPERTIES
  NewestShown
  SignalEnds
