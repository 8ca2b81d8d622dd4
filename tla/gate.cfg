CONSTANTS
  Lanes <- RoadLanes
  Polygon <- RoadPolygon
  Adjacent <- RoadAdjacent
  Offsets <- RoadOffsets
  Near = 1
  Expand = 1
  Timeout = 1
  DebugX = 4
  MaxX = 7
  MaxQueue = 1
SPECIFICATION Spec
INVARIANTS
  OnRoadKept
  OffRoadDropped
  PoseNotOld
  OverlayMatchesPose
