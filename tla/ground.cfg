CONSTANTS
  Rows = 3
  Cols = 5
  SeedCols = 3
  MinPoints = 1
  Resolution = 1000
  XMin = 780
  XMax = 6000
  SlopeThreshold = 350
  HeightThreshold = 350
  NearBoundary = 2000
  NearBand <- Near
  FarBand <- Far
  LayerResolution = 50
  MinLayers = 1
  VerticalMin = 500
  VerticalLayers = 3
  MinTall = 2
  MinCluster = 2
  SensorHeight <- Mounted
  Clouds <- SmallClouds
SPECIFICATION GroundSpec
INVARIANTS
  GroundIsReachable
  ClustersAreComponents
  StandingIsFound
CHECK_DEADLOCK FALSE
