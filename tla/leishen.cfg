CONSTANTS
    Circle = 120
    EndAngle = 30
    MinBlocks = 17
    Widths <- LsWidths
    BeamOffset = 13
    Fallback = 12
    MaxPoints = 1000
    Turns = {2, 4}
    Starts = {0, 5, 60, 119}
    Rounds = 5
    MaxLost = 1
SPECIFICATION Spec
INVARIANTS WindowClouds MarkClouds
CHECK_DEADLOCK FALSE
