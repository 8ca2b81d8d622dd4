SPECIFICATION Spec
CONSTANTS
    Round = 4
    SplitAngle = 0
    Range = 3
    FramePkts = 20
    JumboPkts = 5
    Frames = 3
    Lidars = {"RSM1", "RSM1_JUMBO", "RSM2", "RSM3", "RSE1", "RSMX", "RSEM4", "RSEMX"}
    MaxFaults = 2
INVARIANTS
    OneSplitPerFrame
    WholeFrames
