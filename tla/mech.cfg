SPECIFICATION MechSpec
CONSTANTS
    Round = 96
    SplitAngle = 2
    UnitSpeed = 5
    Range = 10
    Sensors <- SomeSensors
    Configs <- SomeConfigs
    Fovs <- SomeFovs
    Speeds = {5, 10, 20}
    ReturnModes = {0, 3}
    MaxUpsets = 1
    Window = 3
INVARIANTS
    OneRoundPerCloud
    WholeCloudIsOneRound
    TimesFollowAngles
PROPERTY PacedWithClouds
