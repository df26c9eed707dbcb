CONSTANTS
    NAN = NAN
    MinInterval = 2
    ClearDwell = 2
    FullEvery = 1
    TempHysteresis = 2
    HumidityHysteresis = 1
    FrostAt = 0
    FrostRelease = 2
    HumidAt = 2
    HumidRelease = 1
    Temperatures = {0, 2, 3}
    Humidities = {1}
    Reports = {"Unknown", "Idle"}
    Targets = {20}
    Demands = {0, 24}
    Minutes = {0}
    Fields = {"temperature", "overheat", "report", "demand"}
    MaxTimeouts = 3
    MaxChanges = 3
SPECIFICATION FairSpec
INVARIANTS DisabledStaysBlank OnsetIsShown LockedApIsReadable
PROPERTY PanelCatchesUp
