CONSTANTS
    Temps <- Readings
    Hysteresis = 10
    Ceiling = 30
    Floor = 30
    Rate = 12
    SettlingTimeout = 3
    MaxDuration = 18
    Required = 3
    PeriodTolerance = 34
    SwingTolerance = 30
    MaxStep = 2
SPECIFICATION FairSpec
INVARIANT DoneIsEarned
PROPERTIES RunEnds ImplementsSession
