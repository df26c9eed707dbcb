CONSTANTS
    Temps = {1, 3, 5}
    Limits = {4, 6}
    Hyst = 1
    Gains = {"low"}
    Intervals = {2}
    MaxStep = 1
    Happens = {"limits", "autotune", "accept"}
SPECIFICATION FairSpec
INVARIANTS HeatOnGoodReading ShutoffSilences
PROPERTY ComputesAgain
