CONSTANTS
    Temps = {1, 3, 5}
    Limits = {4}
    Hyst = 1
    Gains = {"low", "high"}
    Intervals = {1, 2}
    MaxStep = 2
    Happens = {"tuning"}
SPECIFICATION Spec
INVARIANTS NoGapIsCharged ComputesWithWholeGains GainsConverge
