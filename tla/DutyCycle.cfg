CONSTANTS
    CycleMs = 9
    TravelMs = 2
    MaxStep = 2
SPECIFICATION DutySpec
INVARIANTS FullStrokes AverageTracksDemand
PROPERTY DutyLatched
