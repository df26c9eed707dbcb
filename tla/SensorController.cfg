CONSTANTS
    Driver <- Fitted
    Assignments <- Configured
    Device = "dev"
    Required <- Intervals
    MeasurementInterval = 2
    ExpiryIntervals = 3
    FailureThreshold = 5
    RecoveryStreak = 3
    RetryInterval = 3
    MaxLate = 1
    MaxUnpublished = 2
SPECIFICATION SensorFairSpec
INVARIANTS PublishedIsFresh CoherentPhase InputsAreCurrent
PROPERTY PublishedAgain
