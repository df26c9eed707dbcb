CONSTANTS
    After = 2
    MinInterval = 2
    MaxFailures = 2
    Stable = 2
    NoStable = 6
    FailureThreshold = 2
    FailureWindow = 2
    ApThreshold = 3
    CounterRange = 256
SPECIFICATION FairSpec
INVARIANTS NeverLockedOut NewCredentialsAreTried UnstableEnds
 
