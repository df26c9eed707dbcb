CONSTANTS
    Valve = {v1}
    NoValve = NoValve
    Renew = 2
    ObserveEvery = 1
    Recheck = 2
    StaleAfter = 1
    MinLease = 5
    Cycle = 4
    Travel = 1
    Shares <- OnlyHalf
    RelayConfigs <- GoodOrNoLease
    MaxDelay = 5
    MaxLate = 1
    Happens = {"loss", "ota", "assign", "reconfigure", "reset"}
    Powers = {"idle", "drawing"}
SPECIFICATION Spec
INVARIANTS LeaseFailsafe DrivesOnlyCheckedChannel HeldThroughOneFailure ReportIsObserved
