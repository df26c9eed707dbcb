CONSTANTS
    Valve = {v1}
    NoValve = NoValve
    Renew = 1
    ObserveEvery = 1
    Recheck = 3
    StaleAfter = 1
    MinLease = 4
    Cycle = 4
    Travel = 1
    Shares <- OffOrFull
    RelayConfigs <- GoodOrAttached
    MaxDelay = 4
    MaxLate = 1
    Happens = {"reboot", "input", "reconfigure", "recheck"}
    Powers = {"drawing"}
SPECIFICATION FairSpec
INVARIANT ClosedByCommand
PROPERTY OpensOnFullDemand
