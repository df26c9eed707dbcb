CONSTANTS
    Task = {"web", "monitor"}
    Priority <- OnePriority
    Does <- Requesting
    Requests <- Offers
    Hosts = {"manifold"}
    MinStrokes = 4
    Garbage <- Corruption
    MaxResets = 1
SPECIFICATION Spec
INVARIANT SettingsSurvive
PROPERTY SnapshotIsWhole
