CONSTANTS
    Brokers = {"b1", "b2"}
    Prefixes = {"p1", "p2"}
    Configs <- Posted
    Setpoints = {t20, t21}
    None = none
    BaseBackoff = 1
    MaxBackoff = 2
    MaxTrouble = 3
    Races = FALSE
    WriteFails = FALSE
SPECIFICATION FairSpec
INVARIANTS AvailabilityIsTrue EveryConnectionIsRefreshed
PROPERTY BrokerLearns
