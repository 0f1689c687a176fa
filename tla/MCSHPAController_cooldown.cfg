SPECIFICATION Spec
CONSTANTS
    NoTime = NoTime
    RoundsDown <- MCRoundsDown
    Specs <- MCSlow
    Sizes = {1}
    Proposals = {3}
    MetricLag = 0
    SyncPeriod = 2
    RetryDelay = 1
    MaxTime = 2
    TimersExpire = FALSE
    MaxEdits = 1
    MaxFaults = 0
CHECK_DEADLOCK FALSE
PROPERTIES
    CooldownAlways
