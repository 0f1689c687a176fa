SPECIFICATION FairSpec
CONSTANTS
    NoTime = NoTime
    RoundsDown <- MCRoundsDown
    Specs <- MCRanges
    Sizes = {2, 4}
    Proposals = {0, 3}
    MetricLag = 0
    SyncPeriod = 2
    RetryDelay = 1
    MaxTime = 1
    TimersExpire = TRUE
    MaxEdits = 1
    MaxFaults = 1
CHECK_DEADLOCK FALSE
PROPERTIES
    RangeEventuallyEnforced
