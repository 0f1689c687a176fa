SPECIFICATION FairSpec
CONSTANTS
    NoTime = NoTime
    RoundsDown <- MCRoundsDown
    Specs <- MCDryRun
    Sizes = {2}
    Proposals = {2}
    MetricLag = 0
    SyncPeriod = 2
    RetryDelay = 1
    MaxTime = 2
    TimersExpire = TRUE
    MaxEdits = 1
    MaxFaults = 0
CHECK_DEADLOCK FALSE
PROPERTIES
    DryRunConditionSettles
