SPECIFICATION Spec
CONSTANTS
    NoTime = NoTime
    RoundsDown <- MCRoundsDown
    Specs <- MCOneSpec
    Sizes = {2}
    Proposals = {2}
    MetricLag = 0
    SyncPeriod = 2
    RetryDelay = 1
    MaxTime = 2
    TimersExpire = FALSE
    MaxEdits = 0
    MaxFaults = 0
CHECK_DEADLOCK FALSE
INVARIANTS
    MetricsAreReported
