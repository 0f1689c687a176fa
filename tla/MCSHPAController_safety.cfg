SPECIFICATION Spec
CONSTANTS
    NoTime = NoTime
    RoundsDown <- MCRoundsDown
    Specs <- MCSpecs
    Sizes = {0, 2, 5}
    Proposals <- MCProposals
    MetricLag = 1
    SyncPeriod = 2
    RetryDelay = 1
    MaxTime = 3
    TimersExpire = FALSE
    MaxEdits = 1
    MaxFaults = 1
CHECK_DEADLOCK FALSE
INVARIANTS
    TypeOK
    LoopStaysAlive
    PassInv
PROPERTIES
    ScalesWithinRange
    ScalesByLimitedSteps
    DisabledStaysDisabled
    CooldownWhenKnown
    LastScaleNeverRegresses
    StatusIsOfStoredSpec
    ImplementsAutoscaler
