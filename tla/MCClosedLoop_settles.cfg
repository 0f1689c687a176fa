SPECIFICATION FairSpec
CONSTANTS
    NoTime = NoTime
    RoundsDown <- MCNone
    MaxInt32 = 1000
    RoundsUp <- MCUp
    RoundsShort <- MCNone
    Specs <- MCSpecs
    Loads <- MCLoads
    MaxCount = 7
    MetricLag = 1
    MaxAge = 3
CHECK_DEADLOCK FALSE
INVARIANTS
    TypeOK
PROPERTIES
    Settles
    EndsInBand
    RestIsLeftAlone
