SPECIFICATION FairSpec
CONSTANTS
    MaxCandidates = 2
    MaxConnects = 3
    MaxQueue = 1
    Second = 2
    RetryWindow = 1
    ClockApplyMax = 1
    AckTimeout = 5
CHECK_DEADLOCK FALSE
INVARIANTS
    PayloadToOne
    SuccessIsEarned
    IngressClockFresh
PROPERTY SessionEnds
