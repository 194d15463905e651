SPECIFICATION FairSpec
CONSTANTS
    Count = 3
    MaxCloneLeases = 3
    Signals = {130, 143}
    NoSignal = NoSignal
CHECK_DEADLOCK FALSE
INVARIANTS
    SuccessIsCommitted
    ResidueReported
    TeardownAfterWorkers
    OneSource
PROPERTY SignalEnds
