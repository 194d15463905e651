SPECIFICATION FairSpec
CONSTANTS
    Jobs = {"keep", "idle", "command", "repository", "cursor"}
    Requests <- MCRequests
    Signals = {130, 143}
    GuestExits = {0, 300}
INVARIANTS
    StreamOrdered
    SurfacesAgree
    ZeroMeansDone
    WitnessHonest
PROPERTY CappedRunEnds
