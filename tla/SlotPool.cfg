SPECIFICATION FairSpec
CONSTANTS
    r1 = r1
    r2 = r2
    g1 = g1
    s1 = s1
    Rooms = {r1, r2}
    Snaps = {s1}
    Gcs = {g1}
    NoRoom = NoRoom
    NoSnap = NoSnap
    NoActor = NoActor
    Stray = Stray
    MaxSlot = 1
    MaxCloneLeases = 2
    Cap = 1
CHECK_DEADLOCK FALSE
INVARIANTS
    LiveRoomKeepsSlot
    TapUnderClaim
    WriterKeepsFile
PROPERTIES
    ClaimOutlivesRoom
    ReservationsKept
    ReapableClaimFreed
    PartialFileFreed
