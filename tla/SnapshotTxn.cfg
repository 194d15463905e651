SPECIFICATION FairSpec
CONSTANTS
    b1 = b1
    x1 = x1
    p1 = p1
    p2 = p2
    p3 = p3
    NoRoom = NoRoom
    NoSnap = NoSnap
    NoProc = NoProc
    MaxSlot = 1
    MaxCloneLeases = 2
    Bases = {b1}
    Snaps = {b1}
    Rooms = {b1, x1}
    Procs = {p1, p2, p3}
CHECK_DEADLOCK FALSE
INVARIANTS
    PublishedComplete
    NoTxnUnderReap
    ProbeCleared
    SlotFollowsTxn
PROPERTIES
    ReservationPermanent
    RecoveryCompletes
