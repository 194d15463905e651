SPECIFICATION FairSpec
CONSTANTS
    p = p
    q = q
    a1 = a1
    a2 = a2
    b1 = b1
    ga = ga
    gb = gb
    A = A
    B = B
    Bases = {A, B}
    Batches = {p, q}
    Rooms = {a1, a2, b1}
    Gcs = {ga, gb}
    BatchOf <- MCBatchOf
    BaseOf <- MCBaseOf
    MaxNet = 1
    NoRoom = NoRoom
    NoActor = NoActor
CHECK_DEADLOCK FALSE
INVARIANTS
    DevicesAccounted
    NetworkInUseKept
    PoolFullIsClean
PROPERTIES
    HostExclusive
    DeadClaimReclaimed
