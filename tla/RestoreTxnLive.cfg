SPECIFICATION FairSpec
CONSTANTS
    f1 = f1
    f2 = f2
    c1 = c1
    c2 = c2
    g1 = g1
    g2 = g2
    s1 = s1
    NoRoom = NoRoom
    NoSnap = NoSnap
    NoActor = NoActor
    MaxSlot = 1
    MaxCloneLeases = 2
    Snaps = {s1}
    Snap = s1
    Rooms = {f1, c1}
    Clones = {c1}
    Gcs = {g1, g2}
    Crews <- MCSolo
CHECK_DEADLOCK FALSE
PROPERTY LeaseReturned
