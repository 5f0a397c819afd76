SPECIFICATION StoreSpec
CONSTANTS
    None = None
    Threads = {t1, t2, t3}
    Keys = {k1, k2, k3, k4}
    k1 = k1
    k2 = k2
    k3 = k3
    Locks = {l1, l2, l3, l4, l5, l6}
    MaxLocks = 2
    s1 = s1
    s2 = s2
    w1 = w1
    w2 = w2
    r1 = r1
    h1 = h1
    h2 = h2
    h3 = h3
    v1 = v1
    v2 = v2
    v3 = v3
    Absent = Absent
    Torn = Torn
SYMMETRY Symmetry
INVARIANTS StoreTypes  ReadRegular RemovesOnce FilesKept
PROPERTIES HeldLockStays RoomyImplements
