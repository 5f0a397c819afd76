SPECIFICATION Spec
CONSTANTS
    None = None
    Threads = {t1, t2, t3}
    Keys = {k1, k2}
    Locks = {l1, l2, l3, l4, l5}
    MaxLocks = 1
INVARIANTS KeyExclusion
