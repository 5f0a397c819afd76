SPECIFICATION EdgesSpec
CONSTANTS
    Tasks = {t}
    Nodes = {a, b}
    Edges = {e1, e2, e3}
    Insts = {i1, i2, i3, i4, i5}
    None = None
    Gone = Gone
    Backend = "rmw"
    Ops = {"get", "save", "connect", "disconnect"}
    Dirs = {"out", "both"}
    Budget = 4
    Crashes = 1
    Faults = 0
    Start = "shared"
    UniqueIndex = FALSE
    Evicts = TRUE
    e1 = e1
    e2 = e2
    t = t
    t1 = t1
    t2 = t2
    u1 = u1
    u2 = u2
    i1 = i1
    i2 = i2
    i3 = i3
    i4 = i4
    i5 = i5
    i6 = i6
    i7 = i7
    i8 = i8
SYMMETRY Symmetry
INVARIANTS SoloTypeOK EdgesMatch ConnectOnce
