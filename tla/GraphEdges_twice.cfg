SPECIFICATION Spec
CONSTANTS
    Tasks = {t1}
    Nodes = {a, b}
    Edges = {e1, e2}
    Insts = {i1, i2, i3, i4, i5}
    None = None
    Gone = Gone
    Backend = "rmw"
    Ops = {"connect"}
    Dirs = {"in"}
    Budget = 2
    Crashes = 0
    Faults = 0
    Start = "shared"
    UniqueIndex = FALSE
    Evicts = FALSE
INVARIANTS OneEdgePerPair
