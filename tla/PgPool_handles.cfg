SPECIFICATION Spec
CONSTANTS
    Tasks = {t1, t2}
    Holders = {t1, t2}
    Conns = {k1, k2}
    Collections = {cases}
    Guarded = {}
    Tenants = {x}
    None = None
    Warm = FALSE
    Faults = FALSE
    Abandons = FALSE
    MaxNested = 0
    MaxCalls = 2
INVARIANTS HandlesGoOn
