SPECIFICATION CacheSpec
CONSTANTS
    Workers = {w1, w2}
    Records = {r1}
    NoToken = NoToken
    TTL = 3
    Offset <- OneAhead
    Skew = 1
    Latency = 1
    Native = TRUE
    MaxClaims = 3
    MaxLosses = 1
    w1 = w1
    c1 = c1
    c2 = c2
    v1 = v1
    v2 = v2
    k1 = k1
    k2 = k2
    p = p
    t = t
    Absent = Absent
    NoAck = NoAck
    Tasks = {"t1", "t2"}
    Main = "t1"
    Contexts = {"c1", "p1"}
    Private = {"p1"}
    Dbs = {"jvdb", "d1", "d2"}
    Jvdb = "jvdb"
    Ids = {"i1", "i2"}
    Vals = {v1, v2}
SYMMETRY Symmetry
INVARIANTS CacheTypes Exclusive DeletedForGood RecordsFresh  PoolWhole TenantsApart
