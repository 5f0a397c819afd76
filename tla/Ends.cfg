SPECIFICATION EndsSpec
CONSTANTS
    t1 = t1
    t2 = t2
    l1 = l1
    l2 = l2
    l3 = l3
    l4 = l4
    a = a
    b = b
    c = c
    e1 = e1
    e2 = e2
    i1 = i1
    i2 = i2
    i3 = i3
    i4 = i4
    None = None
    Gone = Gone
    NoDelete = NoDelete
CHECK_DEADLOCK FALSE
PROPERTY CallsEnd
