SPECIFICATION RecordsSpec
CONSTANTS
    Fields = {"a", "b"}
    Values <- SomeValues
    Queries <- SomeQueries
    Updates <- SomeUpdates
    MaxInt = 2
    c1 = c1
    c2 = c2
    x = x
    y = y
    None = None
    reader = reader
CHECK_DEADLOCK FALSE
INVARIANTS RecordTypes SelectsSame BatchesKept 
