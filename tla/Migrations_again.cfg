SPECIFICATION EntitiesSpec
CONSTANTS
    Tasks = {t1, t2, t3}
    Entities = {e1, e2}
    Lists <- EachAndBoth
    Cap = 0
    Faults = FALSE
    Reenable = FALSE
    MaxVal = 2
    MaxCount = 2
    t1 = t1
    t2 = t2
    e1 = e1
    e2 = e2
    n1 = n1
    n2 = n2
    n3 = n3
    n4 = n4
    NoDelete = NoDelete
    None = None
    a = a
    b = b
    Processes = {t1, t2}
    Target <- TwoAndThree
    AutoPersist = {t1, t2}
    Records = {e1}
    MaxVersion = 3
    StepSets <- SomeSteps
    StepsRaise = TRUE
    MaxSaves = 1
    MaxRecorded = 4
    MaxTrail = 2
CHECK_DEADLOCK FALSE
INVARIANT StepsOnce
