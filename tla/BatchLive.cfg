SPECIFICATION FairSpec
CONSTANTS
    s1 = s1
    i1 = i1
    i2 = i2
    b1 = b1
    Solo = {}
    Batch = {b1}
    Items <- TwoItems
    Cap = 1
    Operations = {"batch", "cancel_batch", "poll"}
    MaxCrash = 2
    MaxFault = 0
    Concurrency = 2
    Permits = 1
INVARIANTS
    TypeOK
PROPERTIES
    NeverWedged
    CancelEnds
CHECK_DEADLOCK FALSE
