SPECIFICATION Spec
CONSTANTS
    s1 = s1
    i1 = i1
    i2 = i2
    b1 = b1
    Solo = {}
    Batch = {b1}
    Items <- TwoItems
    Cap = 1
    Operations = {"batch", "cancel_batch"}
    MaxCrash = 1
    MaxFault = 0
    Concurrency = 1
    Permits = 1
SYMMETRY Symmetry
INVARIANTS
    CancelSettles
CHECK_DEADLOCK FALSE
