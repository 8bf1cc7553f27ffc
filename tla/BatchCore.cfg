SPECIFICATION Spec
CONSTANTS
    s1 = s1
    i1 = i1
    i2 = i2
    b1 = b1
    Solo = {s1}
    Batch = {b1}
    Items <- TwoItems
    Cap = 1
    Operations = {"submit", "batch", "cancel_task", "cancel_batch", "panic"}
    MaxCrash = 1
    MaxFault = 1
    Concurrency = 2
    Permits = 1
SYMMETRY Symmetry
CONSTRAINT Apart
INVARIANTS
    AttemptExclusive
    PublishedHasEvidence
    HiddenOwned
    CapsHold
    RestSettles
PROPERTIES
    ImplementsLife
CHECK_DEADLOCK FALSE
