SPECIFICATION FairSpec
CONSTANTS
    Ctx = {c1}
    Caller = {p1}
    NoValue = NoValue
    a = a
    m1 = m1
    m2 = m2
    w = w
    Value <- MCValue
    Request <- MCRequests
    Operations = {"checkout", "existing", "governed", "release", "cancel", "clear", "compact"}
    Droppable = {}
    MaxOp = 2
    MaxGen = 2
    MaxClaim = 1
PROPERTIES
    SummaryNotLost
    ClaimsSettle
    CleanupSettles
    DeferredExpires
CHECK_DEADLOCK FALSE
