SPECIFICATION Spec
CONSTANTS
    Ctx = {c1}
    Caller = {p1, p2}
    NoValue = NoValue
    a = a
    m1 = m1
    m2 = m2
    w = w
    Value <- MCValue
    Request <- MCTwoRequests
    Operations = {"checkout", "existing", "release", "reap", "cancel", "clear", "compact", "inject", "retire"}
    Droppable = {"checkout", "clear"}
    MaxOp = 4
    MaxGen = 1
    MaxClaim = 2
SYMMETRY CallerSymmetry
INVARIANTS
    TypeOK
    TableExclusive
    TombstoneOwned
    ClaimExact
    SuccessorSafe
    DeferredNotLost
    BackendSerial
PROPERTIES
    ImplementsSlot
CHECK_DEADLOCK FALSE
