SPECIFICATION Spec
CONSTANTS
    Ctx = {c1}
    Caller = {p1, p2}
    NoValue = NoValue
    a = a
    m1 = m1
    m2 = m2
    w = w
    Value <- MCValue
    Request <- MCOneRequest
    Operations = {"checkout", "existing", "governed", "release", "reap", "cancel", "clear", "retire"}
    Droppable = {}
    MaxOp = 3
    MaxGen = 1
    MaxClaim = 1
SYMMETRY CallerSymmetry
INVARIANTS
    HasOwner
    GovernedExact
    TokenReachable
CHECK_DEADLOCK FALSE
