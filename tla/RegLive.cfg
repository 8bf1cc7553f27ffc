SPECIFICATION FairSpec
CONSTANTS
    Caller = {p1, p2}
    Key = {}
    Shared = Shared
    Scopes = {FALSE}
    Operations = {"resolve", "apply", "invalidate"}
    GraceExpires = TRUE
    Droppable = {}
    MaxSlot = 2
    MaxVersion = 0
    MaxRekey = 0
PROPERTIES
    BackendsAsked
    ResolveReturns
CHECK_DEADLOCK FALSE
