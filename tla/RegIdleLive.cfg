SPECIFICATION FairSpec
CONSTANTS
    Caller = {p1, p2}
    Key = {k1}
    Shared = Shared
    Scopes = {TRUE}
    Operations = {"bind", "idle"}
    GraceExpires = FALSE
    Droppable = {}
    MaxSlot = 2
    MaxVersion = 0
    MaxRekey = 0
PROPERTIES
    IdleRetires
    BackendsAsked
CHECK_DEADLOCK FALSE
