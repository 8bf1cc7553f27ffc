SPECIFICATION Spec
CONSTANTS
    Caller = {p1, p2, p3}
    Key = {k1}
    Shared = Shared
    Scopes = {TRUE, FALSE}
    Operations = {"bind", "edit", "evict"}
    GraceExpires = FALSE
    Droppable = {}
    MaxSlot = 2
    MaxVersion = 1
    MaxRekey = 1
SYMMETRY CallerSymmetry
INVARIANTS
    HeldAlive
CHECK_DEADLOCK FALSE
