SPECIFICATION Spec
CONSTANTS
    Caller = {p1, p2}
    Key = {k1}
    Shared = Shared
    Scopes = {TRUE}
    Operations = {"resolve", "admitted", "bind", "idle"}
    GraceExpires = FALSE
    Droppable = {"cell", "spawn"}
    MaxSlot = 2
    MaxVersion = 0
    MaxRekey = 0
SYMMETRY CallerSymmetry
INVARIANTS
    TypeOK
    CountExact
    IdleExclusive
    HeldAlive
    AdmittedExact
    OrphanFree
CHECK_DEADLOCK FALSE
