SPECIFICATION FairSpec
CONSTANTS
    Node = {1, 2, 3, 4}
    Inputs <- Diamond
    Checkout = {2}
    Configs <- Mixed
    Outcomes = {"Completed", "Failed", "Canceled", "Refused", "Err"}
INVARIANTS
    TypeOK
    EndsAccounted
    CancelExact
PROPERTIES
    NoLateStart
    Terminates
CHECK_DEADLOCK FALSE
