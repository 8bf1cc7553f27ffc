SPECIFICATION Spec
CONSTANTS
    Node = {1, 2, 3, 4}
    Inputs <- Diamond
    Checkout = {2}
    Configs <- Mixed
    Outcomes = {"Completed", "Failed", "Canceled", "Refused", "Err"}
INVARIANTS
    TriggerEvidence
CHECK_DEADLOCK FALSE
