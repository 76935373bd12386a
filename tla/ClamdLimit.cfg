SPECIFICATION Spec
CONSTANTS
    Files <- Long
    Wants <- OnlyScan
    Policies <- Strict
    Events <- NoEvents
    Buffer = 2
    Limit = 1
INVARIANTS StreamLimitIsPerFile

CHECK_DEADLOCK FALSE
