SPECIFICATION Spec
CONSTANTS
    Files <- Short
    Wants <- OnlyScan
    Policies <- Strict
    Events <- SlowClamd
    Buffer = 2
    Limit = 2
INVARIANTS TimeoutIsReported

CHECK_DEADLOCK FALSE
