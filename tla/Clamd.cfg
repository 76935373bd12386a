SPECIFICATION Spec
CONSTANTS
    Files <- SomeFiles
    Wants <- Everything
    Policies <- Both
    Events <- EventKinds
    Buffer = 2
    Limit = 2
INVARIANTS TypeOK VerdictIsTrue FailureHasCause
PROPERTIES DialogueEnds

CHECK_DEADLOCK FALSE
