SPECIFICATION Spec
CONSTANTS
    Docs <- SomeDocs
    Policies <- BothPolicies
    MaxPixels = 15
    Share = 3
    Events <- AllEvents
INVARIANTS TypeOK ContainerTypeIsExact TextIsWellFormed ImagesFit FailureStaysWithFile

CHECK_DEADLOCK FALSE
