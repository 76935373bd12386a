SPECIFICATION Spec
CONSTANTS
    Batches <- SomePairs
    Swaps <- OtherBytes
    Policy <- Strict
    MaxDiscovered = 6
    MaxExtracted = 6
    Faults <- FaultKinds
INVARIANTS TypeOK Ledger ApprovedIsDeclared OnlyPassedFiles RiskIsFlagged

CHECK_DEADLOCK FALSE
