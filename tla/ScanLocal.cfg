SPECIFICATION FairSpec
CONSTANTS
    Batches <- AllBatches
    Swaps = {}
    Policy <- Lenient
    MaxDiscovered = 8
    MaxExtracted = 6
    Faults <- NoWriter
INVARIANTS BudgetHeld DiscoveredBounded
PROPERTY BatchCompletes
CHECK_DEADLOCK FALSE
