SPECIFICATION Spec
CONSTANTS
    Batches <- OnePair
    Swaps = {}
    Policy <- Profile
    MaxDiscovered = 8
    MaxExtracted = 6
    Faults <- NoFault
INVARIANT ProfileRejects
CHECK_DEADLOCK FALSE
