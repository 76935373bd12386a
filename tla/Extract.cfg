SPECIFICATION Spec
CONSTANTS
    Archives <- AllArchives
    Spellings <- Letters
    NFC <- Composed
    CaseFold <- Lower
    MaxEntries = 3
    MaxDeclaredBytes = 4
    MaxFileBytes = 2
    MaxTotalBytes = 3
    Faults <- FaultKinds
INVARIANTS TypeOK CollisionsAreExact IOOnlyFromFaults FailureRemoves ResultIsComplete BudgetKept CountsAgree
CHECK_DEADLOCK FALSE
