SPECIFICATION Spec
CONSTANTS
    Scans = {s1}
    Files = {f1}
    Uploads = 1
    None = None
    Faults <- OnlyParentSync
PROPERTY PublishesAtomically
CHECK_DEADLOCK FALSE
