SPECIFICATION Spec
CONSTANTS
    Scans = {s1, s2}
    Files = {f1}
    Uploads = 2
    None = None
    Faults <- FaultKinds
SYMMETRY Symmetry
INVARIANTS TypeOK PublishedWhole SuccessIsPublished FailureLeavesNothing PublishedReadOnly
PROPERTIES ResultIsStable CanceledStaysHidden
CHECK_DEADLOCK FALSE
