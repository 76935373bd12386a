SPECIFICATION FairSpec
CONSTANTS
    Scans = {s1, s2}
    Files = {f1}
    Uploads = 1
    None = None
    Faults <- BeforeRename
PROPERTIES PublishesAtomically ScanEnds
CHECK_DEADLOCK FALSE
