SPECIFICATION Spec
CONSTANTS
    a = a
    b = b
    Names <- TwoNames
    Contents <- SomeContents
    Uploads <- SomeUploads
    Written <- LaterUploads
    Others <- OtherLayouts
    Layouts <- SomeLayouts
    Changes <- ChangeKinds
    MaxChanges = 2
    MaxInputFiles = 2
    MaxInputTotalSize = 3
    MaxDiscoveredFiles = 2
    Faults <- AllFaults
INVARIANTS TypeOK LoadedAtOneMoment FailsForAReason

CHECK_DEADLOCK FALSE
