SPECIFICATION FairSpec
CONSTANTS
    Length = 10
    WindowAsked = 5
    OverlapAsked = 0
    WindowFloor = 4
    Magic = 2
    MaxArtifacts = 3
    MaxCarves = 3
    MaxPerDb = 2
CHECK_DEADLOCK FALSE
INVARIANTS
    IInv
    EverySignatureCarvedOnce
    ScanStaysInBounds
PROPERTIES
    ScanEnds
