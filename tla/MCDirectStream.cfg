SPECIFICATION FairSpec
CONSTANTS
    MaxSend <- ThreeAndOne
    Cap = 1
    WireCap = 2
    Closers = {"i"}
    Leavers = {"r"}
    MayDrop = TRUE
INVARIANTS
    AlignedDeliversPrefix

    
CHECK_DEADLOCK FALSE
