SPECIFICATION Spec
CONSTANTS
    Streams = 2
    MaxSend <- LaterAnswer
    Cap = 1
    MaxFaults = 1
INVARIANTS
    
    LaterStreamsAreWhole
    NothingIsLeftUndone
CHECK_DEADLOCK FALSE
