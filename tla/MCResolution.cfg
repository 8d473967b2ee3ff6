SPECIFICATION FairSpec
CONSTANTS
    Callers = {c1, c2}
    Endpoints = {ep1, ep2}
    PosTTL = 2
    NegTTL = 1
    Timeout = 1
    MaxTime = 4
    MaxListens = 2
PROPERTIES
    StalenessIsBounded
    
CHECK_DEADLOCK FALSE
