SPECIFICATION AttemptSpec
CONSTANTS
    Hosts = {"h1", "h2"}
    MaxCands = 2
    MaxRemote = 3
    IceCap = 1
    Seconds = {0, 1, 3, 20}
INVARIANTS
    IceServersAreUsable
    
    CandidatesAreKept
    NoSignalMissed
PROPERTIES
    OfferedReturns
CHECK_DEADLOCK FALSE
