SPECIFICATION Spec
CONSTANTS
    c1 = c1
    c2 = c2
    a1 = a1
    Agents = {a1}
    Clients = {c1, c2}
    NoPeer = NoPeer
    NoBoot = NoBoot
    Boot <- MCBoot
    Source <- MCSource
    QueueCap = 1
PROPERTIES
    
    SidesImplementChannel
    ClosedPeerEnds
CHECK_DEADLOCK FALSE
