SPECIFICATION TableSpec
CONSTANTS
    Addrs = {a1}
    Dials = {d1, d2}
    Inbounds = {s1, s2}
    InIds = {1}
    Clients = {c1, c2}
    BusCap = 1
    MaxAttempts = 1
SYMMETRY Symmetry
INVARIANTS
    
    ListenerIsTold
CHECK_DEADLOCK FALSE
