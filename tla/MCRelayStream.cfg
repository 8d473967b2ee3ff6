SPECIFICATION Spec
CONSTANTS
    ChCap = 1
    SendCap = 1
    WireCap = 1
    Budget = 1
    MaxData = 2
    MaxPending = 2
    MaxLosses = 1

    
PROPERTIES
    
    BothGoroutinesEnd
    
CHECK_DEADLOCK FALSE
