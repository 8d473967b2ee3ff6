SPECIFICATION StalledSpec
CONSTANTS
    Streams = 2
    MaxSend <- Saturated
    Cap = 1
    MaxFaults = 0
PROPERTY ControlIsNotDelayed
CHECK_DEADLOCK FALSE
