SPECIFICATION MCSpec
CONSTANTS
    Robots = {r1}
    IPs = {ip1}
    NoIP = NoIP
    HeartbeatOnlineTTL = 1
    ControlFallbackTTL = 2
    MaxTime = 4
    Keys = {boot, tear}
    TeardownKeys = {tear}
    Calls = {k1, k2, k3}
    NoKey = NoKey
    BackoffMin <- MCBackoffMin
    BackoffMax <- MCBackoffMax
    Retention = 4
    MaxCall = 1
    GateMaxTime = 7
    Callers = {p1}
    PublicKeys = {"k1", "k2"}
    PlatformLists <- MCPlatformLists
    MaxChanges = 2
    Clients = {c1}
    MaxFrames = 2
    MaxBroadcasts = 2
    BroadcastCap = 1
INVARIANTS
    OnlineImpliesRecentlySeen
    GateReopens
    
    WholeFrames
    TakenIsAnswered
PROPERTIES
    QuietShutdownCompletes
    
    PruneOpensNothing
CHECK_DEADLOCK FALSE
