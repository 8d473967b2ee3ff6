SPECIFICATION Spec
CONSTANTS
    Conns = {c1, c2, c3}
    NoConn = NoConn
    Policies = {"bogus", "preempt_existing"}
INVARIANTS
    HubEntryIsServed
    SupersededIsClosed
    RejectNewProtectsIncumbent
PROPERTIES
    ConnectedFlagRecovers
    ImplementsChannel
CHECK_DEADLOCK FALSE
