SPECIFICATION Spec
CONSTANTS
    Conns = {c1, c2}
    NoConn = NoConn
    Requests = {q1, q2}
    NoRequest = NoRequest
    QueueCap = 1
INVARIANTS
    NoPendingLeak
    DeliveredOnce
    FailureMeansNotSent
PROPERTIES
    CallReturns
CHECK_DEADLOCK FALSE
