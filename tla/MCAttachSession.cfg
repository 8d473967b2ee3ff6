SPECIFICATION Spec
CONSTANTS
    NoKey = NoKey
    r1 = r1
    r2 = r2
    a1 = a1
    u1 = u1
    Keys = {k1, k2}
    Calls = {r1, r2, a1}
    Relays = {r1, r2}
    Users = {u1}
    UserOf <- OneUser
    Retention = 0
    MaxTime = 1
SYMMETRY Symmetric
INVARIANTS
    
    AdmittedWasActive
CHECK_DEADLOCK FALSE
