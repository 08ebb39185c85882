SPECIFICATION Spec
CONSTANTS
    n1 = n1
    n2 = n2
    t1 = t1
    t2 = t2
    t3 = t3
    Node = {n1, n2}
    Task = {t1, t2}
    Worker = {}
    NodeOf <- OneEach
    Requested = 2
    MinDuration = 2
    MaxAttempts = 2
    Skew = 1
    MaxTime = 4
    NoLease = NoLease
INVARIANTS TypeOK LeaseExclusion
PROPERTIES HandoverAfterExpiry
CHECK_DEADLOCK FALSE
