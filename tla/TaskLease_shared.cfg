SPECIFICATION Spec
CONSTANTS
    n1 = n1
    n2 = n2
    t1 = t1
    t2 = t2
    t3 = t3
    Node = {n1, n2}
    Task = {t1, t2, t3}
    Worker = {t3}
    NodeOf <- TwoOnFirst
    Requested = 2
    MinDuration = 2
    MaxAttempts = 1
    Skew = 0
    MaxTime = 5
    NoLease = NoLease
INVARIANT LeaseExclusion
CHECK_DEADLOCK FALSE
