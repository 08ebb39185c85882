SPECIFICATION LiveSpec
CONSTANTS
    n1 = n1
    n2 = n2
    t1 = t1
    t2 = t2
    t3 = t3
    Node = {n1, n2}
    Task = {t1, t2}
    Worker = {}
    NodeOf <- OneEach
    Requested = 1
    MinDuration = 1
    MaxAttempts = 2
    Skew = 0
    MaxTime = 3
    NoLease = NoLease
PROPERTIES CheckAnswers DeadLeaseTakenOver
CHECK_DEADLOCK FALSE
