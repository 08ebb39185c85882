SPECIFICATION LiveSpec
CONSTANTS
    c1 = c1
    c2 = c2
    c3 = c3
    Caller = {c1, c2, c3}
    WaitThreshold = 1
    MaxBatch = 2
INVARIANTS TypeOK AckedDurable NoLostWakeup NothingStranded
PROPERTIES ImplementsSyncedCommit CommitAnswered ShutdownCompletes
