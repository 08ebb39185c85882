SPECIFICATION Spec
CONSTANTS
    w1 = w1
    w2 = w2
    b1 = b1
    b2 = b2
    r1 = r1
    v1 = v1
    None = None
    Kinds = {"Idx"}
    Writer = {w1, w2}
    Builder = {b1, b2}
    Rec = {r1}
    Value = {v1}
    MaxRuns = 2
    MaxTicket = 1
    MaxSeq = 2
    PausedNodes = FALSE
    UnseenWriters = FALSE
    LongTransactions = FALSE
    OverlappingAcquires = TRUE
SYMMETRY Symmetry
INVARIANT OnlineMatchesTable
CHECK_DEADLOCK FALSE
