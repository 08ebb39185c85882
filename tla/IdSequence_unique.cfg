SPECIFICATION Spec
CONSTANTS
    n1 = n1
    n2 = n2
    n3 = n3
    Node = {n1, n2, n3}
    Start = 0
    CatalogNext = 1
    Batch = 2
    MaxId = 7
    Deployment <- Supported
    NoState = NoState
SYMMETRY Symmetry
INVARIANTS TypeOK UniqueIds RangeReserved
PROPERTY FrontierAdvances
CHECK_DEADLOCK FALSE
