SPECIFICATION Spec
CONSTANTS
    n1 = n1
    n2 = n2
    q1 = q1
    Node = {n1, n2}
    Query = {q1}
    MaxAge = 0
    MaxStarts = 3
INVARIANTS TypeOK SessionsKept FoundByNode RunningNodesActive
PROPERTIES LostQueriesRemoved DeadNodesForgotten
