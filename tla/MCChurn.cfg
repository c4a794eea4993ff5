CONSTANTS
    Node = {n1, n2, n3, n4, n5}
    Bridge = n1
    WorkingSetSize = 3
    NewNodes = 3
    MaxRegionSize = 2
SPECIFICATION Spec
INVARIANTS NoDangling NoResurrection
PROPERTY SpentForever
CHECK_DEADLOCK FALSE
