CONSTANTS
    Node = {n1, n2, n3, n4}
    Bridge = n1
    NoNode = NoNode
SPECIFICATION FairSpec
INVARIANTS Balanced ReturnsToBridge RestIsGarbage
PROPERTY Terminates
CHECK_DEADLOCK FALSE
