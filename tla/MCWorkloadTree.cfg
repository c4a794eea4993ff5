CONSTANTS
    Depths = {0, 1, 2, 3}
    Transforms = 3
    Null = Null
SPECIFICATION FairSpec
INVARIANTS RcExact NoDangling TreeComplete
PROPERTY Ends
CHECK_DEADLOCK FALSE
