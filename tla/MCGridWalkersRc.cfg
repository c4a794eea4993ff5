CONSTANTS
    GridSize = 2
    NumSteps = 4
    MaxWalkers = 2
    RegionType = "Rc"
    Null = Null
SPECIFICATION Spec
INVARIANT ChecksHold
CHECK_DEADLOCK FALSE
