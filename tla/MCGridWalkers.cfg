CONSTANTS
    GridSize = 2
    NumSteps = 4
    MaxWalkers = 2
    RegionType = "Trace"
    Null = Null
SPECIFICATION Spec
INVARIANTS LinksPaired FreedApart ChecksHold
CHECK_DEADLOCK FALSE
