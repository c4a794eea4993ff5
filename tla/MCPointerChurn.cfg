CONSTANTS
    NumNodes = 3
    Mutations = {1, 5}
    Slot = {0, 1}
    GCsPerRun = 2
    Null = Null
SPECIFICATION FairSpec
INVARIANTS NoDangling RcExact OnlyCyclesLeft SearchComplete
PROPERTY Finishes
CHECK_DEADLOCK FALSE
