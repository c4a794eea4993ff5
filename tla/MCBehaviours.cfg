CONSTANTS
    NumRegions = 2
    Worker = {w1, w2}
    NoWorker = NoWorker
    InnerChurns = 3
    ChurnsPerCollection = 2
SPECIFICATION FairSpec
INVARIANTS RefsExact LiveIffHeld CollectionsPaced
PROPERTIES ImplementsLifecycle AllReleased
CHECK_DEADLOCK FALSE
