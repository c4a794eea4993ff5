CONSTANTS
    Sizes = {4, 5, 8}
    Generations = {0, 3, 10}
    Null = Null
SPECIFICATION FairSpec
INVARIANT PointersLive
PROPERTIES PlaysLife PlayedToEnd
CHECK_DEADLOCK FALSE
