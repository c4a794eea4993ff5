CONSTANTS
    Sizes = {8}
    Generations = {10}
    Null = Null
SPECIFICATION Spec
INVARIANT ChecksHold
CHECK_DEADLOCK FALSE
