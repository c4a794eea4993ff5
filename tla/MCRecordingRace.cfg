CONSTANTS
    RegionType = {"Trace", "Rc"}
    Region = {r1, r2}
    Cores = 2
    Event <- TwoEvents
    CollectionsEach = 2
    NoEvent = NoEvent
    Unwritten = Unwritten
SPECIFICATION RecordingSpec
INVARIANT AllRecorded
CHECK_DEADLOCK FALSE
