CONSTANTS
    RegionType = {"Arena", "Trace", "Rc"}
    AllRegionTypes <- DriverTypes
    Word <- Words
    MaxArgs = 5
    ValueOf <- Numbers
    Width = 2
    Event <- TwoEvents
    MaxEvents = 1
SPECIFICATION Spec
INVARIANT LabelsTruthful
CHECK_DEADLOCK FALSE
