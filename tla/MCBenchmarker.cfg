CONSTANTS
    RegionType = {"Arena", "Trace", "Rc"}
    AllRegionTypes <- DriverTypes
    Word <- Words
    MaxArgs = 5
    ValueOf <- Numbers
    Width = 2
    Event <- TwoEvents
    MaxEvents = 2
SPECIFICATION FairSpec
INVARIANTS TypeOK CallbackLive MeasurementsKept ResultsAddUp
    PercentilesRanked MeasuresTypeAsked LibraryHeld ExitTells
PROPERTIES ParsedAsUsage Completes
CHECK_DEADLOCK FALSE
