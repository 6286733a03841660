CONSTANTS
    Addresses = {a1, a2}
    Interfaces = {eth, wlan}
    Nowhere = Nowhere
    SavedExclusions = {}
    MaxMoves = 2
SPECIFICATION FairSpec
INVARIANTS
    
    ReportedOncePerReason
    AllClosedAfterStop

    
CHECK_DEADLOCK FALSE
