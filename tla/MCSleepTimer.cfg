CONSTANTS
    Callers = {c1, c2}
    Actions = {pause_playback, player_shutdown}
    Delays = {0, 1}
    MaxTime = 2
    MaxSets = 2
    Pumps = TRUE
SPECIFICATION FairSpec
INVARIANTS
    ExecutedAsRequested
    RevokedNeverFires
    FiresAtMostOnce
    AnnouncedWhenQuiet
PROPERTIES
    SetEventuallyFires
    StopReturns
CHECK_DEADLOCK FALSE
