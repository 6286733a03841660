CONSTANTS
    p1 = p1
    p2 = p2
    c1 = c1
    Kinds = {"ControlPanel", "Playlists"}
    Waiters = {p1, p2}
    Commands = {c1}
    KindOf <- MCKindOf
    PoolSize = 3
    MaxVersion = 2
SPECIFICATION PromptSpec
INVARIANTS
    PushTypeOK
    
    FreshAnswer
PROPERTIES
    EventuallyCurrent
    StopFailsPolls
    CommandsServed
CHECK_DEADLOCK FALSE
