CONSTANTS
    Kinds = {ControlPanel, Timer}
    Waiters = {w1, w2}
    Main = main
    Notifiers = {main, timer}
    MaxVersion = 2
SPECIFICATION FairSpec
INVARIANT
    NoLostWakeup
PROPERTY
    ImplementsEventWait
