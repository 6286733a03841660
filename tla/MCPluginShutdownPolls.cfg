CONSTANTS
    Requests = {r1, r2}
    Addresses = {a1, a2}
    Pumps = TRUE
SPECIFICATION PromptSpec
PROPERTIES
    ShutdownEndsPolls
CHECK_DEADLOCK FALSE
