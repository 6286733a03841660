CONSTANTS
    Requests = {r1, r2}
    Addresses = {a1, a2}
    Pumps = TRUE
SPECIFICATION PromptSpec
INVARIANTS
    NobodyLeftBehind
PROPERTIES
    FinalizeReturns
    FinalizeIsPrompt
CHECK_DEADLOCK FALSE
