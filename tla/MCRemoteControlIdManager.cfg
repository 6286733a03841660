CONSTANTS
    Playlists = {p1, p2}
    Indexes = {0}
    Hashes = {0, 2, 3}
    MaxInt = 3
    Callers = {c1, c2}
    MaxRuns = 1
SYMMETRY Symmetry
SPECIFICATION Spec
INVARIANTS
    TablesAgree
    AnswersHold
    StableWithoutCollision
PROPERTY
    ImplementsIdTable
CHECK_DEADLOCK FALSE
