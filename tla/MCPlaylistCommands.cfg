CONSTANTS
    p1 = p1
    p2 = p2
    t1 = t1
    t2 = t2
    t3 = t3
    Playlists = {p1, p2}
    Tracks = {t1, t2, t3}
    Clients = {c1, c2}
    None = None
    Initial <- MCInitial
    Titles = {"name"}
    Ratings = {7}
    MaxEdits = 2
SYMMETRY Symmetry
SPECIFICATION Spec
INVARIANTS
    FindsWhatIsMeant
    OnlyAskedFilesDeleted
PROPERTIES
    AddingKeepsIds
CHECK_DEADLOCK FALSE
