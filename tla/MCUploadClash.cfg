CONSTANTS
    Uploads = {u1, u2}
    Bases = {"song", "????"}
    Requests <- MCRequests
    MaxNumber = 6
    Before <- MCBefore
    None = None
SYMMETRY Symmetry
SPECIFICATION Spec
INVARIANTS
    ClashGetsSuffix
CHECK_DEADLOCK FALSE
