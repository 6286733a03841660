CONSTANTS
    Uploads = {u1, u2, u3}
    Bases = {"song", "????"}
    Requests <- MCRequests
    MaxNumber = 8
    Before <- MCBefore
    None = None
SYMMETRY Symmetry
SPECIFICATION Spec
INVARIANTS
    OldFilesKept
    
    
CHECK_DEADLOCK FALSE
