CONSTANTS
    Clients = {c1}
    Names = {"", "alice", "bob"}
    NoName = ""
    Passwords = {"p"}
    NoHash = NoHash
    NoNonce = NoNonce
    NoHeader = NoHeader
    Lifetime = 0
    MaxTime = 1
    Interfaces = {"eth0"}
    Features = {"upload"}
    Folders = {"music", "other"}
    DefaultFolder = "music"
    NoFolder = ""
    NoPassword = ""
    Controls = {"user"}
    MaxSaves = 2
    MaxRestarts = 1
SPECIFICATION Spec
INVARIANTS
    InForceIsStored
    ChoicesInForce
    GrantedByTheSettings
    StaleIsNotWrong
    OneRetryIsEnough
CHECK_DEADLOCK FALSE
