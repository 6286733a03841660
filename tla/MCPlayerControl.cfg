CONSTANTS
    RangeIds = {"volume", "balance", "speed", "trueBass", "enhancer", "tempo", "pitch", "preamp"}
    BoolIds = {"equalizer", "mute"}
    Bands = {"31Hz", "16kHz"}
    Playlists = {p1, p2}
    Sizes = {0, 1, 3}
    None = None
SPECIFICATION PlayerSpec
INVARIANTS
    EchoWithinOne
    NeutralIsExact
    RewritingSettles
    SelectionMovesByOne
