SPECIFICATION FairMeshSpec
CONSTANTS
    Handlers = {r1}
    Monitors = {}
    Streams = {s1, s2}
    RingMax = 2
    ChanCap = 1
    MergedCap = 1
    Local = Local
    NoStream = NoStream
INVARIANTS MeshTypeOK ReconnectClearsRows
PROPERTIES NothingLeftBehind
CHECK_DEADLOCK FALSE
