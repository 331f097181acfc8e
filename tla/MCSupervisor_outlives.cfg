SPECIFICATION Spec
CONSTANTS
    Backends = {b1}
    MaxRespawns = 1
    FailureThreshold = 1
    Requests = {}
    NoBackend = NoBackend
INVARIANTS NoEngineOutlivesNode
CHECK_DEADLOCK FALSE
