SPECIFICATION NodeSpec
CONSTANTS
    Backends = {b1}
    MaxRespawns = 2
    FailureThreshold = 2
    Requests = {r1, r2}
    NoBackend = NoBackend
    Ceiling = 0
PROPERTIES PatientWithLoading
CHECK_DEADLOCK FALSE
