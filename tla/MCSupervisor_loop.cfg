SPECIFICATION FairSpec
CONSTANTS
    Backends = {b1}
    MaxRespawns = 2
    FailureThreshold = 2
    Requests = {}
    NoBackend = NoBackend
INVARIANTS OneEngine Owned
PROPERTIES PatientWithLoading LadderBeforeRespawn DeadIsFinal LoopOverThenNoneOutlives LostIsReplaced ShutdownCompletes
CHECK_DEADLOCK FALSE
