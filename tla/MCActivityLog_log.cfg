SPECIFICATION FairSpec
CONSTANTS
    Handlers = {r1, r2}
    Monitors = {m1}
    Streams = {s1}
    RingMax = 2
    ChanCap = 2
INVARIANTS TypeOK NoStrandedRow
PROPERTIES EmitNeverStalls
CHECK_DEADLOCK FALSE
