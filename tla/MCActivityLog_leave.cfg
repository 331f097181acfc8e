SPECIFICATION Spec
CONSTANTS
    Handlers = {r1, r2}
    Monitors = {m1}
    Streams = {s1}
    RingMax = 2
    ChanCap = 1
INVARIANTS LeavingIsHarmless
CHECK_DEADLOCK FALSE
