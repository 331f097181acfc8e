SPECIFICATION Spec
CONSTANTS
    Cards = {c1, c2}
    Viewers = {v1}
    ChanCap = 1
    MaxSamples = 2
    HostMemTotal = 7
    HostMemBuckets = 2
INVARIANTS NoSendOnClosed NotTorn
INVARIANTS HostMemIsClose NoiseSettles
PROPERTIES SamplingGoesOn
CHECK_DEADLOCK FALSE
