SPECIFICATION Spec
CONSTANTS
    Requests = {r1, r2, r3}
    n1 = n1
    n2 = n2
    Nodes = {n1, n2}
    NoNode = NoNode
    Peers <- OneWay
    PromptMax = 2
    CaptureRawCap = 2
    MaxPromptChars = 1
    PromptLengths = {2}
    OutputLengths = {1, 2}
    Sizes = {1, 3}
    MaxChunks = 2
    MaxRestarts <- OneRestarts
    Nothing = Nothing
SYMMETRY Interchangeable
INVARIANTS OneEntryEach RowOpens OutputIsAsSent
CHECK_DEADLOCK FALSE
