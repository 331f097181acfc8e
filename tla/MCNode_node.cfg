SPECIFICATION FairNodeSpec
CONSTANTS
    Backends = {b1}
    MaxRespawns = 1
    FailureThreshold = 1
    Requests = {r1}
    NoBackend = NoBackend
    Ceiling = 1
INVARIANTS RoutableIsReady InFlightExact
PROPERTIES NeverOnHearsay SlotSpec ReplacedEngineFreesRequests LateReportsSettle
CHECK_DEADLOCK FALSE
