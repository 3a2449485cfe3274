CONSTANTS
    MaxRetries = 5
    BackoffBase = 2
    RequestTimeout = 30
    Durations <- Slow
    MaxRewrites = 2
    GatewayLimit = 300

SPECIFICATION FairSpec

INVARIANTS CallFitsLimit AnswerIsChecked NothingInFlight
PROPERTY ChainEnds
