SPECIFICATION LiveSpec
CONSTANTS
    Workers = {w1}
    Requests = {1, 2}
    Refs = {e1}
    NULL = NULL
    ExpiresAt <- Deadlines
    Webhook = {}
    BatchSize = 1
    LeaseTime = 2
    ObserveWindow = 2
    StabilityCycles = 1
    DetectAt = 1
    ConfirmAt = 1
    MayFail = TRUE
    ChainEvents = {"mine", "reorg"}
    MaxLag = 0
    MaxAhead = 0
    Punctual = TRUE
    MaxTime = 4
    MaxAborts = 1
    MaxEvents = 1
PROPERTIES EventuallyClosed PollingStops
