SPECIFICATION Spec
CONSTANTS
    Workers = {w1}
    Requests = {1}
    Refs = {e1}
    NULL = NULL
    ExpiresAt <- Deadlines
    Webhook = {}
    BatchSize = 1
    LeaseTime = 2
    ObserveWindow = 2
    StabilityCycles = 1
    DetectAt = 1
    ConfirmAt = 1
    MayFail = TRUE
    ChainEvents = {"mine"}
    MaxLag = 0
    MaxAhead = 0
    Punctual = TRUE
    MaxTime = 3
    MaxAborts = 0
    MaxEvents = 1
PROPERTY FailedObservationKeepsRow
CHECK_DEADLOCK FALSE
