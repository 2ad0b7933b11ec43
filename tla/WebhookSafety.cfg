SPECIFICATION Spec
CONSTANTS
    Workers = {w1, w2}
    Events = {1, 2}
    NULL = NULL
    BatchSize = 2
    LeaseTime = 2
    MaxAttempts = 3
    InitialBackoff = 1
    MaxBackoff = 1
    Jitter = FALSE
    Heartbeats = TRUE
    MaxLag = 0
    MaxAhead = 0
    MaxTime = 2
    MaxAborts = 1
    MaxManual = 2
INVARIANTS TypeOK HeartbeatMutex SettledUnleased FailedAfterBudget RetryBounded
PROPERTIES SettledStays
CHECK_DEADLOCK FALSE
SYMMETRY WorkerSymmetry
