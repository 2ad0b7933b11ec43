SPECIFICATION Spec
CONSTANTS
    Workers = {w1}
    Events = {1, 2}
    NULL = NULL
    BatchSize = 2
    LeaseTime = 2
    MaxAttempts = 3
    InitialBackoff = 1
    MaxBackoff = 1
    Jitter = FALSE
    Heartbeats = TRUE
    MaxLag = 0
    MaxAhead = 0
    MaxTime = 3
    MaxAborts = 0
    MaxManual = 0
PROPERTY RenewalFailureKeepsBatch
CHECK_DEADLOCK FALSE
