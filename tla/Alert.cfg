SPECIFICATION AlertSpec
CONSTANTS
    Workers = {w1}
    Events = {1, 2}
    NULL = NULL
    BatchSize = 1
    LeaseTime = 1
    MaxAttempts = 1
    InitialBackoff = 1
    MaxBackoff = 1
    Jitter = FALSE
    Heartbeats = FALSE
    MaxLag = 0
    MaxAhead = 0
    MaxTime = 3
    MaxAborts = 0
    MaxManual = 0
    Settings <- MCSettings
    DefaultCooldown = 2
    MaxQuery = 1
    MaxFaults = 1
INVARIANTS AlertTypeOK
PROPERTIES AlertLogWellFormed AlertFollowsOutbox
