SPECIFICATION NotificationSpec
CONSTANTS
    Workers = {w1, w2}
    Events = {1, 2}
    Requests = {r1}
    Webhook = {r1}
    Course <- MCCourse
    MaxCycle = 0
    NULL = NULL
    BatchSize = 1
    LeaseTime = 2
    MaxAttempts = 2
    InitialBackoff = 1
    MaxBackoff = 2
    Jitter = TRUE
    Heartbeats = TRUE
    MaxLag = 0
    MaxAhead = 0
    MaxTime = 2
    MaxAborts = 1
    MaxManual = 0
PROPERTIES EventuallySettled NotificationImplements
