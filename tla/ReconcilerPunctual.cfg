SPECIFICATION HSpec
CONSTANTS
    Workers = {w1, w2}
    Requests = {1}
    Refs = {e1, e2}
    NULL = NULL
    ExpiresAt <- Deadlines
    Webhook = {}
    BatchSize = 1
    LeaseTime = 2
    ObserveWindow = 3
    StabilityCycles = 2
    DetectAt = 1
    ConfirmAt = 2
    MayFail = TRUE
    ChainEvents = {"mine", "reorg", "sweep"}
    MaxLag = 0
    MaxAhead = 0
    Punctual = TRUE
    MaxTime = 5
    MaxAborts = 0
    MaxEvents = 3
INVARIANT SnapshotFresh
PROPERTIES AnchorStable ExpiredAfterDeadline AntiFlap
CHECK_DEADLOCK FALSE
SYMMETRY Symmetry
