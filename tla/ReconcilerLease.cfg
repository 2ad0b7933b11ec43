SPECIFICATION ESpec
CONSTANTS
    Workers = {w1, w2}
    Requests = {1}
    Refs = {e1}
    NULL = NULL
    ExpiresAt <- Deadlines
    Webhook = {1}
    BatchSize = 1
    LeaseTime = 2
    ObserveWindow = 2
    StabilityCycles = 2
    DetectAt = 1
    ConfirmAt = 1
    MayFail = TRUE
    ChainEvents = {"mine", "reorg", "remove", "sweep"}
    MaxLag = 0
    MaxAhead = 1
    Punctual = FALSE
    MaxTime = 2
    MaxAborts = 1
    MaxEvents = 3
INVARIANTS TypeOK LeaseMutex OutboxIsHistory FinalityOnlyWhileConfirmed ConfirmedHasEvidence
PROPERTIES ImplementsLifecycle
CHECK_DEADLOCK FALSE
SYMMETRY WorkerSymmetry
