CONSTANTS
    a = a
    b = b
    c = c
    t1 = t1
    t2 = t2
    Items <- ThreeItems
    MaxSize = 1
    SpoolMaxItems = 2
    RetryDelayed = TRUE
    BatchSize = 2
    ReplayBatch = 1
    MaxAttempts = 2
    HasSpool = FALSE
    Unstorable <- NoItems
    Threads <- OneThread
    MaxCancels = 1
    MaxCrashes = 0
SPECIFICATION IntakeSpec
INVARIANTS
    LossIsReported
    QueueHoldsAccepted
    UnfinishedIsExact
PROPERTIES
    RejectedStaysOut
    
