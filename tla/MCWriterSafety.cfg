CONSTANTS
    a = a
    b = b
    c = c
    t1 = t1
    t2 = t2
    Items <- ThreeItems
    MaxSize = 1
    SpoolMaxItems = 2
    RetryDelayed = TRUE
    BatchSize = 2
    ReplayBatch = 1
    MaxAttempts = 2
    HasSpool = TRUE
    Unstorable <- NoItems
    Threads <- OneThread
    MaxCancels = 2
    MaxCrashes = 0
SPECIFICATION Spec
SYMMETRY Symmetry
INVARIANTS
    TypeOK
    LossIsReported
    SettledOnce
    EndedWriterIsSettled
    
    SpoolIsBounded
    InsertedIsNotOverstated
