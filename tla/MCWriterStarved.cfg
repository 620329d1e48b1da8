CONSTANTS
    a = a
    b = b
    c = c
    t1 = t1
    t2 = t2
    Items <- TwoItems
    MaxSize = 2
    SpoolMaxItems = 2
    RetryDelayed = FALSE
    BatchSize = 1
    ReplayBatch = 1
    MaxAttempts = 1
    HasSpool = TRUE
    Unstorable <- TwoItems
    Threads <- OneThread
    MaxCancels = 0
    MaxCrashes = 0
SPECIFICATION OutageSpec
PROPERTIES
    OutageDrainsQueue
