CONSTANTS
    a = a
    b = b
    c = c
    t1 = t1
    t2 = t2
    Items <- TwoItems
    MaxSize = 2
    SpoolMaxItems = 2
    RetryDelayed = TRUE
    BatchSize = 2
    ReplayBatch = 1
    MaxAttempts = 1
    HasSpool = TRUE
    Unstorable <- PoisonedItem
    Threads <- TwoThreads
    MaxCancels = 1
    MaxCrashes = 1
SPECIFICATION Spec
SYMMETRY ThreadSymmetry
PROPERTIES
    DurableIsNeverLost
    ImplementsDelivery
