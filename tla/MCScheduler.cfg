SPECIFICATION FairSpec
CONSTANTS
    g1 = g1
    g2 = g2
    Groups = {g1, g2}
    Interval <- MCInterval
    MaxTime = 9
    MaxCancels = 2
    MaxCalls = 2
INVARIANTS TypeOK NoOverlap NoDrift NeverOversleeps
PROPERTIES CancelledRunLeavesNoCycle StopEndsRun ImplementsPolling
CHECK_DEADLOCK FALSE
