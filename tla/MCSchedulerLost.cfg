SPECIFICATION Spec
CONSTANTS
    g1 = g1
    g2 = g2
    Groups = {g1, g2}
    Interval <- MCInterval
    MaxTime = 4
    MaxCancels = 0
    MaxCalls = 1
INVARIANT ActiveHasCycle
