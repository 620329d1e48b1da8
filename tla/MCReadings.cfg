CONSTANTS
    p1 = p1
    p2 = p2
    Polls = {p1, p2}
    None = None
    Raised = Raised
    NoVariant = NoVariant
    Malformed = Malformed
    Rejected = Rejected
    MaxInteger = 1
    MaxStarts = 2
    Sources <- SomeSources
    Answers <- SomeAnswers
    PollTimes <- SomeTimes
SPECIFICATION Spec
SYMMETRY Symmetry
INVARIANTS
    SpoolHoldsPolled
    LoadedIsPersistable
    SeededIsStorable
    ExecutionMatchesReadings
    StoredAsPolled
    
    OnlyClockLosesPolls
    OverridesTakeEffect
PROPERTIES
    StoredIsFinal
CHECK_DEADLOCK FALSE
