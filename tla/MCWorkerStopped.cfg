SPECIFICATION Spec
CONSTANTS
    sup = sup
    poll = poll
    empty = empty
    Tasks = {sup, poll, empty}
    Supervisors = {sup}
    Tagless = {empty}
    DisconnectsFirst = TRUE
    ConnectAttempts = 2
    PollAttempts = 2
    Sessions = {s1, s2, s3, s4}
    NoSession = NoSession
    MaxCancels = 1
INVARIANT StoppedIsDisconnected
