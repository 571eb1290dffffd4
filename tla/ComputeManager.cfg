SPECIFICATION FairSpec
CONSTANTS
    p1 = p1
    p2 = p2
    a1 = a1
    a2 = a2
    Producers = {p1, p2}
    Addresses = {a1}
    None = None
    ShutdownToken = ShutdownToken
    MaxResults = 2
    MaxSamples = 2
    MaxResets = 2
    ErrorCallbackMayRaise = TRUE
INVARIANT ResetDriftBounded
INVARIANT StaleResultsBounded
PROPERTY IdleReturns
CHECK_DEADLOCK FALSE
