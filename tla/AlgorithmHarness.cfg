SPECIFICATION HSpec
CONSTANTS
    p1 = p1
    p2 = p2
    a1 = a1
    a2 = a2
    Producers = {p1, p2}
    Addresses = {a1}
    None = None
    ShutdownToken = ShutdownToken
    MaxResults = 2
    MaxSamples = 2
    MaxResets = 0
    ErrorCallbackMayRaise = TRUE
SYMMETRY Symmetric
INVARIANT ConsolidationComplete
INVARIANT ShutdownFlushes
INVARIANT WorkerOutlivesNoFile
INVARIANT ReportMatchesCapture
PROPERTY BarrierSpec
CHECK_DEADLOCK FALSE
