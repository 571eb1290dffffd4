SPECIFICATION Spec
CONSTANTS
    r1 = r1
    r2 = r2
    d1 = d1
    d2 = d2
    Requests = {r1, r2}
    Prefixes = {"read", "scan"}
    Scan = "scan"
    Devices = {d1, d2}
    None = None
    MaxClock = 1
    MaxCloses = 1
SYMMETRY Symmetric
INVARIANT RightAnswer
INVARIANT PendingIsLive
INVARIANT ScanIsWhole
INVARIANT EventSkippedOnlyAfterEnd
PROPERTY ExchangeSpec
CHECK_DEADLOCK FALSE
