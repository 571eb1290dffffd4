SPECIFICATION SSpec
CONSTANTS
    a1 = a1
    a2 = a2
    a3 = a3
    Addresses = {a1, a2, a3}
    MaxResultsPerStream = 3
    MaxPerSensor = 4
INVARIANT PairsInStep
PROPERTY StopsAtBound
CHECK_DEADLOCK FALSE
