SPECIFICATION ESpec
CONSTANTS
    p1 = p1
    p2 = p2
    Plugins = {p1, p2}
    MaxCommands = 4
SYMMETRY Symmetric
INVARIANT HarnessEnvIsReady
PROPERTY HalfMadeStays
CHECK_DEADLOCK FALSE
