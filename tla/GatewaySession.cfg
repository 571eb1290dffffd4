SPECIFICATION Spec
CONSTANTS
    c1 = c1
    c2 = c2
    Calls = {c1, c2}
    MaxCloses = 1
SYMMETRY CallSymmetry
INVARIANT AckIsOwn
INVARIANT GreetsFirst
INVARIANT OneReader
INVARIANT PortIsKnown
CHECK_DEADLOCK FALSE
