SPECIFICATION Spec
CONSTANTS
    i1 = i1
    i2 = i2
    NumSensors = 2
    SensorIds = {i1, i2}
    None = None
    MaxWire = 2
INVARIANT StatusTellsLink
INVARIANT LinkIsKnown
INVARIANT QuietDisconnect
INVARIANT FrameReachesItsSensor
CHECK_DEADLOCK FALSE
