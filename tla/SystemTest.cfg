SPECIFICATION FairSpec
CONSTANTS
    NumIdentify = 3
    MaxAttempts = 2
    MaxSurprises = 2
INVARIANT AlarmsAreFatal
INVARIANT StreamLeftOnlyUnstopped
INVARIANT IdentifyIsOwn
PROPERTY RunEnds
CHECK_DEADLOCK FALSE
