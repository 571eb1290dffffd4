SPECIFICATION FFairSpec
CONSTANTS
    Bodies <- MCBodies
    MaxItems = 3
    MaxChunk = 6
INVARIANT ParsesWhatWasSent
INVARIANT DamageIsContained
PROPERTY ReaderComesBack
CHECK_DEADLOCK FALSE
