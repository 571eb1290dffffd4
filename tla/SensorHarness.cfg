SPECIFICATION Spec
CONSTANTS
    s1 = s1
    s2 = s2
    s3 = s3
    Sensors = {s1, s2, s3}
    Polled = {s1}
    Stoppable = {s2}
INVARIANT ReturnMeansReleased
INVARIANT NoTaskOutlivesAdapters
INVARIANT AdaptersLeftOpenOnlyThere
INVARIANT CaptureMatchesCode
CHECK_DEADLOCK FALSE
