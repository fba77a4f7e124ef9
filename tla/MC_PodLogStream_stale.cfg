\* A superseded watch fails after the new one started streaming.
CONSTANTS
    NoStatus = NoStatus
    MaxRestarts = 1
    MaxTime = 3
    HealthCheck = 2
    ReconnectGap = 1
    SinceTime = 0
    MaxWatches = 2
    MaxResyncs = 0
    OpenCanFail = FALSE
    ReadCanFail = FALSE

SPECIFICATION Spec
INVARIANT ErrorStatusMeansNoLiveStream
\* The clock stops at MaxTime and the cluster stops changing.
CHECK_DEADLOCK FALSE
