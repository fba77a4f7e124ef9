\* A read error, then a restart from the termination time.
CONSTANTS
    NoStatus = NoStatus
    MaxRestarts = 0
    MaxTime = 3
    HealthCheck = 2
    ReconnectGap = 1
    SinceTime = 0
    MaxWatches = 2
    MaxResyncs = 0
    OpenCanFail = FALSE
    ReadCanFail = TRUE

SPECIFICATION Spec
INVARIANT NoDuplicateLines
\* The clock stops at MaxTime and the cluster stops changing.
CHECK_DEADLOCK FALSE
