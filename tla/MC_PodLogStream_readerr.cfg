\* A read error ends consumeLogs; is it recorded in the status?
CONSTANTS
    NoStatus = NoStatus
    MaxRestarts = 0
    MaxTime = 3
    HealthCheck = 2
    ReconnectGap = 1
    SinceTime = 0
    MaxWatches = 1
    MaxResyncs = 0
    OpenCanFail = FALSE
    ReadCanFail = TRUE

SPECIFICATION Spec
PROPERTY ReadErrorReported
\* The clock stops at MaxTime and the cluster stops changing.
CHECK_DEADLOCK FALSE
