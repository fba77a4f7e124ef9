\* No faults, no restart: a container that stalls and writes again, read by
\* one watch whose health check fires while io.Copy is still reading.
CONSTANTS
    NoStatus = NoStatus
    MaxRestarts = 0
    MaxTime = 3
    HealthCheck = 2
    ReconnectGap = 1
    SinceTime = 0
    MaxWatches = 1
    MaxResyncs = 0
    OpenCanFail = FALSE
    ReadCanFail = FALSE

SPECIFICATION Spec
INVARIANT NoDuplicateLines
CHECK_DEADLOCK FALSE
