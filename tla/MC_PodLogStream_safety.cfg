\* One restart, an unrelated pod update, opens that may fail, and a
\* health-check reconnect: Reconcile never blocks on terminationTime.
CONSTANTS
    NoStatus = NoStatus
    MaxRestarts = 1
    MaxTime = 3
    HealthCheck = 2
    ReconnectGap = 1
    SinceTime = 0
    MaxWatches = 2
    MaxResyncs = 1
    OpenCanFail = TRUE
    ReadCanFail = FALSE

SPECIFICATION Spec
INVARIANT TypeOK
INVARIANT ReconcileNeverBlocks
\* The clock stops at MaxTime and the cluster stops changing.
CHECK_DEADLOCK FALSE
