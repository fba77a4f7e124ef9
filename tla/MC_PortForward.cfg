\* One pod, two store changes (the pod appears, changes phase, reports its
\* ports, is deleted) against running retry loops.  OnChange and the loops
\* run fairly; the cluster need not.
CONSTANTS
    p1 = p1   p2 = p2
    NoPod = NoPod
    Pods = {p1}
    Forwards <- MCForwards
    PortLists <- MCPortLists
    InitialBackoff = 1
    BackoffCap = 1
    MaxChanges = 2
    MaxEntries = 2
    MaxLoops = 4

SPECIFICATION Spec
INVARIANT TypeOK
INVARIANT NoOrphanForwards
INVARIANT ForwardsInSync
PROPERTY CancelledLoopsExit
PROPERTY EventuallyForwarded
\* The store stops changing and every loop may be cancelled and return.
CHECK_DEADLOCK FALSE
