\* A redeploy races pod observation; one live update and one restart reset.
CONSTANTS
    m1 = m1   p1 = p1   p2 = p2   p3 = p3   pf = pf   u1 = u1   u2 = u2   fu = fu
    NoManifest = NoManifest
    NoUID = NoUID
    Absent = Absent
    Gone = Gone
    NotTracked = NotTracked
    Manifests = {m1}
    Pods = {p1, p3}
    DeployUIDs = {u1, u2}
    ForeignUID = fu
    Owner <- MCOwner
    DeployOf <- MCDeployOf
    SelectorOf <- MCSelectorOf
    MaxRestarts = 1
    MaxWatchEvents = 3
    InitialRestarts = {0}
    MaxResets = 1
    MaxLiveUpdates = 1
    OwnerFetchCanFail = FALSE

SPECIFICATION Spec
INVARIANT CrashNoticedWhenQuiet
PROPERTY EventuallyTracked
\* The system idles once the cluster stops changing.
CHECK_DEADLOCK FALSE
