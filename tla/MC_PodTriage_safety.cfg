\* Two deploys of one manifest race pod updates, owner-lookup failures and re-sends.
CONSTANTS
    m1 = m1   p1 = p1   p2 = p2   p3 = p3   pf = pf   u1 = u1   u2 = u2   fu = fu
    NoManifest = NoManifest
    NoUID = NoUID
    Absent = Absent
    Gone = Gone
    NotTracked = NotTracked
    Manifests = {m1}
    Pods = {p1, p2, p3}
    DeployUIDs = {u1, u2}
    ForeignUID = fu
    Owner <- MCOwner
    DeployOf <- MCDeployOf
    SelectorOf <- MCSelectorOf
    MaxRestarts = 1
    MaxWatchEvents = 4
    InitialRestarts = {0}
    MaxResets = 0
    MaxLiveUpdates = 0
    OwnerFetchCanFail = TRUE

SPECIFICATION Spec
INVARIANT TypeOK
PROPERTY StoreNeverRegresses
PROPERTY RestartWarned
\* The system idles once the cluster stops changing.
CHECK_DEADLOCK FALSE
