\* A deleted pod observed before its deploy is known.
CONSTANTS
    m1 = m1   p1 = p1   p2 = p2   p3 = p3   pf = pf   u1 = u1   u2 = u2   fu = fu
    NoManifest = NoManifest
    NoUID = NoUID
    Absent = Absent
    Gone = Gone
    NotTracked = NotTracked
    Manifests = {m1}
    Pods = {p1}
    DeployUIDs = {u1}
    ForeignUID = fu
    Owner <- MCOwner
    DeployOf <- MCDeployOf
    SelectorOf <- MCSelectorOf
    MaxRestarts = 0
    MaxWatchEvents = 2
    InitialRestarts = {0}
    MaxResets = 0
    MaxLiveUpdates = 0
    OwnerFetchCanFail = FALSE

SPECIFICATION Spec
INVARIANT DeletedPodForgotten
CHECK_DEADLOCK FALSE
