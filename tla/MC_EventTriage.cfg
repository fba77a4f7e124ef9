\* Two manifests share a namespace, toggled three times; one watch setup
\* and any owner lookup may fail.
CONSTANTS
    m1 = m1   m2 = m2   n1 = n1   u1 = u1   u2 = u2   o1 = o1
    e1 = e1   e2 = e2   e3 = e3
    NoManifest = NoManifest
    Manifests = {m1, m2}
    Namespaces = {n1}
    NsOf <- MCNsOf
    DeployUIDs = {u1, u2}
    DeployOf <- MCDeployOf
    Events = {e1, e2, e3}
    EventNs <- MCEventNs
    Chain <- MCChain
    EventType <- MCEventType
    Reason <- MCReason
    PreStart = {e3}
    MaxVersions = 1
    MaxToggles = 3
    MaxWatches = 2
    MaxSetupFailures = 1
    OwnerFetchCanFail = TRUE

SPECIFICATION Spec
INVARIANT TypeOK
PROPERTY EventuallyAttributed
\* The system idles once the cluster and the engine stop changing.
CHECK_DEADLOCK FALSE
