----------------------------- MODULE PodTriage -----------------------------
(***************************************************************************)
(* The pod half of the reconciliation core: the PodWatcher (k8swatch),     *)
(* the store's FIFO action queue, and the engine reducers that apply pod   *)
(* changes, pod deletions and restart-count resets to a manifest's         *)
(* K8sRuntimeState.                                                        *)
(*                                                                         *)
(*   cluster pod changes --watch--> dispatchPodChangesLoop                 *)
(*        upsertPod + `go dispatchPodChange` / `go Dispatch(delete)`       *)
(*   dispatchPodChange: OwnerTreeOf (may fail) -> triagePodTree (lock)     *)
(*        -> lock, read freshPod, Dispatch(PodChangeAction)                *)
(*   OnChange: diff -> setupNewUIDs replays known pods of new UIDs         *)
(*   store loop: pops one action, runs its reducer                         *)
(*                                                                         *)
(* The pod watch of the namespace is taken as established (the namespace   *)
(* diff is WatchScope's subject); each pod has one container, whose        *)
(* container ID changes with every restart.                                *)
(***************************************************************************)
EXTENDS Integers, SequencesExt, BagsExt

CONSTANTS
    Manifests,          \* manifest names
    Pods,               \* pod UIDs
    DeployUIDs,         \* UIDs of the root objects a deploy applies
    ForeignUID,         \* an owner UID no Tilt deploy ever applies (a CRD)
    Owner,              \* [Pods -> DeployUIDs \cup {ForeignUID}]; Owner[p] = p: bare pod
    DeployOf,           \* [DeployUIDs -> Manifests]: which manifest applies the UID
    SelectorOf,         \* [Pods -> Manifests \cup {NoManifest}]: ExtraPodSelectors match
    NoManifest,         \* the empty ManifestName ""
    NoUID,              \* the empty types.UID ""
    Absent,             \* cluster: never created; knownPods: no entry
    Gone,               \* cluster: deleted
    NotTracked,         \* runtime.Pods: no entry
    MaxRestarts,        \* bound on a container's restart count
    MaxWatchEvents,     \* bound on pod watch events (creations, updates, re-sends, deletions)
    InitialRestarts,    \* restart counts a pod may already have when first seen
    MaxResets,          \* bound on restart-reset requests from the UI
    MaxLiveUpdates,     \* bound on live updates by the build controller
    OwnerFetchCanFail   \* whether OwnerTreeOf may return an error

ASSUME {MaxRestarts, MaxWatchEvents, MaxResets, MaxLiveUpdates} \subseteq Nat
ASSUME InitialRestarts \subseteq 0..MaxRestarts
ASSUME OwnerFetchCanFail \in BOOLEAN

UIDs == Pods \cup DeployUIDs \cup {ForeignUID}


Phases == {"Running", "Failed"}   \* Failed stands for both Succeeded and Failed

\* A pod as the watch delivers it: phase, the container's restart count,
\* DeletionTimestamp set, and its creation order (CreationTimestamp).
PodStates == [phase: Phases, restarts: 0..MaxRestarts, deleting: BOOLEAN,
              created: 1..Cardinality(Pods)]

\* store.Pod: the tracked copy, with BaselineRestarts.
PodInfos == [phase: Phases, restarts: 0..MaxRestarts, deleting: BOOLEAN,
             created: 1..Cardinality(Pods), baseline: Int]

ContainerIDs == Pods \X (0..MaxRestarts)

VARIABLES
    cluster,        \* [Pods -> PodStates \cup {Absent, Gone}]
    applied,        \* deploy UIDs that exist in the cluster
    knownPods,      \* PodWatcher.knownPods
    descendants,    \* PodWatcher.knownDescendentPodUIDs
    knownDeployed,  \* PodWatcher.watcherKnownState.knownDeployedUIDs
    inflight,       \* bag of running dispatch goroutines
    queue,          \* the store's action queue
    deployed,       \* per manifest, K8sRuntimeState.DeployedUIDSet
    runtime,        \* per manifest, [pods: runtime.Pods, ancestor: PodAncestorUID]
    liveUpdated,    \* per manifest, ManifestState.LiveUpdatedContainerIDs
    needsRebuild,   \* per manifest, ManifestState.NeedsRebuildFromCrash
    restartLogs,    \* per pod, "Detected container restart" warnings logged
    events,         \* pod watch events so far
    resets,         \* reset requests issued so far
    liveUpdates     \* live updates done so far

watcherVars == <<knownPods, descendants, knownDeployed, inflight>>
storeVars   == <<deployed, runtime, liveUpdated, needsRebuild, restartLogs>>
envVars == <<events, resets, liveUpdates>>
vars == <<cluster, applied, watcherVars, queue, storeVars, envVars>>

-----------------------------------------------------------------------------
(* Helpers                                                                 *)

\* k8s.ObjectRefTree.UIDs(): the pod itself, then its owners, nearest first.
OwnerChain(p) == IF Owner[p] = p THEN <<p>> ELSE <<p, Owner[p]>>

Tracked(m) == {p \in Pods : runtime[m].pods[p] # NotTracked}

VisibleRestarts(info) == info.restarts - info.baseline

\* A version order on one pod's states: every update raises it.
Ver(s) == s.restarts + (IF s.phase = "Failed" THEN 1 ELSE 0)
                     + (IF s.deleting THEN 1 ELSE 0)

\* store.AllRunningContainers: containers of tracked pods that are running.
RunningContainerIDs(pods) ==
    {<<p, pods[p].restarts>> : p \in {q \in Pods : pods[q] # NotTracked
                                                   /\ pods[q].phase = "Running"}}

\* K8sRuntimeState.HasOKPodTemplateSpecHash: a pod without a template-hash
\* label (not created from a Tilt-applied template) always passes; others
\* pass when they come from the manifest's current deploy.
HasOKPodTemplateSpecHash(m, p) ==
    Owner[p] = ForeignUID \/ Owner[p] \in deployed[m]

\* ManifestState.MostRecentPod: the tracked pod created last.
MostRecentPod(pods) ==
    CHOOSE p \in {q \in Pods : pods[q] # NotTracked} :
        \A q \in Pods : pods[q] # NotTracked => pods[q].created <= pods[p].created

ChangeAction(s, p, mn, anc) ==
    [type |-> "change", pod |-> p, state |-> s, mn |-> mn, anc |-> anc]

-----------------------------------------------------------------------------
(* Cluster: the environment. Each change is received by the watch loop     *)
(* (dispatchPodChangesLoop), which upserts the pod and starts a goroutine. *)

ReceivePod(p, s) ==
    /\ events < MaxWatchEvents
    /\ events' = events + 1
    /\ knownPods' = [knownPods EXCEPT ![p] = s]
    /\ inflight' = BagAdd(inflight, [kind |-> "change", pod |-> p, snap |-> s,
                                     stage |-> "fetch", mn |-> NoManifest, anc |-> NoUID])

\* A build completes: the deploy's root object now exists and the store
\* records it as the manifest's only deployed UID. A full deploy also
\* resets live-update tracking and the crash flag.
Deploy(u) ==
    LET m == DeployOf[u] IN
    /\ u \notin applied
    /\ applied' = applied \cup {u}
    /\ deployed' = [deployed EXCEPT ![m] = {u}]
    /\ liveUpdated' = [liveUpdated EXCEPT ![m] = {}]
    /\ needsRebuild' = [needsRebuild EXCEPT ![m] = FALSE]
    /\ UNCHANGED <<cluster, watcherVars, queue, runtime, restartLogs, envVars>>

CreatePod(p) ==
    /\ cluster[p] = Absent
    /\ Owner[p] \in applied \cup {ForeignUID}
    /\ \E r \in InitialRestarts :
         LET s == [phase |-> "Running", restarts |-> r, deleting |-> FALSE,
                   created |-> Cardinality({q \in Pods : cluster[q] # Absent}) + 1]
         IN /\ cluster' = [cluster EXCEPT ![p] = s]
            /\ ReceivePod(p, s)
    /\ UNCHANGED <<applied, descendants, knownDeployed, queue, storeVars, resets, liveUpdates>>

\* A container restart, the pod terminating, or its DeletionTimestamp set.
NextPodStates(s) ==
    (IF s.phase = "Running" /\ s.restarts < MaxRestarts
        THEN {[s EXCEPT !.restarts = @ + 1]} ELSE {})
    \cup (IF s.phase = "Running" THEN {[s EXCEPT !.phase = "Failed"]} ELSE {})
    \cup (IF ~s.deleting THEN {[s EXCEPT !.deleting = TRUE]} ELSE {})

UpdatePod(p) ==
    /\ cluster[p] \in PodStates
    /\ \E s \in NextPodStates(cluster[p]) :
         /\ cluster' = [cluster EXCEPT ![p] = s]
         /\ ReceivePod(p, s)
    /\ UNCHANGED <<applied, descendants, knownDeployed, queue, storeVars, resets, liveUpdates>>

\* The watch re-sends the current state of a pod.
RedeliverPod(p) ==
    /\ cluster[p] \in PodStates
    /\ ReceivePod(p, cluster[p])
    /\ UNCHANGED <<cluster, applied, descendants, knownDeployed, queue, storeVars, resets,
                   liveUpdates>>

\* The pod is deleted: the loop receives a deleted key and starts
\* `go st.Dispatch(NewPodDeleteAction(...))`; knownPods keeps the pod.
DeletePod(p) ==
    /\ cluster[p] \in PodStates
    /\ events < MaxWatchEvents
    /\ events' = events + 1
    /\ cluster' = [cluster EXCEPT ![p] = Gone]
    /\ inflight' = BagAdd(inflight, [kind |-> "delete", pod |-> p, snap |-> Gone,
                                     stage |-> "dispatch", mn |-> NoManifest, anc |-> NoUID])
    /\ UNCHANGED <<applied, knownPods, descendants, knownDeployed, queue, storeVars,
                   resets, liveUpdates>>

\* The UI asks to reset a pod's restart count, quoting what it shows.
RequestResetRestarts(m, p) ==
    /\ p \in Tracked(m)
    /\ resets < MaxResets
    /\ resets' = resets + 1
    /\ queue' = Append(queue, [type |-> "reset", mn |-> m, pod |-> p,
                               visible |-> VisibleRestarts(runtime[m].pods[p])])
    /\ UNCHANGED <<cluster, applied, watcherVars, storeVars, events, liveUpdates>>

\* The build controller live-updates the running containers it knows of,
\* once the runtime state tracks the pods of the current deploy.
LiveUpdate(m) ==
    /\ ~needsRebuild[m]
    /\ runtime[m].ancestor \in deployed[m]
    /\ liveUpdates < MaxLiveUpdates
    /\ liveUpdates' = liveUpdates + 1
    /\ RunningContainerIDs(runtime[m].pods) \notin {{}, liveUpdated[m]}
    /\ liveUpdated' = [liveUpdated EXCEPT ![m] = RunningContainerIDs(runtime[m].pods)]
    /\ UNCHANGED <<cluster, applied, watcherVars, queue, deployed, runtime, needsRebuild,
                   restartLogs, events, resets>>


-----------------------------------------------------------------------------
(* PodWatcher                                                              *)

\* triagePodTree, index part: record the pod under every owner in its tree.
IndexDescendants(p) ==
    [u \in UIDs |-> IF u \in ToSet(OwnerChain(p)) \ {p}
                      THEN descendants[u] \cup {p} ELSE descendants[u]]

\* triagePodTree, match part: the first UID of the tree that was deployed,
\* else the first extra selector the pod's labels match, else nothing.
TriagePodTree(p) ==
    LET chain == OwnerChain(p)
        i     == SelectInSeq(chain, LAMBDA u : knownDeployed[u] # NoManifest)
    IN IF i # 0 THEN [mn |-> knownDeployed[chain[i]], anc |-> chain[i]]
       ELSE [mn |-> SelectorOf[p], anc |-> NoUID]

\* dispatchPodChange, first half: OwnerTreeOf returned an error; the update
\* is logged and dropped.
FetchOwnerFails(g) ==
    /\ OwnerFetchCanFail
    /\ g.kind = "change" /\ g.stage = "fetch"
    /\ inflight' = BagRemove(inflight, g)
    /\ UNCHANGED <<cluster, applied, knownPods, descendants, knownDeployed, queue,
                   storeVars, envVars>>

\* dispatchPodChange, first half: triagePodTree under the watcher lock.
TriagePod(g) ==
    LET r == TriagePodTree(g.pod) IN
    /\ g.kind = "change" /\ g.stage = "fetch"
    /\ descendants' = IndexDescendants(g.pod)
    /\ inflight' = IF r.mn = NoManifest THEN BagRemove(inflight, g)
                   ELSE BagAdd(BagRemove(inflight, g),
                               [g EXCEPT !.stage = "dispatch", !.mn = r.mn, !.anc = r.anc])
    /\ UNCHANGED <<cluster, applied, knownPods, knownDeployed, queue, storeVars,
                   envVars>>

\* Fault: dispatch the copy the goroutine was started with.
DispatchPodChangeStale(g) ==
    /\ g.kind = "change" /\ g.stage = "dispatch"
    /\ queue' = Append(queue, ChangeAction(g.snap, g.pod, g.mn, g.anc))
    /\ inflight' = BagRemove(inflight, g)
    /\ UNCHANGED <<cluster, applied, knownPods, descendants, knownDeployed, storeVars,
                   envVars>>

\* dispatchPodChange, second half: re-take the lock, read the freshest copy
\* of the pod, and dispatch it.
DispatchPodChange(g) ==
    /\ g.kind = "change" /\ g.stage = "dispatch"
    /\ queue' = Append(queue, ChangeAction(knownPods[g.pod], g.pod, g.mn, g.anc))
    /\ inflight' = BagRemove(inflight, g)
    /\ UNCHANGED <<cluster, applied, knownPods, descendants, knownDeployed, storeVars,
                   envVars>>

\* `go st.Dispatch(NewPodDeleteAction(...))`
DispatchPodDelete(g) ==
    /\ g.kind = "delete"
    /\ queue' = Append(queue, [type |-> "delete", pod |-> g.pod])
    /\ inflight' = BagRemove(inflight, g)
    /\ UNCHANGED <<cluster, applied, knownPods, descendants, knownDeployed, storeVars,
                   envVars>>

\* watcherKnownState.createTaskList, newUIDs: deployed UIDs not yet known.
NewUIDs == {u \in DeployUIDs : (\E m \in Manifests : u \in deployed[m])
                               /\ knownDeployed[u] = NoManifest}

\* Fault: replay a new UID only when it names a pod itself.
ReplayedPodsSelfOnly(u) ==
    IF u \in Pods /\ knownPods[u] # Absent THEN {u} ELSE {}

\* setupNewUIDs: the pods it replays for a new UID, the UID itself if it
\* is a known pod, else its known descendants.
ReplayedPods(u) ==
    IF u \in Pods /\ knownPods[u] # Absent THEN {u}
    ELSE {q \in descendants[u] : knownPods[q] # Absent}

\* OnChange with new UIDs (the watch already set up): record each new UID
\* and dispatch its replayed pods, in Go map order.
SetupNewUIDs ==
    LET replays == {ChangeAction(knownPods[q], q, DeployOf[u], u) :
                      <<u, q>> \in {<<u, q>> \in NewUIDs \X Pods : q \in ReplayedPods(u)}}
    IN /\ NewUIDs # {}
       /\ knownDeployed' = [u \in UIDs |-> IF u \in NewUIDs THEN DeployOf[u]
                                                            ELSE knownDeployed[u]]
       /\ \E order \in SetToSeqs(replays) : queue' = queue \o order
       /\ UNCHANGED <<cluster, applied, knownPods, descendants, inflight, storeVars,
                      envVars>>

-----------------------------------------------------------------------------
(* Store reducers                                                          *)

\* matchPodChangeToManifest: drop changes matched through an ancestor that
\* is no longer deployed.
MatchPodChangeToManifest(a) ==
    a.anc = NoUID \/ a.anc \in deployed[a.mn]

\* Fault: every pod of the current deploy is taken for a new one.
MaybeTrackPodAlwaysNew(m, a) ==
    LET rt        == runtime[m]
        isCurrent == HasOKPodTemplateSpecHash(m, a.pod)
        switch    == isCurrent /\ (rt.ancestor = NoUID
                                   \/ (a.anc # NoUID /\ rt.ancestor # a.anc))
        pods1     == IF switch THEN [q \in Pods |-> NotTracked] ELSE rt.pods
    IN [found |-> isCurrent \/ rt.pods[a.pod] # NotTracked, pods |-> pods1,
        ancestor |-> IF switch THEN a.anc ELSE rt.ancestor,
        old |-> pods1[a.pod], isNew |-> isCurrent]

\* maybeTrackPod: a pod of the current deploy is tracked, after dropping
\* every tracked pod when its ancestor is new; any other pod is only
\* updated if already tracked.
MaybeTrackPod(m, a) ==
    LET rt         == runtime[m]
        isCurrent  == HasOKPodTemplateSpecHash(m, a.pod)
        switch     == isCurrent /\ (rt.ancestor = NoUID
                                    \/ (a.anc # NoUID /\ rt.ancestor # a.anc))
        pods1      == IF switch THEN [q \in Pods |-> NotTracked] ELSE rt.pods
    IN [found    |-> isCurrent \/ rt.pods[a.pod] # NotTracked,
        pods     |-> pods1,
        ancestor |-> IF switch THEN a.anc ELSE rt.ancestor,
        old      |-> pods1[a.pod],
        isNew    |-> isCurrent /\ pods1[a.pod] = NotTracked]

\* Fault: an unchanged restart count also counts as a restart.
RestartedContainerOrSame(old, s) == s.restarts >= old.restarts

\* restartedContainerNames, for the pod's one container.
RestartedContainer(old, s) == s.restarts > old.restarts

\* prunePods: drop deleting pods; then, with more than one pod left, drop
\* one terminated pod that is not the most recent (map order), and return.
PrunePods(pods) ==
    LET alive   == [q \in Pods |-> IF pods[q] # NotTracked /\ pods[q].deleting
                                     THEN NotTracked ELSE pods[q]]
        present == {q \in Pods : alive[q] # NotTracked}
        dead    == {q \in present : alive[q].phase = "Failed"
                                    /\ q # MostRecentPod(alive)}
    IN IF Cardinality(present) > 1 /\ dead # {}
          THEN {[alive EXCEPT ![q] = NotTracked] : q \in dead}
          ELSE {alive}

\* Fault: every tracked pod's container counts as running, whatever its phase.
CheckForContainerCrashAnyPhase(m, pods) ==
    LET hitList == liveUpdated[m] \ {<<p, pods[p].restarts>> : p \in {q \in Pods : pods[q] # NotTracked}} IN
    IF needsRebuild[m] \/ hitList = {}
       THEN UNCHANGED <<needsRebuild, liveUpdated>>
       ELSE /\ needsRebuild' = [needsRebuild EXCEPT ![m] = TRUE]
            /\ liveUpdated' = [liveUpdated EXCEPT ![m] = {}]

\* checkForContainerCrash: a live-updated container that is no longer
\* running flags the manifest for a rebuild and clears the tracking set.
CheckForContainerCrash(m, pods) ==
    LET hitList == liveUpdated[m] \ RunningContainerIDs(pods) IN
    IF needsRebuild[m] \/ hitList = {}
       THEN UNCHANGED <<needsRebuild, liveUpdated>>
       ELSE /\ needsRebuild' = [needsRebuild EXCEPT ![m] = TRUE]
            /\ liveUpdated' = [liveUpdated EXCEPT ![m] = {}]

\* handlePodChangeAction
HandlePodChangeAction(a) ==
    LET m == a.mn
        t == MaybeTrackPod(m, a)
        s == a.state
        info == [phase |-> s.phase, restarts |-> s.restarts, deleting |-> s.deleting,
                 created |-> s.created,
                 baseline |-> IF t.isNew THEN s.restarts ELSE t.old.baseline]
    IN IF ~MatchPodChangeToManifest(a) \/ ~t.found
          THEN UNCHANGED storeVars
          ELSE \E pods3 \in PrunePods([t.pods EXCEPT ![a.pod] = info]) :
                 /\ runtime' = [runtime EXCEPT ![m] = [pods |-> pods3, ancestor |-> t.ancestor]]
                 /\ restartLogs' = IF ~t.isNew /\ RestartedContainer(t.old, s)
                                      THEN [restartLogs EXCEPT ![a.pod] = @ + 1]
                                      ELSE restartLogs
                 /\ CheckForContainerCrash(m, pods3)
                 /\ UNCHANGED deployed

\* handlePodDeleteAction: brute-force removal from every manifest.
HandlePodDeleteAction(a) ==
    /\ runtime' = [m \in Manifests |-> [runtime[m] EXCEPT !.pods[a.pod] = NotTracked]]
    /\ UNCHANGED <<deployed, liveUpdated, needsRebuild, restartLogs>>

\* handlePodResetRestartsAction: rebase the baseline by the restarts seen
\* since the request was made.
HandlePodResetRestartsAction(a) ==
    LET info == runtime[a.mn].pods[a.pod] IN
    IF info = NotTracked THEN UNCHANGED storeVars
    ELSE LET delta == VisibleRestarts(info) - a.visible IN
         /\ runtime' = [runtime EXCEPT ![a.mn].pods[a.pod].baseline = info.restarts - delta]
         /\ UNCHANGED <<deployed, liveUpdated, needsRebuild, restartLogs>>

\* The store loop pops the oldest action and runs its reducer.
ApplyAction ==
    LET a == Head(queue) IN
    /\ queue # <<>>
    /\ queue' = Tail(queue)
    /\ \/ a.type = "change" /\ HandlePodChangeAction(a)
       \/ a.type = "delete" /\ HandlePodDeleteAction(a)
       \/ a.type = "reset"  /\ HandlePodResetRestartsAction(a)
    /\ UNCHANGED <<cluster, applied, watcherVars, envVars>>

-----------------------------------------------------------------------------
(* Specification                                                           *)

Init ==
    /\ cluster = [p \in Pods |-> Absent]
    /\ applied = {}
    /\ knownPods = [p \in Pods |-> Absent]
    /\ descendants = [u \in UIDs |-> {}]
    /\ knownDeployed = [u \in UIDs |-> NoManifest]
    /\ inflight = EmptyBag
    /\ queue = <<>>
    /\ deployed = [m \in Manifests |-> {}]
    /\ runtime = [m \in Manifests |-> [pods |-> [p \in Pods |-> NotTracked],
                                       ancestor |-> NoUID]]
    /\ liveUpdated = [m \in Manifests |-> {}]
    /\ needsRebuild = [m \in Manifests |-> FALSE]
    /\ restartLogs = [p \in Pods |-> 0]
    /\ events = 0
    /\ resets = 0
    /\ liveUpdates = 0

Environment ==
    \/ \E u \in DeployUIDs : Deploy(u)
    \/ \E p \in Pods : CreatePod(p) \/ UpdatePod(p) \/ RedeliverPod(p) \/ DeletePod(p)
    \/ \E m \in Manifests, p \in Pods : RequestResetRestarts(m, p)
    \/ \E m \in Manifests : LiveUpdate(m)

Goroutine ==
    \E g \in BagToSet(inflight) :
        \/ FetchOwnerFails(g)
        \/ TriagePod(g)
        \/ DispatchPodChange(g)
        \/ DispatchPodDelete(g)

Next == Environment \/ Goroutine \/ SetupNewUIDs \/ ApplyAction

\* Goroutines, the subscriber's OnChange and the store loop are scheduled
\* whenever they can run; the cluster and the user owe nothing.
Fairness == WF_vars(Goroutine) /\ WF_vars(SetupNewUIDs) /\ WF_vars(ApplyAction)

Spec == Init /\ [][Next]_vars /\ Fairness

-----------------------------------------------------------------------------
(* Properties                                                              *)

TypeOK ==
    /\ cluster \in [Pods -> PodStates \cup {Absent, Gone}]
    /\ applied \subseteq DeployUIDs
    /\ knownPods \in [Pods -> PodStates \cup {Absent}]
    /\ descendants \in [UIDs -> SUBSET Pods]
    /\ knownDeployed \in [UIDs -> Manifests \cup {NoManifest}]
    /\ IsABag(inflight)
    /\ \A a \in ToSet(queue) : a.type \in {"change", "delete", "reset"}
    /\ deployed \in [Manifests -> SUBSET DeployUIDs]
    /\ \A m \in Manifests :
         /\ runtime[m].pods \in [Pods -> PodInfos \cup {NotTracked}]
         /\ runtime[m].ancestor \in UIDs \cup {NoUID}
    /\ liveUpdated \in [Manifests -> SUBSET ContainerIDs]
    /\ needsRebuild \in [Manifests -> BOOLEAN]
    /\ restartLogs \in [Pods -> 0..MaxRestarts]

\* No watch, goroutine or store step is pending.
Quiescent == queue = <<>> /\ inflight = EmptyBag /\ NewUIDs = {}

\* Pods whose owner is a Tilt deploy (not matched through a selector).
OwnedPods == {p \in Pods : Owner[p] \in DeployUIDs}

\* The update goroutines race each other and the replay in OnChange, yet
\* dispatchPodChange re-reads the freshest pod under the lock: a pod the
\* store keeps tracking never goes back to an older state.
StoreNeverRegresses ==
    [][\A m \in Manifests, p \in Pods :
         (p \in Tracked(m) /\ p \in Tracked(m)')
            => Ver(runtime'[m].pods[p]) >= Ver(runtime[m].pods[p])]_vars

\* Restart detection (restartedContainerNames in handlePodChangeAction):
\* an update that raises the restart count of a pod the manifest keeps
\* tracking logs a restart warning, for every tracked pod, as spec section 8
\* states it.
RestartWarned ==
    [][\A m \in Manifests, p \in Pods :
         (p \in Tracked(m) /\ p \in Tracked(m)'
            /\ runtime'[m].pods[p].restarts > runtime[m].pods[p].restarts)
            => restartLogs'[p] > restartLogs[p]]_vars

\* Once the watcher and the store are idle, no manifest tracks a pod that
\* was deleted from the cluster (handlePodDeleteAction's purpose).
DeletedPodForgotten ==
    Quiescent => \A m \in Manifests, p \in Pods : cluster[p] = Gone => p \notin Tracked(m)

\* A restart count shown to the user is never negative, resets included
\* (handlePodResetRestartsAction).
VisibleRestartsNonNegative ==
    \A m \in Manifests, p \in Pods :
        p \in Tracked(m) => VisibleRestarts(runtime[m].pods[p]) >= 0

\* Crash detection: once idle, every live-updated container is still the
\* running container of its pod, or the pod is gone, or the manifest is
\* flagged for a rebuild (checkForContainerCrash).
CrashNoticedWhenQuiet ==
    Quiescent =>
      \A m \in Manifests : \A c \in liveUpdated[m] :
          \/ needsRebuild[m]
          \/ cluster[c[1]] = Gone
          \/ cluster[c[1]] \in PodStates /\ cluster[c[1]].phase = "Running"
                                         /\ cluster[c[1]].restarts = c[2]

\* Triage closes the race between "pod observed" and "deploy recorded":
\* a running pod of the manifest's current deploy, once the watcher has
\* seen it, ends up tracked, whichever of the two came first.
EventuallyTracked ==
    \A p \in OwnedPods :
        LET m == DeployOf[Owner[p]]
            waiting == /\ knownPods[p] # Absent
                       /\ cluster[p] \in PodStates
                       /\ cluster[p].phase = "Running" /\ ~cluster[p].deleting
                       /\ Owner[p] \in deployed[m]
        IN waiting ~> (p \in Tracked(m) \/ ~waiting)

====
