---------------------------- MODULE EventTriage ----------------------------
(***************************************************************************)
(* The EventWatchManager (k8swatch): the event half of ownership triage,   *)
(* with the namespace watch scope it keeps.                                *)
(*                                                                         *)
(*   OnChange: diff (createTaskList) -> cancel and forget torn-down        *)
(*        namespaces -> setupWatch each new one (WatchEvents may fail)     *)
(*        -> setupNewUIDs replays the known events of each new UID         *)
(*   dispatchEventsLoop, one per watch: select { event | ctx.Done }        *)
(*        drops events older than Tilt and unlogged Normal events,         *)
(*        `go dispatchEventChange` for the others                          *)
(*   dispatchEventChange: OwnerTreeOfRef (may fail)                        *)
(*        -> triageEventUpdate (lock) -> Dispatch(K8sEventAction)          *)
(*                                                                         *)
(* The store's reducer for K8sEventAction is not part of the model: what  *)
(* the manager dispatches is recorded as the set of (event, manifest)      *)
(* pairs reported so far.                                                  *)
(***************************************************************************)
EXTENDS Integers, SequencesExt, BagsExt

CONSTANTS
    Manifests,          \* manifest names
    Namespaces,         \* namespaces manifests deploy into
    NsOf,               \* [Manifests -> Namespaces]
    DeployUIDs,         \* UIDs of the root objects a deploy applies
    DeployOf,           \* [DeployUIDs -> Manifests]
    Events,             \* event UIDs
    EventNs,            \* [Events -> Namespaces]
    Chain,              \* [Events -> Seq(UIDs)]: OwnerTreeOfRef(InvolvedObject).UIDs()
    EventType,          \* [Events -> {"Normal", "Warning"}]
    Reason,             \* [Events -> reasons]
    PreStart,           \* events created before TiltStartTime
    NoManifest,         \* the empty ManifestName ""
    MaxVersions,        \* bound on the times the cluster writes one event
    MaxToggles,         \* bound on manifests added to or removed from the engine
    MaxWatches,         \* bound on watches set up
    MaxSetupFailures,   \* bound on WatchEvents errors
    OwnerFetchCanFail   \* whether OwnerTreeOfRef may return an error

UIDs == UNION {ToSet(Chain[e]) : e \in Events} \cup DeployUIDs

ASSUME /\ PreStart \subseteq Events
       /\ {MaxVersions, MaxToggles, MaxWatches, MaxSetupFailures} \subseteq Nat
       /\ OwnerFetchCanFail \in BOOLEAN
       \* a chain holds at most one deploy root, so an event has one owner
       /\ \A e \in Events : Cardinality(ToSet(Chain[e]) \cap DeployUIDs) <= 1

WatchIds == 1..MaxWatches

VARIABLES
    written,        \* [Events -> 0..MaxVersions]: times the cluster wrote the event
    enabled,        \* manifests in the engine state
    deployed,       \* per manifest, its DeployedUIDSet
    watches,        \* watcherKnownState.namespaceWatches: [Namespaces -> WatchIds \cup {0}]
    loops,          \* dispatchEventsLoop goroutines: [ns, cancelled, pc, chan]
    nextWatch,
    knownEvents,    \* EventWatchManager.knownEvents, as a set of UIDs
    descendants,    \* EventWatchManager.knownDescendentEventUIDs
    knownDeployed,  \* watcherKnownState.knownDeployedUIDs
    inflight,       \* bag of running dispatchEventChange goroutines
    reported,       \* (event, manifest) pairs dispatched as K8sEventAction
    lookupFailed,   \* events an OwnerTreeOfRef call failed for
    errors,         \* error actions dispatched by setupWatch
    toggles         \* manifests added or removed so far

envVars     == <<written, enabled, deployed, toggles>>
managerVars == <<watches, loops, nextWatch, knownEvents, descendants, knownDeployed>>
vars == <<envVars, managerVars, inflight, reported, lookupFailed, errors>>

-----------------------------------------------------------------------------
(* Cluster and engine                                                      *)

\* The cluster creates or updates an event; every open subscription of
\* its namespace delivers it.  setupWatch opens the subscription with the
\* manager's context, not the one its cancel handle cancels, so a torn-down
\* watch's subscription stays open and a cancelled loop that has not yet
\* returned keeps receiving.  Writes to the channel of a returned loop are
\* read by nobody and left out.
WriteEvent(e) ==
    /\ written[e] < MaxVersions
    /\ written' = [written EXCEPT ![e] = @ + 1]
    /\ loops' = [w \in WatchIds |->
                   IF loops[w].pc = "run" /\ loops[w].ns = EventNs[e]
                   THEN [loops[w] EXCEPT !.chan = Append(@, e)] ELSE loops[w]]
    /\ UNCHANGED <<enabled, deployed, toggles, watches, nextWatch, knownEvents, descendants,
                   knownDeployed, inflight, reported, lookupFailed, errors>>

\* The Tiltfile adds or removes a manifest (a removed one takes its deploy
\* state with it).
ToggleManifest(m) ==
    /\ toggles < MaxToggles
    /\ toggles' = toggles + 1
    /\ enabled' = IF m \in enabled THEN enabled \ {m} ELSE enabled \cup {m}
    /\ deployed' = [deployed EXCEPT ![m] = {}]
    /\ UNCHANGED <<written, managerVars, inflight, reported, lookupFailed, errors>>

\* A deploy of an enabled manifest records the UID it applied.
Deploy(u) ==
    /\ DeployOf[u] \in enabled
    /\ u \notin deployed[DeployOf[u]]
    /\ deployed' = [deployed EXCEPT ![DeployOf[u]] = {u}]
    /\ UNCHANGED <<written, enabled, toggles, managerVars, inflight, reported, lookupFailed,
                   errors>>

-----------------------------------------------------------------------------
(* diff: watcherKnownState.createTaskList                                  *)

NeededNamespaces == {NsOf[m] : m \in enabled}
WatchedNamespaces == {ns \in Namespaces : watches[ns] # 0}
SetupNamespaces == NeededNamespaces \ WatchedNamespaces
TeardownNamespaces == WatchedNamespaces \ NeededNamespaces
NewUIDs == {u \in DeployUIDs : (\E m \in enabled : u \in deployed[m])
                               /\ knownDeployed[u] = NoManifest}

-----------------------------------------------------------------------------
(* OnChange                                                                *)

\* The watches whose cancel() OnChange calls: those of torn-down namespaces.
TeardownCancels(down) == {watches[ns] : ns \in down}

\* setupWatch: a watch on a namespace lists the events already in it, in
\* no particular order, then delivers every later write.
NewLoop(ns, initial) == [ns |-> ns, cancelled |-> FALSE, pc |-> "run", chan |-> initial]
Listed(ns) == {e \in Events : EventNs[e] = ns /\ written[e] > 0}
ListOrders(ok) == {o \in [ok -> UNION {SetToSeqs(Listed(n)) : n \in ok}] :
                     \A n \in ok : ToSet(o[n]) = Listed(n)}

\* setupNewUIDs: the events replayed for the new UIDs, with their manifest.
Replayed(new) == {<<e, DeployOf[u]>> : <<u, e>> \in {<<u, e>> \in new \X Events :
                                                       e \in descendants[u] \cap knownEvents}}

\* OnChange, whole: tear down, set up (each WatchEvents call may fail and
\* dispatch an error action instead), then record and replay new UIDs.
OnChange ==
    LET down == TeardownNamespaces
        up   == SetupNamespaces
        new  == NewUIDs
        cut  == TeardownCancels(down)
    IN /\ down \cup up \cup new # {}
       /\ \E failed \in SUBSET up, order \in ListOrders(up) :
            LET ok == up \ failed
                first == nextWatch
                last  == nextWatch + Cardinality(ok) - 1
            IN /\ errors + Cardinality(failed) <= MaxSetupFailures
               /\ last <= MaxWatches
               /\ errors' = errors + Cardinality(failed)
               /\ nextWatch' = last + 1
               /\ \E ids \in [ok -> first..last] :
                    /\ IsInjective(ids)
                    /\ watches' = [ns \in Namespaces |-> IF ns \in ok THEN ids[ns]
                                                         ELSE IF ns \in down THEN 0
                                                         ELSE watches[ns]]
                    /\ loops' = [w \in WatchIds |->
                                   IF w \in Range(ids)
                                   THEN NewLoop(CHOOSE n \in ok : ids[n] = w,
                                                order[CHOOSE n \in ok : ids[n] = w])
                                   ELSE IF w \in cut THEN [loops[w] EXCEPT !.cancelled = TRUE]
                                   ELSE loops[w]]
       /\ knownDeployed' = [u \in UIDs |-> IF u \in new THEN DeployOf[u] ELSE knownDeployed[u]]
       /\ reported' = reported \cup Replayed(new)
       /\ UNCHANGED <<envVars, knownEvents, descendants, inflight, lookupFailed>>

-----------------------------------------------------------------------------
(* dispatchEventsLoop                                                      *)

\* ShouldLogEvent: every non-Normal event, and the image pull ones.
ShouldLogEvent(e) ==
    EventType[e] # "Normal" \/ Reason[e] \in {"Pulling", "Pulled"}

\* The select takes the next event off the channel (Go picks at random
\* when the context is also done).  An event created before Tilt started,
\* or one not worth logging, is skipped; any other starts a
\* dispatchEventChange goroutine.
ReceiveEvent(w) ==
    LET e == Head(loops[w].chan) IN
    /\ loops[w].pc = "run"
    /\ loops[w].chan # <<>>
    /\ loops' = [loops EXCEPT ![w].chan = Tail(@)]
    /\ inflight' = IF e \notin PreStart /\ ShouldLogEvent(e)
                   THEN BagAdd(inflight, [event |-> e, stage |-> "fetch", mn |-> NoManifest])
                   ELSE inflight
    /\ UNCHANGED <<envVars, watches, nextWatch, knownEvents, descendants, knownDeployed,
                   reported, lookupFailed, errors>>

\* The select sees ctx.Done() and the loop returns.
LoopExits(w) ==
    /\ loops[w].pc = "run"
    /\ loops[w].cancelled
    /\ loops' = [loops EXCEPT ![w].pc = "done"]
    /\ UNCHANGED <<envVars, watches, nextWatch, knownEvents, descendants, knownDeployed,
                   inflight, reported, lookupFailed, errors>>

-----------------------------------------------------------------------------
(* dispatchEventChange                                                     *)

\* OwnerTreeOfRef returned an error: the event is logged and dropped.
LookupFails(g) ==
    /\ OwnerFetchCanFail
    /\ g.stage = "fetch"
    /\ inflight' = BagRemove(inflight, g)
    /\ lookupFailed' = lookupFailed \cup {g.event}
    /\ UNCHANGED <<envVars, managerVars, reported, errors>>

\* Fault: the event is indexed under its owners only, not under itself.
IndexEventOwnersOnly(e) ==
    [u \in UIDs |-> IF u \in ToSet(Tail(Chain[e])) THEN descendants[u] \cup {e}
                    ELSE descendants[u]]

\* triageEventUpdate, index part: the event is recorded under every UID of
\* its involved object's tree, the object itself included.
IndexEvent(e) ==
    [u \in UIDs |-> IF u \in ToSet(Chain[e]) THEN descendants[u] \cup {e} ELSE descendants[u]]

\* Fault: the match yields the ancestor UID rather than its manifest.
MatchEventAncestor(e) ==
    LET i == SelectInSeq(Chain[e], LAMBDA u : knownDeployed[u] # NoManifest)
    IN IF i # 0 THEN Chain[e][i] ELSE NoManifest

\* triageEventUpdate, match part: the manifest of the first UID of the
\* tree that was deployed, else none.
MatchEvent(e) ==
    LET i == SelectInSeq(Chain[e], LAMBDA u : knownDeployed[u] # NoManifest)
    IN IF i # 0 THEN knownDeployed[Chain[e][i]] ELSE NoManifest

\* triageEventUpdate, whole, under the manager's lock.  An unmatched event
\* goroutine returns.
TriageEvent(g) ==
    LET mn == MatchEvent(g.event) IN
    /\ g.stage = "fetch"
    /\ knownEvents' = knownEvents \cup {g.event}
    /\ descendants' = IndexEvent(g.event)
    /\ inflight' = IF mn = NoManifest THEN BagRemove(inflight, g)
                   ELSE BagAdd(BagRemove(inflight, g), [g EXCEPT !.stage = "dispatch", !.mn = mn])
    /\ UNCHANGED <<envVars, watches, loops, nextWatch, knownDeployed, reported, lookupFailed,
                   errors>>

\* st.Dispatch(NewK8sEventAction(event, mn)), after the lock is released.
DispatchEvent(g) ==
    /\ g.stage = "dispatch"
    /\ inflight' = BagRemove(inflight, g)
    /\ reported' = reported \cup {<<g.event, g.mn>>}
    /\ UNCHANGED <<envVars, managerVars, lookupFailed, errors>>

-----------------------------------------------------------------------------
(* Specification                                                           *)

\* NewEventWatchManager: no watches, empty indexes.  Events created before
\* Tilt started are already in the cluster.
Init ==
    /\ written = [e \in Events |-> IF e \in PreStart THEN 1 ELSE 0]
    /\ enabled = {}
    /\ deployed = [m \in Manifests |-> {}]
    /\ toggles = 0
    /\ watches = [ns \in Namespaces |-> 0]
    /\ loops = [w \in WatchIds |-> [ns |-> CHOOSE ns \in Namespaces : TRUE, cancelled |-> FALSE,
                                    pc |-> "idle", chan |-> <<>>]]
    /\ nextWatch = 1
    /\ knownEvents = {}
    /\ descendants = [u \in UIDs |-> {}]
    /\ knownDeployed = [u \in UIDs |-> NoManifest]
    /\ inflight = EmptyBag
    /\ reported = {}
    /\ lookupFailed = {}
    /\ errors = 0

Environment ==
    \/ \E e \in Events : WriteEvent(e)
    \/ \E m \in Manifests : ToggleManifest(m)
    \/ \E u \in DeployUIDs : Deploy(u)

Loop(w) == ReceiveEvent(w) \/ LoopExits(w)

Goroutine(g) == LookupFails(g) \/ TriageEvent(g) \/ DispatchEvent(g)

Next ==
    \/ Environment
    \/ OnChange
    \/ \E w \in WatchIds : Loop(w)
    \/ \E g \in BagToSet(inflight) : Goroutine(g)

\* The store calls OnChange after every change, so it runs whenever the
\* diff has work; the Go scheduler runs every runnable goroutine.  The
\* cluster and the user owe nothing.
Fairness ==
    /\ WF_vars(OnChange)
    /\ \A w \in WatchIds : WF_vars(Loop(w))
    /\ WF_vars(\E g \in BagToSet(inflight) : Goroutine(g))

Spec == Init /\ [][Next]_vars /\ Fairness

-----------------------------------------------------------------------------
(* Properties                                                              *)

TypeOK ==
    /\ written \in [Events -> 0..MaxVersions]
    /\ enabled \subseteq Manifests
    /\ deployed \in [Manifests -> SUBSET DeployUIDs]
    /\ watches \in [Namespaces -> WatchIds \cup {0}]
    /\ loops \in [WatchIds -> [ns: Namespaces, cancelled: BOOLEAN,
                               pc: {"idle", "run", "done"}, chan: Seq(Events)]]
    /\ knownEvents \subseteq Events
    /\ descendants \in [UIDs -> SUBSET Events]
    /\ knownDeployed \in [UIDs -> Manifests \cup {NoManifest}]
    /\ IsABag(inflight)
    /\ reported \subseteq Events \X Manifests

\* Triage closes the race between "event observed" and "deploy recorded"
\* (spec 8): an event Tilt should show, written after it started into the
\* namespace of an enabled manifest whose deploy owns it, is eventually
\* dispatched for that manifest, whichever came first, unless an owner
\* lookup for it failed (spec 7(b): dropped until its next write).
Attributable(e, m) ==
    /\ m \in enabled /\ NsOf[m] = EventNs[e]
    /\ written[e] > 0 /\ e \notin PreStart /\ ShouldLogEvent(e)
    /\ \E u \in deployed[m] : u \in ToSet(Chain[e])
EventuallyAttributed ==
    \A e \in Events, m \in Manifests :
        Attributable(e, m) ~> (<<e, m>> \in reported \/ ~Attributable(e, m)
                                                      \/ e \in lookupFailed)

====
