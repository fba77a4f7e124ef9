# TLA+ models of Tilt's Kubernetes pod tracking

This directory holds TLA+ models of the engine code that watches Kubernetes
pods, matches them to manifests and keeps each manifest's runtime state up to
date. Other parts of the repository are listed here too, with the reason each
one is or is not modelled. Machine-readable details are in `PROJECT.json`:
components, runs, mutants, the definition-to-source map, findings and hazards.

## 1. Inventory

| Component | Source | State | Operations |
|---|---|---|---|
| PodWatcher | `src/unnamed/part_002` 22-254 | `knownPods`, `knownDescendentPodUIDs`, `watcherKnownState.knownDeployedUIDs`, namespace watches, `extraSelectors` | `OnChange` (diff, namespace setup/teardown, `setupNewUIDs`), `dispatchPodChangesLoop` (upsert and start a `dispatchPodChange` goroutine; send deletes from a goroutine), `dispatchPodChange` (`OwnerTreeOf`, `triagePodTree`, fresh-copy dispatch) |
| Engine pod reducers | `event_watch_manager.go` 239-493 | per manifest: `K8sRuntimeState` (`Pods`, `PodAncestorUID`, `DeployedUIDSet`), `LiveUpdatedContainerIDs`, `NeedsRebuildFromCrash` | `handlePodChangeAction` (`matchPodChangeToManifest`, `maybeTrackPod`, `prunePods`, restart detection, baseline, `checkForContainerCrash`), `handlePodDeleteAction`, `handlePodResetRestartsAction` |
| Store action queue | outside `src/` | FIFO of dispatched actions | `Dispatch`; the loop that pops one action and runs its reducer |
| EventWatchManager | `event_watch_manager.go` 1-219 | `knownEvents`, `knownDescendentEventUIDs`, `watcherKnownState` (known deployed UIDs, namespace watches) | `OnChange`, `setupNewUIDs`, `dispatchEventsLoop` (`tiltStartTime` and `ShouldLogEvent` filters), `dispatchEventChange` |
| PodLogStreamController | `event_watch_manager.go` 494-956 | `watches`, `hasClosedStream`, `statuses` | `Reconcile`, `deleteStreams`, `consumeLogs` (retry loop plus a health-check goroutine), `ensureStatus`, `mutateStatus`, `updateStatus` |
| Port-forward controller | `event_watch_manager.go` 957-1179 | `activeForwards` | `diff`, `OnChange` (cancel, then start loops), `startPortForwardLoop` (backoff) |
| Pod status strings | `part_002` 256-363 | none | pure formatting |
| Subscriber wiring, thread-local Tiltfile state, apiserver registration | `subscribers.go`, `thread_local.go`, `builder_resource.go` | startup configuration | none worth checking |
| HUD view and web UI | `part_000`, `part_001`, `part_003`, `src/web` | UI state | presentation |

### How the components interact

1. Each namespace watch delivers pod objects and deleted keys to `dispatchPodChangesLoop`.
2. For a pod object, the loop upserts the pod into `knownPods` and starts a goroutine.
3. That goroutine:
   - looks up the pod's owner tree, which may fail;
   - triages the pod under the watcher lock;
   - re-reads the freshest copy of the pod;
   - dispatches a `PodChangeAction`.
4. For a deleted key, the loop dispatches a `PodDeleteAction` from another goroutine.
5. When a deploy records new UIDs in the store, the subscriber's `OnChange` replays every known pod of those UIDs. This closes the race between "pod seen" and "deploy recorded".
6. The store's loop applies the actions one at a time, in queue order.
7. The reducers track pods per manifest.
   - A pod is tracked only if it comes from the manifest's current deploy.
   - A new ancestor UID drops the previous pods.
   - `prunePods` drops deleting and dead pods.
   - A strict increase of a container's restart count is logged as a restart.
   - A live-updated container that stops running flags the manifest for a rebuild.
8. The port-forward and pod-log controllers read the tracked pods afterwards.
9. The EventWatchManager does the same for Kubernetes events, with its own namespace watches and indexes. Its `OnChange` also tears down the watches of namespaces no manifest needs and sets up the missing ones. Each watch's loop drops events older than Tilt and Normal events other than image pulls. It starts one goroutine per event, which looks up the involved object's owner tree, triages it under the manager's lock and dispatches a `K8sEventAction`.

### Hard behaviours

- Per-pod goroutines and the delete goroutine reach the store in any order.
- `OnChange`'s replay interleaves with the update goroutines.
- Owner lookups can fail, and the watch can re-send a pod.
- Pods are observed both before and after their deploy is recorded.
- A restart reset is computed from a count read earlier.
- `knownPods` entries are never removed.
- In the log streamer, `retry` and `startReadTime` are shared between two goroutines, and a terminationTime channel is handed off between them.
- The port-forward backoff loop must end when its context is cancelled.
- A torn-down event watch is cancelled, but its loop's `select` may still take events from its channel while a new watch of the same namespace lists them again.
- `WatchEvents` can fail; the namespace is retried only by a later `OnChange`.

### Properties each component needs

- **Triage and reducers:**
  - tracked pods never move back to an older state;
  - every tracked restart is warned;
  - deleted pods are not tracked once the system is idle;
  - visible restart counts are never negative;
  - crashes of live-updated containers are noticed;
  - every running pod of the current deploy is eventually tracked.
- **Log streams:** `Reconcile` never blocks on a channel nobody fills; no log line is delivered twice (violated: findings 5 and 6); a running container is eventually streamed; a read error is reported; a superseded watch never overwrites the live one's status.
- **Port forwards:** no live entry outside `activeForwards`; after `OnChange` the active forwards are exactly the wanted ones (the diff is idempotent); cancelled loops return; wanted forwards are eventually served.

- **Events:** at most one open watch per namespace (spec §3; the code leaks subscriptions, see Findings), and an event Tilt should show is eventually dispatched for its manifest, whether it or the deploy came first.

## 2. Modules and plan

| Order | Module | Status |
|---|---|---|
| 1 | `PodTriage` (PodWatcher + store queue + pod reducers) | done |
| 2 | `EventTriage` (EventWatchManager, same replay shape, start-time filter) | done |
| 3 | Watch scope (`createTaskList`, namespace setup/teardown, `setupWatch` errors), composed with the triage modules | done for events, inside `EventTriage`; the pod watcher still takes its watch as established |
| 4 | `PortForward` (`diff`, `OnChange`, `startPortForwardLoop` with backoff step, cap and reset, `populatePortForwards`) | done |
| 5 | `PodLogStream` (`Reconcile`, `deleteStreams`, `consumeLogs` with the health-check goroutine, `hasClosedStream`, terminationTime handoff, the status helpers) | done |
| 6 | an abstract `TrackedPods` specification (a manifest tracks the live pods of its current deploy), with `PodTriage` shown to refine it through an INSTANCE ... WITH mapping | planned |

### PodTriage

`PodTriage.tla` models `PodWatcher`, the store queue and the pod reducers.

**Variables**

| Variable | Code it stands for |
|---|---|
| `cluster` | the pods in the API server |
| `knownPods`, `descendants`, `knownDeployed` | the watcher's maps |
| `inflight` | a bag of running `dispatchPodChange` / delete goroutines, each at stage `fetch` or `dispatch` |
| `queue` | the store's action queue |
| `deployed`, `runtime`, `liveUpdated`, `needsRebuild` | the manifest state |
| `restartLogs` | counts of "Detected container restart" warnings |

**Actions**

- Cluster changes (`CreatePod`, `UpdatePod`, `RedeliverPod`, `DeletePod`) include the watch loop's receipt of the change.
- `Deploy` records a deploy UID in the store.
- `RequestResetRestarts` is the UI's reset request.
- `LiveUpdate` records live-updated containers.
- `FetchOwnerFails`, `TriagePod`, `DispatchPodChange` and `DispatchPodDelete` are the goroutines' steps.
- `SetupNewUIDs` is `OnChange`'s replay.
- `ApplyAction` is the store loop running one reducer, whole.

**Abstractions**

- Each pod has one container. Its container ID is `<<pod, restarts>>`, so a restart changes the ID, as a Kubernetes container restart does.
- Pod phases are reduced to Running and Failed.
- Namespace watches are taken as established.
- `LiveUpdate` happens only once the runtime state tracks pods of the current deploy, as the build controller requires.

### EventTriage

`EventTriage.tla` models the `EventWatchManager` (`event_watch_manager.go` 26-219). `MC_EventTriage.tla` gives two manifests deploying into one namespace, so a teardown waits until both are gone. It also gives three events:

- a Warning about a pod owned by `u1`;
- an image `Pulled` event about `u2` itself;
- a Normal `Scheduled` event created before Tilt started, which the loop drops.

**Variables**

| Variable | Code it stands for |
|---|---|
| `written` | how often the cluster wrote each event |
| `enabled`, `deployed` | the engine state the diff reads: the manifests, and each one's `DeployedUIDSet` |
| `watches` | `watcherKnownState.namespaceWatches`, namespace to watch |
| `loops` | one `dispatchEventsLoop` per watch: namespace, whether its context is cancelled, running or returned, and the channel's undelivered events |
| `knownEvents`, `descendants`, `knownDeployed` | `knownEvents`, `knownDescendentEventUIDs`, `watcherKnownState.knownDeployedUIDs` |
| `inflight` | the bag of running `dispatchEventChange` goroutines |
| `reported` | the (event, manifest) pairs dispatched as `K8sEventAction` |

**Actions**

- `OnChange` is `diff` and `OnChange` as one step. It cancels and forgets the torn-down watches, then calls `setupWatch` for each new namespace. Any `WatchEvents` call may fail and dispatch an error instead. Last, it records the new UIDs and replays their known events.
- `ReceiveEvent` and `LoopExits` are the two cases of the loop's `select`. Both may be enabled once the context is cancelled, since Go picks at random.
- `LookupFails`, `TriageEvent` and `DispatchEvent` are the steps of `dispatchEventChange`.
- `WriteEvent`, `ToggleManifest` and `Deploy` are the cluster and the engine.

**Abstractions**

- `createTaskList` and `WatchEvents` are not under `src/`. They are modelled from spec §4.2: the needed namespaces are those of the enabled manifests. A new watch first lists the events already in its namespace, in any order.
- An event's content is left out. A repeated write is another delivery of the same event.
- The store's `K8sEventAction` reducer is not under `src/`, so the model records what is dispatched.

### PodLogStream

`PodLogStream.tla` models `PodLogStreamController` (`event_watch_manager.go` 494-956) for one PodLogStream object, one pod and one container name. `MC_PodLogStream.tla` instantiates it; each cfg gives the constants.

**Variables**

| Variable | Code it stands for |
|---|---|
| `watches` | `r.watches`, keyed by container ID (`podLogKey`); 0 means no entry |
| `gs` | one record per started `PodLogWatch` and its `consumeLogs` goroutine: `pc`, `cancelled` (`watch.ctx`), `since` (`startReadTime`), `lastRead`, `retry`, `err`, and `term`, the one-slot `terminationTime` channel |
| `hasClosed` | `r.hasClosedStream` |
| `status`, `published` | `r.statuses[stream]` for the one container, and the copy last written with `Status().Update` |
| `pending` | a queued reconcile request (pod events, stream events, and our own status writes) |
| `pod`, `logs`, `clock`, `streamExists` | the cluster: the pod in the informer cache, the seconds each container ID wrote a line in, the wall clock, the PodLogStream object |
| `delivered` | every line `io.Copy` wrote, as `<<container ID, second>>` |

**Actions**

- `Reconcile` is the whole handler, one step: `deleteStreams` when the stream or pod is gone; otherwise `ensureStatus`, then one of skip (`shouldStreamContainerLogs` false), start, keep a live watch, or receive the cancelled watch's termination time and either mark the container terminated or restart from that time; then the cancel loop over stale keys and `updateStatus`.
- The goroutine steps are `OpenFails`, `OpenSucceeds`, `ReadLine`, `CopyEnds`, `HealthCheckFires`, `HealthCheckResumes` and `CloseStream`; `Exit` is the deferred send on `terminationTime` followed by `watch.cancel()`.
- The environment steps are `Tick`, `WriteLine`, the container's start, termination, restart (a new ID) and the pod's deletion, an unrelated pod change (`Resync`), and `DeleteStream`.

**Abstractions**

- Time is whole seconds, the resolution of `SinceTime`; `ContainerLogs` returns the lines at or after `since` (inclusive), so `NextLines` is that set minus what the reader already returned.
- The health-check goroutine of the current pass is the field `hc` of its stream, and steps on its own. `HealthCheckFires` reads `lastRead` and sets `retry = true` (lines 809-814). `HealthCheckResumes` writes `startReadTime = lastRead + gap` and cancels its pass (824-825). Nothing orders these writes against the loop, so between the two steps `io.Copy` may read more lines, end, close `done` (`DoneClosed`) and let the loop read `retry` and `startReadTime` for the next pass. A goroutine that has not fired when `done` closes returns.
- Splitting the first step (the read of `lastRead`, the write of `retry`) adds no outcome. A `close(done)` between them leaves `retry` false, the loop returns, and nothing reads what the goroutine writes after that, so `Exit` drops it. A pass after the first needs a fired health check, and the ASSUME `MaxTime < 2 * HealthCheck + 1` keeps a second one from firing, so one goroutine per stream is enough.
- The error check after `io.Copy` is kept with `loopCtxErr == TRUE`: the loop's `ctx` is the one `cancel()` just cancelled.
- Reconcile requests coalesce into one `pending` flag, as the controller-runtime work queue does for one object. A goroutine's exit does not queue a request.
- `filterContainers`, init containers and several containers per pod are left out: the status and the watches are per container, and one container shows every interaction.

### PortForward

`PortForward.tla` models `portforward.Controller` (`event_watch_manager.go` 957-1168) for one manifest. `MC_PortForward.tla` gives the manifest's forwards (local 8080 with the container port unset, and 9000 to 9000) and the port lists a pod can report (none, `80`, `80, 8080`).

**Variables**

| Variable | Code it stands for |
|---|---|
| `view` | the manifest's `MostRecentPod()`: ID, phase, `Deleting`, container ports |
| `notified` | the store changed since `OnChange` last ran |
| `active` | `m.activeForwards`, pod ID to entry |
| `entries` | every `portForwardEntry` started: pod, resolved forwards, and whether its context is cancelled |
| `loops` | one record per `startPortForwardLoop` goroutine: its entry and forward, where it is (`attempt`, `forwarding`, `check`, `sleep`, `done`), the current backoff, and whether the last attempt lasted a second |

**Actions**

- `OnChange` is `diff` and `OnChange` as one step: the store calls subscribers one at a time.
- The loop steps are `AttemptFails`, `Connect`, `Disconnect`, `AfterAttempt` (the `ctx.Err()` check, then backoff step or reset) and `Wake` (end of `time.Sleep`).
- `StoreChange` is any store action that changes the manifest's most recent pod.
- `PopulatePortForwards` is a RECURSIVE operator over the forwards, in the code's order.

**Abstractions**

- Backoff durations are model units: 1 doubling to a cap of 2 (or 1 in the live run) stand for 50ms doubling to 15s. Jitter only lengthens a sleep, which the model does not time, so it is left out.
- An attempt either fails within a second or forwards until it ends, by error or cancellation.
- A connection attempt on a cancelled context always fails.

**Forwarded when Running or Deleting.** `WantedForwards` is the condition at line 1007: `pod.Phase == Running || pod.Deleting`. The comment at 1006 and spec §4.5 say forwards run only for a running pod. Here the code forwards to a pod being deleted in any phase, and to a Pending pod with a deletion timestamp. The model follows the code, so no property here rests on the comment's reading.

## 3. Runs

| Run | Pods / UIDs | Bounds | Checks | Result |
|---|---|---|---|---|
| `safety` | p1, p2 (owned by u1), p3 (owned by u2) | 1 restart, 4 watch events, owner lookup may fail | `TypeOK`, `StoreNeverRegresses`, `RestartWarned` | pass (about 1.2M distinct states, about 1.5 min) |
| `live` | p1 (u1), p3 (u2) | 1 restart, 3 events, 1 reset, 1 live update | `CrashNoticedWhenQuiet`, `EventuallyTracked` | pass (57k distinct states, under 2 min) |
| `deleted` | p1 (u1) | 2 events | `DeletedPodForgotten` | violation |
| `reset` | p1, p2 (u1) | 4 events, 1 reset | `VisibleRestartsNonNegative` | violation |
| `logstream_safety` | one container, 1 restart | 3 s, health check 2 s, gap 1 s, 2 watches, 1 resync, open may fail | `TypeOK`, `ReconcileNeverBlocks` | pass (1.9M distinct states, 30 s) |
| `logstream_live` | one container, 1 restart | 3 s, 2 watches, no resync, no faults | `EventuallyStreamed` | pass (640k distinct states, about 1.5 min) |
| `logstream_readerr` | one container | 3 s, read may fail | `ReadErrorReported` | violation |
| `logstream_stale` | one container, 1 restart | 3 s, 2 watches | `ErrorStatusMeansNoLiveStream` | violation |
| `logstream_dup` | one container | 3 s, 2 watches, read may fail | `NoDuplicateLines` | violation |
| `logstream_hcrace` | one container | 3 s, 1 watch, no faults | `NoDuplicateLines` | violation |
| `portforward` | p1 | 2 store changes, 2 entries, 4 loops, backoff 1 | `TypeOK`, `NoOrphanForwards`, `ForwardsInSync`, `CancelledLoopsExit`, `EventuallyForwarded` | pass (49k distinct states, under 1 min) |
| `eventtriage` | m1 (u1), m2 (u2), one namespace; e1-e3 | 1 write per event, 3 manifest toggles, 2 watches, 1 setup failure, owner lookup may fail | `TypeOK`, `EventuallyAttributed` | pass (148k distinct states, about 2.5 min) |

**Why the bounds are enough**

- Two UIDs of one manifest give the redeploy (ancestor switch) case.
- Two pods of one UID give pruning and ordering between pods.
- Four watch events allow these to overlap with one another:
  - create, restart, re-send and delete of one pod;
  - the replay;
  - a dropped lookup.
- The violations need 2 to 4 events.
- For port forwards, two store changes reach each of these cases:
  - a pod whose ports arrive under a running entry, so its forwards change and the entry is replaced;
  - a pod that stops running or is deleted, and a new pod ID after it.
  The port list `80, 8080` makes the local-port match differ from "first port". A second pod together with the liveness checks took over four minutes, and three changes did not finish. With one pod, a pod switch is a change of `view.id` from `NoPod`, and a replaced entry still exercises `toShutdown`.
- For the log streams, a health check of 2 s and a gap of 1 s within 3 or 4 s let a stream read, stall, reconnect and be read again. One restart gives a superseded watch beside a new one. Two watches allow a restart of a watch that ended. The constraint `ReconnectGap < HealthCheck` of the code (2 s < 15 s) is kept. The liveness run has no resync, because the split health check made it four times larger. The safety run has one.

- For events, three toggles let a shared namespace be needed, torn down and needed again, so a cancelled loop, whose subscription stays open, and a new watch of the same namespace coexist. Two watches allow that re-setup. One setup failure gives the retry by a later `OnChange`. Two manifests in one namespace make a teardown depend on both.

**Deadlock checking**

Every run sets `CHECK_DEADLOCK FALSE`. Once the cluster stops changing, the watcher and the store really do idle. In `PodLogStream` the clock stops at `MaxTime` and a streaming goroutine then waits on a read that never comes, as it does when a container is silent.

**Fairness**

`PodTriage` assumes weak fairness of the goroutines, of `OnChange`'s replay and of the store loop. The Go scheduler runs runnable goroutines, and the store calls its subscribers after every action. The cluster and the user owe nothing. A failed owner lookup is not retried by the code, so liveness is stated for pods whose update goroutines were not dropped. The `live` run sets `OwnerFetchCanFail = FALSE` for that reason.

`PortForward` assumes weak fairness of `OnChange`, since the store notifies its subscribers after every change, and of each loop's steps other than `Disconnect`. A live connection may forward forever. Only a connection whose context was cancelled is assumed to end, because `ForwardPorts` returns when its context is cancelled. That is the client's contract, not code under `src/`, so `CancelledLoopsExit` holds under this assumption (hazard at line 1090).

`EventTriage` assumes weak fairness of `OnChange` and of every goroutine. The store calls `OnChange` after every change, and the diff is enabled exactly while it has work. The cluster and the engine owe nothing. `EventuallyAttributed` exempts events whose owner lookup failed, because the code drops those until the next write (spec §7(b)).

`PodLogStream` assumes weak fairness of `Reconcile` (the worker drains its queue) and of each goroutine's steps. The clock, the container and the pod owe nothing. `logstream_live` allows no open or read failures: a failed open ends a goroutine, and nothing queues a reconcile for it.

### Findings

1. **Deleted pods are re-tracked** (`deleted`). The deletion branch of the watch loop never removes the pod from `knownPods`. `setupNewUIDs` then replays the deleted pod after its delete action, and the manifest keeps tracking a pod that no longer exists.
2. **Visible restart count can go negative** (`reset`). Suppose a pod is dropped and re-tracked between a reset request and its reducer. The rebased baseline then exceeds the restart count, and the visible count goes negative.

3. **A terminal read error is never reported** (`logstream_readerr`). After `io.Copy`, the code calls `cancel()` on the loop's context and then checks `ctx.Err() == nil` on the same context. That branch can never run, so the status stays Active with no Error. spec.md §4.5 says the status is recorded as errored.
4. **A superseded watch overwrites the live status** (`logstream_stale`). The status is per container name. After a restart, the cancelled watch of the old container ID can fail `ContainerLogs` after the new watch opened. It then writes Active=false and an Error, although the new stream is live.
5. **Lines are duplicated after a restarted watch** (`logstream_dup`). A watch that ended on a read error while its container runs is restarted by the next `Reconcile` from its termination time. `SinceTime` is inclusive at second resolution, so the lines of that second come again. The comment says the new watch "picks up where it left off".
6. **The health-check reconnect can duplicate lines** (`logstream_hcrace`). The health-check goroutine writes `retry` (line 814) and then `startReadTime` (line 824) without a lock. If `io.Copy` ends on its own between the two writes (here the container terminated and the reader hit EOF), `close(done)` and the loop's next pass can read `retry == true` with the old `startReadTime`, and the lines already copied are streamed again. The same happens when `io.Copy` reads a line after the goroutine took `lastRead`. The comment at 816-823 says the reconnect starts 2 s after the last read so as not to duplicate logs.

Noted, not checked as a run: `setupWatch` calls `WatchEvents(ctx, ns)` with the manager's context (line 96) and derives the cancel handle only afterwards (103-104). Cancelling a torn-down namespace ends its `dispatchEventsLoop`, but not the subscription. A namespace torn down and set up again has two open watches, against spec §3 ("at most one active watch per namespace"). Until the old loop returns, its `select` may still take events from that subscription and dispatch them. `EventTriage` delivers events to such a loop, but a leak of server-side watches is not visible in what is dispatched, so no run checks it.

Noted, not checked as a run: a pod matched only by an extra pod selector has an empty ancestor UID. `maybeTrackPod` therefore resets the pod set and reports "new" on every update, and its restarts are never warned. Spec §8 asks for every restart to be reported, but spec §4.4 itself prescribes the reset when no ancestor is tracked. This is a conflict between two spec sections rather than with the code.

Noted, not checked as a run: two writes of the same event start two `dispatchEventChange` goroutines, which can dispatch in the opposite order (spec §5 asks for per-object receipt order). The later goroutine to triage also wins `knownEvents[uid] = event` (line 140), so `setupNewUIDs` may replay the older copy. The model keeps an event's UID only, and the run writes each event once, so the copies never race.

Noted, not checked as a run: when a watch channel closes while its context is live, `dispatchEventsLoop` (and `dispatchPodChangesLoop`) returns, but the `namespaceWatches` entry stays. The diff then never sets the namespace up again, although spec §7(a) says watch disconnects are retried. Whether the channel closes on a dropped connection depends on `k8s.Client.WatchEvents`, which is not under `src/`. The model closes loops only by cancellation.

Observed but not checked as a run: `time.Sleep` in the port-forward backoff does not watch the context. A loop cancelled while asleep wakes, possibly 15 s later, and calls `onePortForward` once more before it checks `ctx.Err()`. spec.md asks retry loops to stop immediately on cancellation. `CancelledLoopsExit` shows that the loop still returns.

### Mutants

Each property of a passing run is shown to be violated when one mapped definition is replaced by a plausible bug. The mutants are listed in `PROJECT.json`:

- a dispatch of the stale snapshot;
- `isNew` always true;
- an equal restart count taken for a restart;
- crash detection ignoring the pod phase;
- a replay that skips descendants;
- a termination time sent on every pass of the retry loop;
- `shouldStreamContainerLogs` without the `hasClosedStream` check;
- the end of `Reconcile` cancelling every watch, the kept ones included;
- a backoff without its cap;
- a replaced port-forward entry left out of `toShutdown`;
- forwards compared by their number only;
- a loop that never checks its context;
- `statePods` missing a pod whose entry was just restarted;
- an event indexed under its owners but not under its involved object;
- event triage returning the matched UID instead of its manifest.

## 4. Not modelled

- Pod status strings, subscriber wiring, Tiltfile thread-local state, apiserver registration, the HUD and the web UI. These are formatting, configuration or presentation, with no concurrent state to check.
- In the event watcher: the store's `K8sEventAction` reducer and the `createTaskList`/`WatchEvents` code, which are not under `src/`, and the contents of an event. The growth of `knownEvents` and `knownDescendentEventUIDs` is not modelled either; they are never pruned, and a finite model cannot show unbounded growth.
- `subscribers.go` only builds the fixed list of subscribers in order, and `thread_local.go` only gets and sets two Starlark thread-local values for one thread. Neither has concurrent or multi-step state that a model checker would add to a unit test.
- In the port-forward controller: `PodLogActionWriter`, which only turns forwarding errors into log actions, and the backoff jitter.
- In the log streamer: `filterContainers`, several containers per pod, API-server `Get` errors that end `Reconcile` early, and the growth of `hasClosedStream`, which is never pruned.
