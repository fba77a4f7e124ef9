---------------------------- MODULE PodLogStream ----------------------------
(***************************************************************************)
(* runtimelog.PodLogStreamController for one PodLogStream object, one pod  *)
(* and one container name.  Reconcile runs on the controller's worker; one *)
(* consumeLogs goroutine runs per started watch; the health-check         *)
(* goroutine of its current pass is a field of it, stepping on its own.    *)
(*                                                                         *)
(*   Reconcile: stream/pod gone -> deleteStreams; else ensureStatus, start *)
(*     or restart the container's watch, cancel the others, updateStatus   *)
(*   consumeLogs: loop { ContainerLogs -> (error: status, return)          *)
(*                       Active status -> io.Copy -> close -> retry? }     *)
(*                defer { terminationTime <- now; cancel }                 *)
(*                                                                         *)
(* Time is whole seconds, the resolution of a SinceTime; a log line is     *)
(* the second it was written in, and a container ID is its restart count.  *)
(***************************************************************************)
EXTENDS Integers, SequencesExt

CONSTANTS
    MaxRestarts,          \* container restarts (a new container ID each)
    MaxTime,              \* the clock stops here
    HealthCheck,          \* podLogHealthCheck (15s)
    ReconnectGap,         \* podLogReconnectGap (2s)
    SinceTime,            \* PodLogStream.Spec.SinceTime (0: unset)
    MaxWatches,           \* bound on watches started
    MaxResyncs,           \* bound on Reconcile triggers by unrelated pod changes
    OpenCanFail,          \* ContainerLogs may fail on a live context
    ReadCanFail,          \* io.Copy may end with a read error
    NoStatus              \* r.statuses has no entry

ASSUME /\ {MaxRestarts, MaxTime, HealthCheck, ReconnectGap, SinceTime,
           MaxWatches, MaxResyncs} \subseteq Nat
       /\ ReconnectGap < HealthCheck /\ SinceTime <= MaxTime
       /\ {OpenCanFail, ReadCanFail} \subseteq BOOLEAN
       \* A pass after the first needs a health check to fire; one of its own
       \* cannot fire before the clock stops, so one goroutine per watch is enough.
       /\ MaxTime < 2 * HealthCheck + 1

Keys  == 0..MaxRestarts          \* podLogKey: the stream and pod are fixed
Times == 0..MaxTime              \* 0 is the zero time.Time
Ids   == 1..MaxWatches           \* goroutine identities, in start order

\* ContainerLogStreamStatus of the one container.
Statuses == [active: BOOLEAN, terminated: BOOLEAN, error: BOOLEAN]

\* A PodLogWatch and the state of its consumeLogs goroutine.
Goroutines ==
    [key: Keys, pc: {"idle", "open", "copy", "closing", "done"},
     cancelled: BOOLEAN,        \* watch.ctx cancelled
     since: Times,              \* startReadTime
     pos: -1..MaxTime,          \* last line the reader returned
     lastRead: Times,           \* reader.LastReadTime()
     retry: BOOLEAN, err: BOOLEAN,
     term: Seq(Times),          \* watch.terminationTime, capacity 1
     hc: {"off", "watch", "retrySet"},  \* health-check goroutine
     hcLast: Times,             \* the lastRead it read
     hcStale: BOOLEAN]          \* close(done) happened on its pass

VARIABLES
    clock,          \* wall clock, in seconds
    logs,           \* [Keys -> SUBSET Times]: seconds each container wrote a line in
    pod,            \* the pod in the informer cache: [phase, cid, gone]
    streamExists,   \* the PodLogStream object exists
    pending,        \* a reconcile request is queued
    resyncs,        \* unrelated pod changes so far
    watches,        \* r.watches: [Keys -> 0..MaxWatches], 0 for none
    gs,             \* [Ids -> Goroutines], pc "idle" until started
    nextId,         \* next goroutine identity
    hasClosed,      \* r.hasClosedStream
    status,         \* r.statuses[stream]: a Statuses record or NoStatus
    published,      \* the status last written to the API server
    delivered       \* <<key, second>> of every line written to the log

vars == <<clock, logs, pod, streamExists, pending, resyncs, watches, gs,
          nextId, hasClosed, status, published, delivered>>
envVars  == <<clock, logs, pod, streamExists, resyncs>>
ctrlVars == <<watches, gs, nextId, hasClosed, status, published>>

-----------------------------------------------------------------------------
(* Status helpers                                                          *)

\* mutateStatus: a no-op once deleteStreams dropped the entry.
MutateStatus(st, active, error) ==
    IF st = NoStatus THEN st ELSE [st EXCEPT !.active = active, !.error = error]

\* updateStatus: write the status to the server when the object exists and
\* the status differs; the write is itself an event that queues a Reconcile.
UpdateStatus(st, wasPending) ==
    LET changed == streamExists /\ st # NoStatus /\ st # published IN
    /\ published' = IF changed THEN st ELSE published
    /\ pending' = (changed \/ wasPending)

\* ensureStatus: the container name list never changes here, so an entry is
\* only created when missing.
EnsureStatus(st) ==
    IF st = NoStatus THEN [active |-> FALSE, terminated |-> FALSE, error |-> FALSE]
    ELSE st

-----------------------------------------------------------------------------
(* The cluster and the clock: the environment                              *)

Tick ==
    /\ clock < MaxTime
    /\ clock' = clock + 1
    /\ UNCHANGED <<logs, pod, streamExists, pending, resyncs, ctrlVars, delivered>>

\* The running container writes a line.
WriteLine ==
    /\ pod.phase = "running" /\ ~pod.gone
    /\ clock \notin logs[pod.cid]
    /\ logs' = [logs EXCEPT ![pod.cid] = @ \cup {clock}]
    /\ UNCHANGED <<clock, pod, streamExists, pending, resyncs, ctrlVars, delivered>>

\* A pod change, which the pod source turns into a reconcile request.
PodChange(p) ==
    /\ ~pod.gone
    /\ pod' = p
    /\ pending' = TRUE
    /\ UNCHANGED <<clock, logs, streamExists, resyncs, ctrlVars, delivered>>

StartContainer == pod.phase = "waiting" /\ PodChange([pod EXCEPT !.phase = "running"])

TerminateContainer == pod.phase = "running" /\ PodChange([pod EXCEPT !.phase = "terminated"])

RestartContainer ==
    /\ pod.phase = "terminated" /\ pod.cid < MaxRestarts
    /\ PodChange([pod EXCEPT !.phase = "running", !.cid = @ + 1])

DeletePod == PodChange([pod EXCEPT !.gone = TRUE])

\* Another field of the pod (a condition, an annotation) changes.
Resync ==
    /\ ~pod.gone
    /\ resyncs < MaxResyncs
    /\ resyncs' = resyncs + 1
    /\ pending' = TRUE
    /\ UNCHANGED <<clock, logs, pod, streamExists, ctrlVars, delivered>>

DeleteStream ==
    /\ streamExists
    /\ streamExists' = FALSE
    /\ pending' = TRUE
    /\ UNCHANGED <<clock, logs, pod, resyncs, ctrlVars, delivered>>

-----------------------------------------------------------------------------
(* consumeLogs                                                             *)

\* The lines the reader has still to return: at or after the requested
\* start and after the last one it returned.
NextLines(g) == {s \in logs[g.key] : s >= g.since /\ s > g.pos}

\* The deferred send on terminationTime, then watch.cancel().  A
\* health-check goroutine left running writes only variables of the
\* returned loop, which nobody reads again: it is dropped.
Exit(g) == [g EXCEPT !.term = Append(@, clock), !.cancelled = TRUE, !.pc = "done",
                     !.hc = "off", !.hcStale = FALSE]

\* ContainerLogs fails (always, once watch.ctx is cancelled): the status
\* records the error and the goroutine returns.
OpenFails(i) ==
    LET g == gs[i] IN
    /\ g.pc = "open"
    /\ g.cancelled \/ OpenCanFail
    /\ gs' = [gs EXCEPT ![i] = Exit(g)]
    /\ status' = MutateStatus(status, FALSE, TRUE)
    /\ UpdateStatus(status', pending)
    /\ UNCHANGED <<envVars, watches, nextId, hasClosed, delivered>>

\* ContainerLogs succeeds: a fresh reader with no read yet, the health-check
\* goroutine started (unless the last one is still running: see the ASSUME),
\* and the status marked active.
OpenSucceeds(i) ==
    LET g == gs[i] IN
    /\ g.pc = "open" /\ ~g.cancelled
    /\ gs' = [gs EXCEPT ![i] = [g EXCEPT !.pc = "copy", !.retry = FALSE, !.err = FALSE,
                                         !.pos = g.since - 1, !.lastRead = 0,
                                         !.hc = IF g.hc = "off" THEN "watch" ELSE g.hc]]
    /\ status' = MutateStatus(status, TRUE, FALSE)
    /\ UpdateStatus(status', pending)
    /\ UNCHANGED <<envVars, watches, nextId, hasClosed, delivered>>

\* io.Copy hands one line to the log.
ReadLine(i) ==
    LET g == gs[i] IN
    /\ g.pc = "copy" /\ ~g.cancelled
    /\ NextLines(g) # {}
    /\ delivered' = Append(delivered, <<g.key, Min(NextLines(g))>>)
    /\ gs' = [gs EXCEPT ![i].pos = Min(NextLines(g)), ![i].lastRead = clock]
    /\ UNCHANGED <<envVars, pending, watches, nextId, hasClosed, status, published>>

\* io.Copy returns: the context was cancelled, a read failed, or the
\* container stopped and every line was read (EOF, no error).
CopyEnds(i) ==
    LET g    == gs[i]
        eof  == (pod.gone \/ pod.cid # g.key \/ pod.phase # "running") /\ NextLines(g) = {}
        errs == (IF g.cancelled \/ ReadCanFail THEN {TRUE} ELSE {})
                \cup (IF eof /\ ~g.cancelled THEN {FALSE} ELSE {})
    IN /\ g.pc = "copy"
       /\ \E err \in errs : gs' = [gs EXCEPT ![i].pc = "closing", ![i].err = err]
       /\ UNCHANGED <<envVars, pending, watches, nextId, hasClosed, status,
                      published, delivered>>

\* startReadTime after a stall: podLogReconnectGap past the last read.
ReconnectSince(lastRead) == lastRead + ReconnectGap

\* The health-check goroutine, in two steps: the ticker finds no read for
\* HealthCheck seconds and sets retry = true; then it writes startReadTime
\* and cancels.  io.Copy may read on, and close(done) and the loop's read
\* of retry may happen, between the two.  (A close(done) before the first
\* step leaves retry false: the loop returns, and what the goroutine does
\* after that is dropped with it by Exit.)
HealthCheckFires(i) ==
    LET g == gs[i] IN
    /\ g.hc = "watch"
    /\ g.lastRead # 0 /\ clock - g.lastRead >= HealthCheck
    /\ gs' = [gs EXCEPT ![i].hc = "retrySet", ![i].hcLast = g.lastRead, ![i].retry = TRUE]
    /\ UNCHANGED <<envVars, pending, watches, nextId, hasClosed, status,
                   published, delivered>>

\* startReadTime = lastRead + gap, then cancel() of its own pass's context:
\* io.Copy returns with an error if that pass is still copying.
HealthCheckResumes(i) ==
    LET g == gs[i]
        cut == ~g.hcStale /\ g.pc = "copy"
    IN /\ g.hc = "retrySet"
       /\ gs' = [gs EXCEPT ![i] = [g EXCEPT !.since = ReconnectSince(g.hcLast),
                                            !.pc = IF cut THEN "closing" ELSE g.pc,
                                            !.err = IF cut THEN TRUE ELSE g.err,
                                            !.hc = "off", !.hcLast = 0, !.hcStale = FALSE]]
       /\ UNCHANGED <<envVars, pending, watches, nextId, hasClosed, status,
                      published, delivered>>

\* close(done): a health-check goroutine between its two steps outlives
\* the pass; one still waiting sees done and returns.
DoneClosed(g) == [g EXCEPT !.hc = IF g.hc = "watch" THEN "off" ELSE g.hc,
                           !.hcStale = (g.hc = "retrySet")]

\* Fault: the termination time is sent at the end of every pass of the loop.
CloseStreamSendsEachPass(i) ==
    LET g == DoneClosed(gs[i]) IN
    /\ gs[i].pc = "closing"
    /\ gs' = [gs EXCEPT ![i] = IF g.retry THEN [g EXCEPT !.pc = "open", !.term = Append(@, clock)]
                                          ELSE Exit(g)]
    /\ UNCHANGED <<envVars, pending, watches, nextId, hasClosed, status,
                   published, delivered>>

\* After io.Copy: close(done), cancel() of the loop's context, then the
\* error check, which reads that same context, cancelled a line before,
\* then the loop reads retry.
CloseStream(i) ==
    LET g == DoneClosed(gs[i])
        loopCtxErr == TRUE
    IN /\ gs[i].pc = "closing"
       /\ IF ~g.retry /\ g.err /\ ~loopCtxErr
             THEN /\ gs' = [gs EXCEPT ![i] = Exit(g)]
                  /\ status' = MutateStatus(status, FALSE, TRUE)
                  /\ UpdateStatus(status', pending)
             ELSE /\ gs' = [gs EXCEPT ![i] = IF g.retry THEN [g EXCEPT !.pc = "open"]
                                                         ELSE Exit(g)]
                  /\ UNCHANGED <<status, published, pending>>
       /\ UNCHANGED <<envVars, watches, nextId, hasClosed, delivered>>

Goroutine(i) ==
    \/ OpenFails(i) \/ OpenSucceeds(i) \/ ReadLine(i) \/ CopyEnds(i)
    \/ HealthCheckFires(i) \/ HealthCheckResumes(i) \/ CloseStream(i)

-----------------------------------------------------------------------------
(* Reconcile                                                               *)

\* Fault: a terminated container is streamed again after its stream closed.
ShouldStreamNoClosedCheck(k, phase) == phase # "waiting"

\* shouldStreamContainerLogs: a container with an ID that is running, or
\* terminated and not yet read to its end.
ShouldStreamContainerLogs(k, phase) ==
    /\ phase # "waiting"
    /\ ~(phase = "terminated" /\ k \in hasClosed)

NewWatch(k, since) ==
    [key |-> k, pc |-> "open", cancelled |-> FALSE, since |-> since, pos |-> -1,
     lastRead |-> 0, retry |-> FALSE, err |-> FALSE, term |-> <<>>,
     hc |-> "off", hcLast |-> 0, hcStale |-> FALSE]

\* watch.cancel() for the watches of the given keys.
CancelWatches(gs1, ws, ks) ==
    [i \in Ids |-> IF \E k \in ks : ws[k] = i THEN [gs1[i] EXCEPT !.cancelled = TRUE]
                   ELSE gs1[i]]

\* deleteStreams: cancel and forget every watch of the stream, and its status.
DeleteStreams ==
    /\ gs' = CancelWatches(gs, watches, Keys)
    /\ watches' = [k \in Keys |-> 0]
    /\ status' = NoStatus
    /\ pending' = FALSE
    /\ UNCHANGED <<published, nextId, hasClosed>>

\* Fault: the end of Reconcile drops every watch of the stream.
StaleWatchKeysAll(ws, keep) == {k \in Keys : ws[k] # 0}

\* The watches Reconcile's last loop cancels: those of containers this
\* pass did not visit.
StaleWatchKeys(ws, keep) == {k \in Keys : ws[k] # 0 /\ k \notin keep}

\* The end of Reconcile: cancel stale watches, then updateStatus.
FinishReconcile(keep, gs1, ws1, st1) ==
    /\ gs' = CancelWatches(gs1, ws1, StaleWatchKeys(ws1, keep))
    /\ watches' = [k \in Keys |-> IF k \in StaleWatchKeys(ws1, keep) THEN 0 ELSE ws1[k]]
    /\ status' = st1
    /\ UpdateStatus(st1, FALSE)

\* Start a consumeLogs goroutine for the container, then finish.
StartWatch(k, since, gs1, st1) ==
    /\ nextId <= MaxWatches
    /\ nextId' = nextId + 1
    /\ FinishReconcile({k}, [gs1 EXCEPT ![nextId] = NewWatch(k, since)],
                       [watches EXCEPT ![k] = nextId], st1)

\* The watch of k was cancelled: receive its termination time and mark the
\* stream closed; a terminated container's status says so, any other
\* container is re-streamed from that time.
RestartCancelledWatch(k, terminated, st1) ==
    LET w   == watches[k]
        gs1 == [gs EXCEPT ![w].term = Tail(@)]
    IN /\ gs[w].term # <<>>
       /\ hasClosed' = hasClosed \cup {k}
       /\ IF terminated
             THEN /\ FinishReconcile({k}, gs1, watches,
                         [st1 EXCEPT !.terminated = TRUE, !.active = FALSE, !.error = FALSE])
                  /\ UNCHANGED nextId
             ELSE StartWatch(k, Head(gs[w].term), gs1, st1)

\* Reconcile, whole, for a pending request.  A receive from an empty
\* terminationTime would block the worker; that state is the subject of
\* ReconcileNeverBlocks.
Reconcile ==
    LET k   == pod.cid
        w   == watches[k]
        st1 == EnsureStatus(status)
        wanted == ShouldStreamContainerLogs(k, pod.phase)
    IN
    /\ pending
    /\ \/ (~streamExists \/ pod.gone) /\ DeleteStreams
       \/ /\ streamExists /\ ~pod.gone
          /\ \/ /\ ~wanted
                /\ FinishReconcile({}, gs, watches, st1)
                /\ UNCHANGED <<nextId, hasClosed>>
             \/ /\ wanted /\ w = 0
                /\ StartWatch(k, SinceTime, gs, st1)
                /\ UNCHANGED hasClosed
             \/ /\ wanted /\ w # 0 /\ ~gs[w].cancelled
                /\ FinishReconcile({k}, gs, watches, st1)
                /\ UNCHANGED <<nextId, hasClosed>>
             \/ /\ wanted /\ w # 0 /\ gs[w].cancelled
                /\ RestartCancelledWatch(k, pod.phase = "terminated", st1)
    /\ UNCHANGED <<envVars, delivered>>

-----------------------------------------------------------------------------
(* Specification                                                           *)

Init ==
    /\ clock = 1
    /\ logs = [k \in Keys |-> {}]
    /\ pod = [phase |-> "waiting", cid |-> 0, gone |-> FALSE]
    /\ streamExists = TRUE
    /\ pending = TRUE
    /\ resyncs = 0
    /\ watches = [k \in Keys |-> 0]
    /\ gs = [i \in Ids |-> [NewWatch(0, 0) EXCEPT !.pc = "idle"]]
    /\ nextId = 1
    /\ hasClosed = {}
    /\ status = NoStatus
    /\ published = NoStatus
    /\ delivered = <<>>

Environment ==
    \/ Tick \/ WriteLine \/ StartContainer \/ TerminateContainer \/ RestartContainer
    \/ DeletePod \/ Resync \/ DeleteStream

Next ==
    \/ Environment
    \/ Reconcile
    \/ \E i \in Ids : Goroutine(i)

\* The controller's worker runs every queued request and the Go scheduler
\* runs every runnable goroutine; the cluster and the clock owe nothing.
Fairness ==
    /\ WF_vars(Reconcile)
    /\ \A i \in Ids : WF_vars(Goroutine(i))

Spec == Init /\ [][Next]_vars /\ Fairness

-----------------------------------------------------------------------------
(* Properties                                                              *)

TypeOK ==
    /\ clock \in Times
    /\ logs \in [Keys -> SUBSET Times]
    /\ pod \in [phase: {"waiting", "running", "terminated"}, cid: Keys, gone: BOOLEAN]
    /\ watches \in [Keys -> 0..MaxWatches]
    /\ gs \in [Ids -> Goroutines]
    /\ \A i \in Ids : Len(gs[i].term) <= 1
    /\ hasClosed \subseteq Keys
    /\ status \in Statuses \cup {NoStatus}
    /\ delivered \in Seq(Keys \X Times)


\* Reconcile never waits forever on <-existing.terminationTime: whenever the
\* pod's container would be streamed and its watch is cancelled, the
\* watch's goroutine has put a value in the channel that nobody took yet.
\* The hasClosedStream check in shouldStreamContainerLogs is what keeps a
\* second Reconcile of a terminated container from receiving twice.
ReconcileNeverBlocks ==
    LET k == pod.cid IN
    (streamExists /\ ~pod.gone /\ ShouldStreamContainerLogs(k, pod.phase)
       /\ watches[k] # 0 /\ gs[watches[k]].cancelled)
    => gs[watches[k]].term # <<>>

\* No line reaches the log twice, across health-check reconnects (resumed
\* podLogReconnectGap after the last read) and restarts of a cancelled
\* watch from its termination time.
NoDuplicateLines == IsInjective(delivered)

\* A running container of a live pod and stream is eventually being
\* streamed by a watch that nobody cancelled, unless it stops running.
Wanted(k) == streamExists /\ ~pod.gone /\ pod.cid = k /\ pod.phase = "running"
Streaming(k) == \E i \in Ids : gs[i].key = k /\ gs[i].pc = "copy" /\ ~gs[i].cancelled
EventuallyStreamed == \A k \in Keys : Wanted(k) ~> (Streaming(k) \/ ~Wanted(k))

\* A read error that ends consumeLogs (no retry, watch not cancelled) is
\* recorded as an errored status, as the error branch after io.Copy means
\* to do.
ReadErrorReported ==
    [][\A i \in Ids :
         (/\ gs[i].pc = "closing" /\ gs'[i].pc = "done"
          /\ gs[i].err /\ ~gs[i].retry /\ ~gs[i].cancelled /\ status # NoStatus)
         => status'.error]_vars

\* The container's status shows an error only when no uncancelled watch is
\* streaming it: a failure of a cancelled, superseded watch does not
\* overwrite the status of the live one.
ErrorStatusMeansNoLiveStream ==
    (status # NoStatus /\ status.error)
    => ~\E i \in Ids : gs[i].pc = "copy" /\ ~gs[i].cancelled

====
