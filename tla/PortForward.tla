---------------------------- MODULE PortForward -----------------------------
(***************************************************************************)
(* portforward.Controller for one manifest.  The store calls OnChange,     *)
(* which diffs the manifest's most recent pod against activeForwards,      *)
(* cancels the entries to shut down and starts one startPortForwardLoop    *)
(* goroutine per forward of each new entry.  Each loop retries             *)
(* onePortForward with exponential backoff until its context is           *)
(* cancelled.                                                              *)
(***************************************************************************)
EXTENDS Integers, SequencesExt

CONSTANTS
    Pods,             \* pod IDs the manifest's pods can have
    NoPod,            \* MostRecentPod().PodID = ""
    Forwards,         \* K8sTarget().PortForwards: <<[local, container]>>, container 0 unset
    PortLists,        \* the container-port lists a pod can report
    InitialBackoff,   \* wait.Backoff.Duration (50ms), in model time units
    BackoffCap,       \* wait.Backoff.Cap (15s), in model time units
    MaxChanges,       \* bound on store changes
    MaxEntries,       \* bound on entries started
    MaxLoops          \* bound on loop goroutines started

ASSUME /\ NoPod \notin Pods
       /\ {InitialBackoff, BackoffCap, MaxChanges, MaxEntries, MaxLoops} \subseteq Nat
       /\ 0 < InitialBackoff /\ InitialBackoff <= BackoffCap

Phases  == {"Pending", "Running", "Succeeded"}
\* store.Pod as far as diff reads it.
PodViews == [id: Pods \cup {NoPod}, phase: Phases, deleting: BOOLEAN, ports: PortLists]
Backoffs == {d \in InitialBackoff..BackoffCap :
                \E k \in 0..BackoffCap : d = InitialBackoff * 2^k \/ d = BackoffCap}
EntryIds == 1..MaxEntries
LoopIds  == 1..MaxLoops

VARIABLES
    view,       \* state.ManifestTargets[m].State.MostRecentPod()
    changes,    \* store changes so far
    notified,   \* the store changed since OnChange last ran
    active,     \* m.activeForwards: [Pods -> EntryIds \cup {0}]
    entries,    \* started portForwardEntry values: [pod, forwards, cancelled]
    loops,      \* startPortForwardLoop goroutines: [entry, fwd, pc, backoff, long]
    nextEntry,
    nextLoop

vars == <<view, changes, notified, active, entries, loops, nextEntry, nextLoop>>

-----------------------------------------------------------------------------
(* populatePortForwards                                                    *)

\* Fill an unset container port with the pod's port equal to the local
\* port, else the pod's first port; drop the forward if the pod has none.
RECURSIVE PopulatePortForwards(_, _)
PopulatePortForwards(fwds, cPorts) ==
    IF fwds = <<>> THEN <<>>
    ELSE LET f    == Head(fwds)
             rest == PopulatePortForwards(Tail(fwds), cPorts)
         IN CASE f.container # 0 -> <<f>> \o rest
              [] cPorts = <<>>   -> rest
              [] OTHER -> <<[f EXCEPT !.container =
                                IF f.local \in ToSet(cPorts) THEN f.local ELSE cPorts[1]]>>
                          \o rest

PortForwardsAreValid(fwds, cPorts) == Len(PopulatePortForwards(fwds, cPorts)) = Len(fwds)

-----------------------------------------------------------------------------
(* diff and OnChange                                                       *)

Cancelled(e) == entries[e].cancelled

\* Fault: forwards compared by their number only.
SameForwardsLenOnly(a, b) == Len(a) = Len(b)

\* cmp.Equal on the resolved forwards.
SameForwards(a, b) == a = b

\* The forwards diff wants for the pod: its ID is set, it is running or
\* being deleted, and at least one forward resolves.
WantedForwards(v) ==
    IF /\ v.id # NoPod
       /\ v.phase = "Running" \/ v.deleting
    THEN PopulatePortForwards(Forwards, v.ports)
    ELSE <<>>

\* Fault: the pod of a restarted entry is not recorded in statePods.
StatePodsOnlyKept(wantPod, restart) == IF restart THEN {} ELSE wantPod

\* statePods: the pod whose forwards are wanted, if any.
StatePods(wantPod, restart) == wantPod

\* Fault: a replaced entry is not appended to toShutdown.
ReplacedEntryKept(restart, old) == {}

\* toShutdown gets the old entry when a pod's forwards changed.
ReplacedEntry(restart, old) == IF restart /\ old # 0 THEN {old} ELSE {}

NewLoop(e, f) == [entry |-> e, fwd |-> f, pc |-> "attempt", backoff |-> InitialBackoff,
                  long |-> FALSE]

\* OnChange, whole: diff, cancel toShutdown, start a loop per forward of
\* each entry in toStart.
OnChange ==
    LET fwds    == WantedForwards(view)
        p       == view.id
        wantPod == IF fwds # <<>> THEN {p} ELSE {}
        old     == IF fwds # <<>> THEN active[p] ELSE 0
        restart == fwds # <<>> /\ (old = 0 \/ ~SameForwards(entries[old].forwards, fwds))
        keep    == StatePods(wantPod, restart)
        active1 == IF restart THEN [active EXCEPT ![p] = nextEntry] ELSE active
        \* entries leaving activeForwards, and the replaced one
        shut    == {active1[q] : q \in {q \in Pods : active1[q] # 0 /\ q \notin keep}}
                   \cup ReplacedEntry(restart, old)
        e1      == IF restart
                     THEN [e \in EntryIds |-> IF e = nextEntry
                                              THEN [pod |-> p, forwards |-> fwds, cancelled |-> FALSE]
                                              ELSE entries[e]]
                     ELSE entries
        n       == IF restart THEN Len(fwds) ELSE 0
    IN /\ notified
       /\ restart => nextEntry <= MaxEntries /\ nextLoop + n - 1 <= MaxLoops
       /\ notified' = FALSE
       /\ active' = [q \in Pods |-> IF q \in keep THEN active1[q] ELSE 0]
       /\ entries' = [e \in EntryIds |-> IF e \in shut THEN [e1[e] EXCEPT !.cancelled = TRUE]
                                         ELSE e1[e]]
       /\ loops' = [l \in LoopIds |-> IF l >= nextLoop /\ l < nextLoop + n
                                      THEN NewLoop(nextEntry, fwds[l - nextLoop + 1])
                                      ELSE loops[l]]
       /\ nextEntry' = IF restart THEN nextEntry + 1 ELSE nextEntry
       /\ nextLoop' = nextLoop + n
       /\ UNCHANGED <<view, changes>>

-----------------------------------------------------------------------------
(* startPortForwardLoop                                                    *)

LoopCancelled(l) == Cancelled(loops[l].entry)

\* onePortForward fails within a second (CreatePortForwarder or
\* ForwardPorts returns an error; always, on a cancelled context).
AttemptFails(l) ==
    /\ loops[l].pc = "attempt"
    /\ loops' = [loops EXCEPT ![l].pc = "check", ![l].long = FALSE]
    /\ UNCHANGED <<view, changes, notified, active, entries, nextEntry, nextLoop>>

\* ForwardPorts is serving.
Connect(l) ==
    /\ loops[l].pc = "attempt" /\ ~LoopCancelled(l)
    /\ loops' = [loops EXCEPT ![l].pc = "forwarding"]
    /\ UNCHANGED <<view, changes, notified, active, entries, nextEntry, nextLoop>>

\* ForwardPorts returns after a second or more: the connection broke, or
\* the context was cancelled.
Disconnect(l) ==
    /\ loops[l].pc = "forwarding"
    /\ loops' = [loops EXCEPT ![l].pc = "check", ![l].long = TRUE]
    /\ UNCHANGED <<view, changes, notified, active, entries, nextEntry, nextLoop>>

\* Fault: the backoff doubles past its cap.
NextBackoffUncapped(d) == 2 * d

\* wait.Backoff.Step: double the duration, up to the cap.
NextBackoff(d) == IF 2 * d > BackoffCap THEN BackoffCap ELSE 2 * d

\* Fault: the loop never looks at its context.
AfterAttemptIgnoringCtx(l) ==
    /\ loops[l].pc = "check"
    /\ LET g == loops[l] IN
       loops' = [loops EXCEPT ![l] =
                   IF ~g.long THEN [g EXCEPT !.pc = "sleep", !.backoff = NextBackoff(g.backoff)]
                   ELSE [g EXCEPT !.pc = "attempt", !.backoff = InitialBackoff]]
    /\ UNCHANGED <<view, changes, notified, active, entries, nextEntry, nextLoop>>

\* After onePortForward: return if the context was cancelled; else sleep
\* a backoff step after a short attempt, or reset the backoff after a long
\* one and reconnect at once.
AfterAttempt(l) ==
    /\ loops[l].pc = "check"
    /\ LET g == loops[l] IN
       loops' = [loops EXCEPT ![l] =
                   CASE LoopCancelled(l) -> [g EXCEPT !.pc = "done"]
                     [] ~g.long -> [g EXCEPT !.pc = "sleep", !.backoff = NextBackoff(g.backoff)]
                     [] OTHER -> [g EXCEPT !.pc = "attempt", !.backoff = InitialBackoff]]
    /\ UNCHANGED <<view, changes, notified, active, entries, nextEntry, nextLoop>>

\* time.Sleep ends; it does not watch the context.
Wake(l) ==
    /\ loops[l].pc = "sleep"
    /\ loops' = [loops EXCEPT ![l].pc = "attempt"]
    /\ UNCHANGED <<view, changes, notified, active, entries, nextEntry, nextLoop>>

Loop(l) == AttemptFails(l) \/ Connect(l) \/ Disconnect(l) \/ AfterAttempt(l) \/ Wake(l)

-----------------------------------------------------------------------------
(* The store                                                               *)

\* A store action changes the manifest's most recent pod (a new pod, a
\* phase, the container ports reported, a deletion), and the store
\* notifies its subscribers.
StoreChange ==
    /\ changes < MaxChanges
    /\ \E v \in PodViews \ {view} : view' = v
    /\ changes' = changes + 1
    /\ notified' = TRUE
    /\ UNCHANGED <<active, entries, loops, nextEntry, nextLoop>>

-----------------------------------------------------------------------------
(* Specification                                                           *)

Init ==
    /\ view = [id |-> NoPod, phase |-> "Pending", deleting |-> FALSE, ports |-> <<>>]
    /\ changes = 0
    /\ notified = FALSE
    /\ active = [p \in Pods |-> 0]
    /\ entries = [e \in EntryIds |-> [pod |-> NoPod, forwards |-> <<>>, cancelled |-> FALSE]]
    /\ loops = [l \in LoopIds |-> [NewLoop(0, Forwards[1]) EXCEPT !.pc = "idle"]]
    /\ nextEntry = 1
    /\ nextLoop = 1

Next ==
    \/ StoreChange
    \/ OnChange
    \/ \E l \in LoopIds : Loop(l)

\* The store runs OnChange after every change; the Go scheduler runs
\* runnable goroutines.  A live connection owes nothing: only a cancelled
\* one is assumed to end, since ForwardPorts returns when its context is
\* cancelled (the client's contract; it is not under src/).
LoopSteps(l) == AttemptFails(l) \/ Connect(l) \/ AfterAttempt(l) \/ Wake(l)
Fairness ==
    /\ WF_vars(OnChange)
    /\ \A l \in LoopIds : WF_vars(LoopSteps(l)) /\ WF_vars(Disconnect(l) /\ LoopCancelled(l))

Spec == Init /\ [][Next]_vars /\ Fairness


-----------------------------------------------------------------------------
(* Properties                                                              *)

Ports == UNION {ToSet(pl) : pl \in PortLists}
ForwardRecs == [local: {Forwards[i].local : i \in 1..Len(Forwards)},
                container: {0} \cup Ports \cup {Forwards[i].container : i \in 1..Len(Forwards)}]

TypeOK ==
    /\ view \in PodViews
    /\ active \in [Pods -> EntryIds \cup {0}]
    /\ entries \in [EntryIds -> [pod: Pods \cup {NoPod}, forwards: Seq(ForwardRecs),
                                 cancelled: BOOLEAN]]
    /\ loops \in [LoopIds -> [entry: EntryIds \cup {0}, fwd: ForwardRecs,
                              pc: {"idle", "attempt", "forwarding", "check", "sleep", "done"},
                              backoff: Backoffs, long: BOOLEAN]]
    /\ nextEntry \in 1..MaxEntries + 1 /\ nextLoop \in 1..MaxLoops + 1

\* Every entry whose context is live is the one activeForwards holds for
\* its pod: when diff replaces a pod's forwards or drops a pod, the old
\* entry is cancelled and no loop of it keeps forwarding beside the new one.
NoOrphanForwards ==
    \A e \in 1..nextEntry - 1 : ~Cancelled(e) => active[entries[e].pod] = e

\* Once OnChange has seen the latest store state, activeForwards is exactly
\* the wanted forwards of the most recent pod, so another diff of the same
\* state starts and stops nothing (the diff is idempotent).
ForwardsInSync ==
    ~notified =>
        LET fwds == WantedForwards(view) IN
        /\ \A q \in Pods : active[q] # 0 <=> (q = view.id /\ fwds # <<>>)
        /\ fwds # <<>> => entries[active[view.id]].forwards = fwds

\* A loop whose entry was cancelled eventually returns.
CancelledLoopsExit ==
    \A l \in LoopIds :
        (loops[l].pc \notin {"idle", "done"} /\ LoopCancelled(l)) ~> loops[l].pc = "done"

\* A wanted forward of the most recent pod is eventually served by a loop
\* of a live entry with exactly those forwards, unless it stops being wanted.
Wanted(q, fwds) == view.id = q /\ WantedForwards(view) = fwds /\ fwds # <<>>
Served(q, fwds) ==
    \E l \in LoopIds : /\ loops[l].pc \notin {"idle", "done"} /\ ~LoopCancelled(l)
                       /\ entries[loops[l].entry].pod = q
                       /\ entries[loops[l].entry].forwards = fwds
EventuallyForwarded ==
    \A q \in Pods, fwds \in {PopulatePortForwards(Forwards, pl) : pl \in PortLists} :
        Wanted(q, fwds) ~> (Served(q, fwds) \/ ~Wanted(q, fwds))

====
