----------------------------- MODULE Reconciler ------------------------------
(***************************************************************************)
(* The reconciler task and what drives it: the Docker daemon whose         *)
(* services and nodes change, the event listener that marks what changed,  *)
(* and the timers.  The reconciler owns the metadata and node caches and   *)
(* the per-service series; it shares `state` with the listener.            *)
(*                                                                         *)
(* One action is one stretch of code between two awaits, or one critical   *)
(* section where the other tasks can see what lies between two of them.  A *)
(* Docker call is in flight in a pc of its own: the daemon answers from    *)
(* what it holds at that moment, the answer is applied by a later step.    *)
(***************************************************************************)
EXTENDS SharedState, Sequences

CONSTANTS
    ServiceSpec,      \* what a service may be specified as
    Global,           \* the specs of mode global or global-job
    NodeSet,          \* the node lists the cluster may have
    Label,            \* the label identities of per-service series
    LabelOf(_, _),    \* labels_for_metadata: the identity of a service and spec
    NoService,        \* no service under the ID
    Malformed,        \* an answer that makes build_metadata panic
    NoNodes,          \* the empty node cache of a new reconciler
    NodeEvent,        \* an event of type node
    InitialWorlds,    \* the daemon's services when the exporter starts
    MaxChanges,       \* bound: changes made to the cluster
    MaxFaults,        \* bound: failed or malformed answers
    MaxDrops,         \* bound: event streams lost or not opened
    MaxPeriodic,      \* bound: periodic resync intervals that elapse
    MaxTime,          \* bound: wall-clock readings
    MayCancel         \* whether a shutdown may be requested

Timer == {"resync", "nodes", "periodic"}
Event == Service \cup {NodeEvent}
Found == ServiceSpec \cup {NoService, Malformed}
Counts == [spec : ServiceSpec \cup {NoService}, nodes : NodeSet \cup {NoNodes}]
NoCounts == [spec |-> NoService, nodes |-> NoNodes]

ASSUME ConstantsAssumption ==
    /\ Global \subseteq ServiceSpec
    /\ NoService \notin ServiceSpec /\ Malformed \notin ServiceSpec /\ NoService # Malformed
    /\ NoNodes \notin NodeSet
    /\ NodeEvent \notin Service
    /\ Service \cap Timer = {}
    /\ \A s \in Service, sp \in ServiceSpec : LabelOf(s, sp) \in Label
    /\ InitialWorlds \subseteq [Service -> ServiceSpec \cup {NoService}]
    /\ MayCancel \in BOOLEAN
    /\ {MaxChanges, MaxFaults, MaxDrops, MaxPeriodic, MaxTime} \subseteq Nat

VARIABLES
    world, swarm_nodes,          \* the daemon: services and nodes
    in_flight,                   \* events the listener has not dispatched yet, oldest first
    listener, reconnect,         \* the listener task
    state, wake,                 \* Shared: the mutex's content, the permit
    pc,                          \* where the reconciler is
    metadata, nodes,             \* the caches
    timer,                       \* resync_not_before and the like
    armed,                       \* what the running select's timer is armed for
    target, pass_start, listed, listed_nodes, todo,   \* locals of resync
    taken, inspected,            \* keys of the cycle, answer to an inspect
    replica_series, update_series,  \* series by label identity
    cancelled, clock, spent      \* shutdown, wall clock, bounds used up

daemon == <<world, swarm_nodes>>
events == <<in_flight, listener, reconnect>>
shared == <<state, wake>>
caches == <<metadata, nodes, replica_series, update_series>>
locals == <<target, pass_start, listed, listed_nodes, todo, taken, inspected>>
env == <<cancelled, clock, spent>>
vars == <<daemon, events, shared, pc, caches, timer, armed, locals, env>>

NoKey == [service |-> NodeEvent, attempts |-> 0, found |-> NoService]

\* The points of `run` and `cycle` where the task awaits or other tasks see a
\* difference.
InCycle == pc \in {"nodes", "list_nodes", "nodes_listed", "resync",
                   "list_services", "list_resync_nodes", "resync_nodes_listed",
                   "resync_apply", "keys"}
PCs == {"top", "nodes", "list_nodes", "nodes_listed", "resync",
        "list_services", "list_resync_nodes", "resync_nodes_listed",
        "resync_apply", "keys", "inspect", "inspected", "wait", "parked",
        "judge", "stopped"}

Spent == [changes : Nat, faults : Nat, drops : Nat, periodic : Nat]

\* The points of a resync pass.
InPass == pc \in {"list_services", "list_resync_nodes", "resync_nodes_listed", "resync_apply"}

Cached(s) == metadata[s].spec # NoService

TypeOK ==
    /\ world \in [Service -> ServiceSpec \cup {NoService}]
    /\ swarm_nodes \in NodeSet
    /\ in_flight \in Seq(Event)
    /\ listener \in {"connecting", "open", "signal", "stopped"}
    /\ reconnect \in BOOLEAN /\ wake \in BOOLEAN
    /\ state \in State
    /\ pc \in PCs
    /\ metadata \in [Service -> Counts]
    /\ nodes \in NodeSet \cup {NoNodes}
    /\ timer \in [Timer -> When \ {"none"}]
    /\ armed \subseteq Service \cup Timer
    /\ target \in Nat /\ pass_start \in Nat
    /\ listed \in [Service -> Found]
    /\ listed_nodes \in NodeSet \cup {NoNodes}
    /\ todo \subseteq Service
    /\ taken \in [Service -> Nat]
    /\ inspected \in [service : Service \cup {NodeEvent}, attempts : Nat, found : Found]
    /\ replica_series \in [Label -> Counts]
    /\ update_series \in [Label -> ServiceSpec \cup {NoService}]
    /\ cancelled \in BOOLEAN
    /\ clock \in Nat \ {0}
    /\ spent \in Spent

Init ==
    /\ world \in InitialWorlds
    /\ swarm_nodes \in NodeSet
    /\ in_flight = <<>> /\ listener = "connecting" /\ reconnect = FALSE
    /\ state = InitialState(1) /\ wake = FALSE
    /\ pc = "top"
    /\ metadata = [s \in Service |-> NoCounts] /\ nodes = NoNodes
    /\ timer = [t \in Timer |-> "due"] /\ armed = {}
    /\ target = 0 /\ pass_start = 0 /\ todo = {}
    /\ listed = [s \in Service |-> NoService] /\ listed_nodes = NoNodes
    /\ taken = [s \in Service |-> 0] /\ inspected = NoKey
    /\ replica_series = [l \in Label |-> NoCounts]
    /\ update_series = [l \in Label |-> NoService]
    /\ cancelled = FALSE /\ clock = 1
    /\ spent = [changes |-> 0, faults |-> 0, drops |-> 0, periodic |-> 0]

-----------------------------------------------------------------------------
(* The daemon and the clock *)

\* No two services the daemon has share a name, hence an identity.
NameIsFree(s, found) ==
    \A t \in Service \ {s} : world[t] # NoService /\ found # NoService =>
        LabelOf(t, world[t]) # LabelOf(s, found)

\* A service is created, updated or removed; the daemon emits an event.
ChangeService(s, found) ==
    /\ spent.changes < MaxChanges
    /\ world[s] # found /\ NameIsFree(s, found)
    /\ world' = [world EXCEPT ![s] = found]
    /\ in_flight' = Append(in_flight, s)
    /\ spent' = [spent EXCEPT !.changes = @ + 1]
    /\ UNCHANGED <<swarm_nodes, listener, reconnect, shared, pc, caches, timer,
                   armed, locals, cancelled, clock>>

ChangeNodes(n) ==
    /\ spent.changes < MaxChanges
    /\ swarm_nodes # n
    /\ swarm_nodes' = n
    /\ in_flight' = Append(in_flight, NodeEvent)
    /\ spent' = [spent EXCEPT !.changes = @ + 1]
    /\ UNCHANGED <<world, listener, reconnect, shared, pc, caches, timer, armed,
                   locals, cancelled, clock>>

Tick ==
    /\ clock < MaxTime
    /\ clock' = clock + 1
    /\ UNCHANGED <<daemon, events, shared, pc, caches, timer, armed, locals,
                   cancelled, spent>>

\* The not_before of a queued key or of a timer comes.
ElapseKey(s) ==
    /\ state.pending_set[s].when = "later"
    /\ state' = KeyElapses(state, s)
    /\ UNCHANGED <<daemon, events, wake, pc, caches, timer, armed, locals, env>>

ElapseTimer(t) ==
    /\ timer[t] = "later"
    /\ t = "periodic" => spent.periodic < MaxPeriodic
    /\ timer' = [timer EXCEPT ![t] = "fresh"]
    /\ spent' = IF t = "periodic" THEN [spent EXCEPT !.periodic = @ + 1] ELSE spent
    /\ UNCHANGED <<daemon, events, shared, pc, caches, armed, locals, cancelled,
                   clock>>

\* root.cancel()
Cancel ==
    /\ MayCancel /\ ~cancelled
    /\ cancelled' = TRUE
    /\ UNCHANGED <<daemon, events, shared, pc, caches, timer, armed, locals,
                   clock, spent>>

-----------------------------------------------------------------------------
(* The event listener: listen_swarm_events, follow_event_stream and          *)
(* dispatch_events.                                                          *)

\* The first stream starts before the anchor, so it carries every event since
\* the exporter started.  A later one may have lost the oldest of the events
\* missed (the daemon's history is limited, and gone after a restart) or repeat
\* an event, and a resync is requested once it is open.
Connect ==
    /\ listener = "connecting"
    /\ IF reconnect
       THEN /\ \E first \in 1 .. Len(in_flight) + 1,
                  repeated \in {<<>>} \cup {<<e>> : e \in Event} :
                 in_flight' = repeated \o SubSeq(in_flight, first, Len(in_flight))
            /\ state' = RequestResync(state, clock)
            /\ listener' = "signal"
       ELSE /\ listener' = "open"
            /\ UNCHANGED <<in_flight, state>>
    /\ UNCHANGED <<daemon, reconnect, wake, pc, caches, timer, armed, locals, env>>

\* A failed connect, or a stream that ended; the backoff is a wait of
\* unspecified length in "connecting".
LoseStream ==
    /\ listener \in {"connecting", "open"}
    /\ spent.drops < MaxDrops
    /\ spent' = [spent EXCEPT !.drops = @ + 1]
    /\ listener' = "connecting"
    /\ reconnect' = TRUE
    /\ UNCHANGED <<daemon, in_flight, shared, pc, caches, timer, armed, locals,
                   cancelled, clock>>

\* The listener reads the clock before it takes the lock: a mark made during a
\* cycle may carry a time before the cycle's, unless an earlier mark does not.
MarkTimes ==
    IF InCycle /\ \A s \in Service : state.pending_set[s].when # "fresh"
    THEN {"fresh", "due"} ELSE {"fresh"}

\* dispatch_events and enqueue_event, up to the signal.
DispatchEvent ==
    LET e == Head(in_flight) IN
    /\ listener = "open"
    /\ in_flight # <<>>
    /\ in_flight' = Tail(in_flight)
    /\ IF e = NodeEvent
       THEN state' = MarkNodesDirty(state)
       ELSE \E when \in MarkTimes : state' = MarkServiceDirty(state, e, when, clock)
    /\ listener' = "signal"
    /\ UNCHANGED <<daemon, reconnect, wake, pc, caches, timer, armed, locals, env>>

\* Slip: notify_waiters, which leaves no permit: the signal is lost between the
\* computation of the delay and the select.
SignalWaiters ==
    /\ listener = "signal"
    /\ wake' \in {wake, TRUE}
    /\ listener' = "open"
    /\ UNCHANGED <<daemon, in_flight, reconnect, state, pc, caches, timer, armed,
                   locals, env>>

\* Shared::signal, which leaves one permit.
Signal ==
    /\ listener = "signal"
    /\ wake' = TRUE
    /\ listener' = "open"
    /\ UNCHANGED <<daemon, in_flight, reconnect, state, pc, caches, timer, armed,
                   locals, env>>

StopListener ==
    /\ cancelled
    /\ listener \in {"connecting", "open"}
    /\ listener' = "stopped"
    /\ UNCHANGED <<daemon, in_flight, reconnect, shared, pc, caches, timer, armed,
                   locals, env>>

-----------------------------------------------------------------------------
(* Writing the caches and the series *)

LabelsOf(s, found) == IF found = NoService THEN {} ELSE {LabelOf(s, found)}

\* apply_service: the series under an identity the service no longer has are
\* deleted before those of the new one are set.
ApplyService(s, spec) ==
    LET counts == [spec |-> spec, nodes |-> nodes]
        label == LabelOf(s, spec)
        gone == LabelsOf(s, metadata[s].spec) \ {label}
    IN  /\ metadata' = [metadata EXCEPT ![s] = counts]
        /\ replica_series' = [l \in Label |-> IF l = label THEN counts
                                              ELSE IF l \in gone THEN NoCounts
                                              ELSE replica_series[l]]
        /\ update_series' = [l \in Label |-> IF l = label THEN spec
                                             ELSE IF l \in gone THEN NoService
                                             ELSE update_series[l]]
        /\ state' = BumpServiceGeneration(state, s, TRUE)
        /\ UNCHANGED nodes

\* Slip: the series of a removed service stay.
RemoveFromCache(s) ==
    /\ metadata' = [metadata EXCEPT ![s] = NoCounts]
    /\ state' = ForgetGeneration(state, s)
    /\ UNCHANGED <<nodes, replica_series, update_series>>

\* remove_service and delete_service_series.
RemoveService(s) ==
    LET gone == LabelsOf(s, metadata[s].spec)
    IN  /\ metadata' = [metadata EXCEPT ![s] = NoCounts]
        /\ replica_series' = [l \in Label |-> IF l \in gone THEN NoCounts
                                              ELSE replica_series[l]]
        /\ update_series' = [l \in Label |-> IF l \in gone THEN NoService
                                             ELSE update_series[l]]
        /\ state' = ForgetGeneration(state, s)
        /\ UNCHANGED nodes

\* apply_nodes visits the cached services in no particular order: of two with
\* one identity either may be the last to set its series.
LastWriters ==
    LET held == UNION {LabelsOf(s, metadata[s].spec) : s \in Service}
    IN  {f \in [held -> Service] : \A l \in held : l \in LabelsOf(f[l], metadata[f[l]].spec)}

ApplyNodes(n) ==
    /\ nodes' = n
    /\ metadata' = [s \in Service |-> IF Cached(s) THEN [metadata[s] EXCEPT !.nodes = n]
                                      ELSE NoCounts]
    /\ \E last \in LastWriters :
         replica_series' = [l \in Label |-> IF l \in DOMAIN last
                                            THEN [spec |-> metadata[last[l]].spec, nodes |-> n]
                                            ELSE replica_series[l]]
    /\ state' = BumpNodeGeneration(state)
    /\ UNCHANGED update_series

-----------------------------------------------------------------------------
(* The reconciler task: run, cycle and the steps of a cycle *)

TimerDue(t) == timer[t] = "due"

PeriodicResyncDue(tm) ==
    /\ state.resync_completed > 0
    /\ state.resync_requested = state.resync_completed
    /\ tm["periodic"] = "due"

\* The clock is read once per cycle; a periodic resync is requested, through
\* the handle, when one is due.
BeginCycle ==
    /\ pc = "top" /\ ~cancelled
    /\ LET advanced == AdvanceKeys(state)
           now_timer == [t \in Timer |-> ReachNow(timer[t])]
       IN  /\ timer' = now_timer
           /\ IF PeriodicResyncDue(now_timer)
              THEN state' = RequestResync(advanced, clock) /\ wake' = TRUE
              ELSE state' = advanced /\ UNCHANGED wake
    /\ pc' = "nodes"
    /\ UNCHANGED <<daemon, events, caches, armed, locals, env>>

NodesDue == state.resync_completed > 0 /\ state.nodes_dirty /\ TimerDue("nodes")

\* reconcile_nodes clears the flag before the call.
StartNodes ==
    /\ pc = "nodes"
    /\ IF NodesDue
       THEN /\ state' = SetNodesDirty(state, FALSE)
            /\ pc' = "list_nodes"
       ELSE /\ pc' = "resync"
            /\ UNCHANGED state
    /\ UNCHANGED <<daemon, events, wake, caches, timer, armed, locals, env>>

AnswerNodes ==
    /\ pc = "list_nodes"
    /\ listed_nodes' = swarm_nodes
    /\ pc' = "nodes_listed"
    /\ UNCHANGED <<daemon, events, shared, caches, timer, armed, target, pass_start,
                   listed, todo, taken, inspected, env>>

SpendFault ==
    /\ spent.faults < MaxFaults
    /\ spent' = [spent EXCEPT !.faults = @ + 1]

FailNodes ==
    /\ pc = "list_nodes"
    /\ SpendFault
    /\ state' = SetNodesDirty(state, TRUE)
    /\ timer' = [timer EXCEPT !["nodes"] = "later"]
    /\ pc' = "resync"
    /\ UNCHANGED <<daemon, events, wake, caches, armed, locals, cancelled, clock>>

FinishNodes ==
    /\ pc = "nodes_listed"
    /\ ApplyNodes(listed_nodes)
    /\ listed_nodes' = NoNodes
    /\ pc' = "resync"
    /\ UNCHANGED <<daemon, events, wake, timer, armed, target, pass_start, listed,
                   todo, taken, inspected, env>>

ResyncDue == ResyncOutstanding(state) /\ TimerDue("resync")

\* resync captures its target before it lists anything.
StartResync ==
    /\ pc = "resync"
    /\ IF ResyncDue
       THEN /\ target' = state.resync_requested
            /\ pass_start' = clock
            /\ pc' = "list_services"
       ELSE /\ pc' = "keys"
            /\ UNCHANGED <<target, pass_start>>
    /\ UNCHANGED <<daemon, events, shared, caches, timer, armed, listed,
                   listed_nodes, todo, taken, inspected, env>>

\* One service of the answer may be malformed.
AnswerServices ==
    /\ pc = "list_services"
    /\ \/ listed' = world /\ UNCHANGED spent
       \/ SpendFault /\ \E s \in Service :
            /\ world[s] # NoService
            /\ listed' = [world EXCEPT ![s] = Malformed]
    /\ pc' = "list_resync_nodes"
    /\ UNCHANGED <<daemon, events, shared, caches, timer, armed, target, pass_start,
                   listed_nodes, todo, taken, inspected, cancelled, clock>>

AnswerResyncNodes ==
    /\ pc = "list_resync_nodes"
    /\ listed_nodes' = swarm_nodes
    /\ pc' = "resync_nodes_listed"
    /\ UNCHANGED <<daemon, events, shared, caches, timer, armed, target, pass_start,
                   listed, todo, taken, inspected, env>>

\* The locals of a pass that ended.
ForgetPass ==
    /\ target' = 0 /\ pass_start' = 0 /\ todo' = {}
    /\ listed' = [s \in Service |-> NoService] /\ listed_nodes' = NoNodes

\* Either list failed: nothing is written, the next attempt waits.
FailResync ==
    /\ pc \in {"list_services", "list_resync_nodes"}
    /\ SpendFault
    /\ timer' = [timer EXCEPT !["resync"] = "later"]
    /\ ForgetPass
    /\ pc' = "keys"
    /\ UNCHANGED <<daemon, events, shared, caches, armed, taken, inspected,
                   cancelled, clock>>

ResyncApplyNodes ==
    /\ pc = "resync_nodes_listed"
    /\ ApplyNodes(listed_nodes)
    /\ todo' = {s \in Service : listed[s] # NoService}
    /\ pc' = "resync_apply"
    /\ UNCHANGED <<daemon, events, wake, timer, armed, target, pass_start, listed,
                   listed_nodes, taken, inspected, env>>

\* after_step of a panic: the step stopped halfway, a resync is to repair it.
RequestResyncAfterPanic ==
    /\ state' = RequestResync(state, clock)
    /\ timer' = [timer EXCEPT !["resync"] = "later"]

ResyncApplyService(s) ==
    /\ pc = "resync_apply" /\ s \in todo
    /\ listed[s] # Malformed
    /\ ApplyService(s, listed[s])
    /\ todo' = todo \ {s}
    /\ UNCHANGED <<daemon, events, wake, pc, timer, armed, target, pass_start,
                   listed, listed_nodes, taken, inspected, env>>

ResyncPanics(s) ==
    /\ pc = "resync_apply" /\ s \in todo
    /\ listed[s] = Malformed
    /\ RequestResyncAfterPanic
    /\ ForgetPass
    /\ pc' = "keys"
    /\ UNCHANGED <<daemon, events, wake, caches, armed, taken, inspected, env>>

Unlisted == {s \in Service : Cached(s) /\ listed[s] = NoService}

ResyncRemoveService(s) ==
    /\ pc = "resync_apply" /\ todo = {} /\ s \in Unlisted
    /\ RemoveService(s)
    /\ UNCHANGED <<daemon, events, wake, pc, timer, armed, locals, env>>

FinishResync ==
    /\ pc = "resync_apply" /\ todo = {} /\ Unlisted = {}
    /\ state' = CompleteResync(PruneServiceGenerations(state), target, pass_start)
    /\ timer' = [timer EXCEPT !["resync"] = "due", !["periodic"] = "later"]
    /\ ForgetPass
    /\ pc' = "keys"
    /\ UNCHANGED <<daemon, events, wake, caches, armed, taken, inspected, env>>

Taken == {s \in Service : taken[s] > 0}

\* taken[s] is the attempts of the due key plus one; the keys of one batch are
\* inspected in any order.
TakeKeys ==
    /\ pc = "keys"
    /\ taken' = [s \in Service |-> IF s \in KeysToTake(state)
                                   THEN state.pending_set[s].attempts + 1 ELSE 0]
    /\ state' = TakeDueKeys(state)
    /\ pc' = "inspect"
    /\ UNCHANGED <<daemon, events, wake, caches, timer, armed, target, pass_start,
                   listed, listed_nodes, todo, inspected, env>>

\* The batch is done, or a shutdown drops what is left of it.
FinishKeys ==
    /\ pc = "inspect"
    /\ Taken = {} \/ cancelled
    /\ taken' = [s \in Service |-> 0]
    /\ pc' = "wait"
    /\ UNCHANGED <<daemon, events, shared, caches, timer, armed, target, pass_start,
                   listed, listed_nodes, todo, inspected, env>>

AnswerInspect(s) ==
    /\ pc = "inspect" /\ s \in Taken
    /\ \E found \in {world[s], Malformed} :
         /\ inspected' = [service |-> s, attempts |-> taken[s] - 1, found |-> found]
         /\ IF found = Malformed
            THEN world[s] # NoService /\ SpendFault
            ELSE UNCHANGED spent
    /\ taken' = [taken EXCEPT ![s] = 0]
    /\ pc' = "inspected"
    /\ UNCHANGED <<daemon, events, shared, caches, timer, armed, target, pass_start,
                   listed, listed_nodes, todo, cancelled, clock>>

FailInspect(s) ==
    /\ pc = "inspect" /\ s \in Taken
    /\ SpendFault
    /\ state' = RetryService(state, s, taken[s] - 1, clock)
    /\ taken' = [taken EXCEPT ![s] = 0]
    /\ UNCHANGED <<daemon, events, wake, pc, caches, timer, armed, target, pass_start,
                   listed, listed_nodes, todo, inspected, cancelled, clock>>

\* Slip: an answer that cannot be converted is cached as well.
FinishInspectAnyAnswer ==
    LET s == inspected.service IN
    /\ pc = "inspected"
    /\ \/ inspected.found # NoService /\ ApplyService(s, inspected.found)
       \/ inspected.found = NoService /\ RemoveService(s)
    /\ UNCHANGED timer
    /\ inspected' = NoKey
    /\ pc' = "inspect"
    /\ UNCHANGED <<daemon, events, wake, armed, target, pass_start, listed,
                   listed_nodes, todo, taken, env>>

\* Slip: a service that is gone stays cached.
FinishInspectKeeping ==
    LET s == inspected.service IN
    /\ pc = "inspected"
    /\ \/ inspected.found \in ServiceSpec /\ ApplyService(s, inspected.found) /\ UNCHANGED timer
       \/ inspected.found = NoService /\ UNCHANGED <<caches, state, timer>>
       \/ inspected.found = Malformed /\ RequestResyncAfterPanic /\ UNCHANGED caches
    /\ inspected' = NoKey
    /\ pc' = "inspect"
    /\ UNCHANGED <<daemon, events, wake, armed, target, pass_start, listed,
                   listed_nodes, todo, taken, env>>

\* reconcile_service with the answer, and after_step.
FinishInspect ==
    LET s == inspected.service IN
    /\ pc = "inspected"
    /\ \/ /\ inspected.found \in ServiceSpec
          /\ ApplyService(s, inspected.found)
          /\ UNCHANGED timer
       \/ /\ inspected.found = NoService
          /\ RemoveService(s)
          /\ UNCHANGED timer
       \/ /\ inspected.found = Malformed
          /\ RequestResyncAfterPanic
          /\ UNCHANGED caches
    /\ inspected' = NoKey
    /\ pc' = "inspect"
    /\ UNCHANGED <<daemon, events, wake, armed, target, pass_start, listed,
                   listed_nodes, todo, taken, env>>

\* run_until_cancelled gives up a call once the shutdown is requested; the rest
\* of the cycle runs as after any other step.
AbandonCall ==
    /\ cancelled
    /\ \/ pc = "list_nodes" /\ pc' = "resync" /\ UNCHANGED locals
       \/ /\ pc \in {"list_services", "list_resync_nodes"} /\ pc' = "keys"
          /\ ForgetPass /\ UNCHANGED <<taken, inspected>>
    /\ UNCHANGED <<daemon, events, shared, caches, timer, armed, env>>

\* next_wake_delay: what it considers, and when each of that is due.
Scheduled ==
    (IF ResyncOutstanding(state) THEN {"resync"} ELSE {}) \cup
    (IF state.resync_completed = 0 THEN {}
     ELSE (IF state.resync_requested = state.resync_completed THEN {"periodic"} ELSE {})
          \cup (IF state.nodes_dirty THEN {"nodes"} ELSE {})
          \cup Pending(state))

Come(x) == IF x \in Timer THEN timer[x] # "later" ELSE state.pending_set[x].when # "later"

\* The delay is computed, and the select of `run` waits on a timer for the
\* earliest scheduled work. "parked" begins where the delay is computed: what is
\* marked and signalled before the select is entered leaves its permit in wake.
Wait ==
    /\ pc = "wait"
    /\ IF \E x \in Scheduled : Come(x)
       THEN pc' = "top" /\ UNCHANGED armed
       ELSE pc' = "parked" /\ armed' = Scheduled
    /\ UNCHANGED <<daemon, events, shared, caches, timer, locals, env>>

TakePermit ==
    /\ pc = "parked" /\ wake
    /\ wake' = FALSE /\ armed' = {} /\ pc' = "top"
    /\ UNCHANGED <<daemon, events, state, caches, timer, locals, env>>

TimerFires ==
    /\ pc = "parked"
    /\ \E x \in armed : Come(x)
    /\ armed' = {} /\ pc' = "top"
    /\ UNCHANGED <<daemon, events, shared, caches, timer, locals, env>>

Stop ==
    /\ cancelled /\ pc \in {"top", "parked"}
    /\ pc' = "stopped" /\ armed' = {}
    /\ UNCHANGED <<daemon, events, shared, caches, timer, locals, env>>

-----------------------------------------------------------------------------

Daemon ==
    \/ \E s \in Service, found \in ServiceSpec \cup {NoService} : ChangeService(s, found)
    \/ \E n \in NodeSet : ChangeNodes(n)
    \/ Tick
    \/ Cancel

Elapse ==
    \/ \E s \in Service : ElapseKey(s)
    \/ \E t \in Timer : ElapseTimer(t)

Listener ==
    \/ Connect
    \/ LoseStream
    \/ DispatchEvent
    \/ Signal
    \/ StopListener

\* What the reconciler does besides answering polls and parking.
Step ==
    \/ StartNodes \/ AnswerNodes \/ FailNodes \/ FinishNodes
    \/ StartResync \/ AnswerServices \/ AnswerResyncNodes \/ FailResync
    \/ ResyncApplyNodes \/ FinishResync
    \/ \E s \in Service : ResyncApplyService(s) \/ ResyncPanics(s) \/ ResyncRemoveService(s)
    \/ TakeKeys \/ FinishKeys \/ FinishInspect \/ AbandonCall
    \/ \E s \in Service : AnswerInspect(s) \/ FailInspect(s)
    \/ Wait \/ TakePermit \/ TimerFires \/ Stop

\* Nothing is left to happen: every bound is used up or everyone has stopped.
Rest ==
    /\ \/ pc = "parked" /\ ~wake /\ listener = "open" /\ in_flight = <<>>
          /\ Scheduled = {"periodic"} /\ spent.periodic = MaxPeriodic
       \/ pc = "stopped" /\ listener = "stopped"
    /\ UNCHANGED vars

Next == Daemon \/ Elapse \/ Listener \/ BeginCycle \/ Step \/ Rest

Spec == Init /\ [][Next]_vars

\* The runtime polls every task that is ready, the daemon answers or the request
\* deadline fails the call, and timers go off.
Fairness ==
    /\ WF_vars(BeginCycle) /\ WF_vars(Step) /\ WF_vars(Elapse)
    /\ WF_vars(Connect) /\ WF_vars(DispatchEvent) /\ WF_vars(Signal)
    /\ WF_vars(StopListener)

FairSpec == Spec /\ Fairness

-----------------------------------------------------------------------------
(* Safety *)

\* pending_set and pending_order are one bounded queue without repetitions,
\* whatever marks, takes, retries and overflows are interleaved.
QueueWellFormed ==
    /\ QueueShape(state)
    /\ Cardinality(Pending(state)) <= PendingCap

\* The `cached` flag of a generation mirrors whether the metadata cache holds
\* the service, although the two are written in different critical sections,
\* and a generation that is neither cached nor queued belongs to a key being
\* inspected or to one that a resync outstanding will pick up.
GenerationsMirrorCache ==
    \A s \in Service :
      /\ state.service_generation[s].cached <=> Cached(s)
      /\ state.service_generation[s].value > 0 =>
           \/ Cached(s) \/ s \in Pending(state) \/ s \in Taken
           \/ inspected.service = s
           \/ ResyncOutstanding(state)
           \/ cancelled

InFlight(e) == \E i \in 1 .. Len(in_flight) : in_flight[i] = e

\* The listener lost its stream and will request a resync once it has another.
Reconnecting == listener = "connecting" /\ reconnect

\* A change of s is still to reach the reconciler, by an event or the queue, or
\* nobody waits for it any more.
StillComing(s) == InFlight(s) \/ s \in Pending(state) \/ Reconnecting \/ cancelled

\* The same for the nodes, whose queue is a flag.
NodesStillComing == InFlight(NodeEvent) \/ state.nodes_dirty \/ Reconnecting \/ cancelled

\* No change of a service is lost, whatever is dropped on the way: while the
\* cache differs from the daemon, word of it is still to come, its key is taken
\* or being inspected, or a resync is outstanding.
NoLostServiceChange ==
    \A s \in Service : metadata[s].spec # world[s] =>
        StillComing(s) \/ s \in Taken \/ inspected.service = s \/ ResyncOutstanding(state)

\* The same for the nodes, whose flag is cleared before the call.
NoLostNodeChange ==
    nodes # swarm_nodes =>
        NodesStillComing \/ pc \in {"list_nodes", "nodes_listed"} \/ ResyncOutstanding(state)

\* Label identities that no two services share.
UniqueLabels ==
    \A s, t \in Service, a, b \in ServiceSpec : LabelOf(s, a) = LabelOf(t, b) => s = t

\* Every cached service has its series, computed from its cached spec and the
\* cached nodes, and no series outlives the service or the identity it was
\* written for: renames and removals leave nothing behind.
SeriesMirrorCache ==
    \A s \in Service :
      /\ Cached(s) =>
           /\ metadata[s].nodes = nodes /\ nodes # NoNodes
           /\ replica_series[LabelOf(s, metadata[s].spec)] = metadata[s]
           /\ update_series[LabelOf(s, metadata[s].spec)] = metadata[s].spec
      /\ \A spec \in ServiceSpec :
           spec # metadata[s].spec /\ LabelOf(s, spec) \notin LabelsOf(s, metadata[s].spec) =>
             /\ replica_series[LabelOf(s, spec)] = NoCounts
             /\ update_series[LabelOf(s, spec)] = NoService

\* Nothing the exporter knows of is left to do.
Settled ==
    /\ pc = "parked" /\ listener = "open" /\ in_flight = <<>>
    /\ Pending(state) = {} /\ ~ResyncOutstanding(state)

\* remove_service deletes the series "of a service Docker no longer has": once
\* everything is settled, a service the daemon still has, and the cache holds,
\* has its series, and not only after the next event or resync applies it again.
\* Stated for any label identities, in particular for a service that was deleted
\* and created again under the same name.
SettledServiceHasSeries ==
    Settled => \A s \in Service : Cached(s) /\ world[s] = metadata[s].spec =>
        /\ replica_series[LabelOf(s, metadata[s].spec)] # NoCounts
        /\ update_series[LabelOf(s, metadata[s].spec)] # NoService

\* A reconciler that waits is woken for work that has come: by the permit, by
\* the signal that follows a mark, or by the timer it armed.
NoLostWakeup ==
    pc = "parked" /\ (\E x \in Scheduled : Come(x)) =>
        \/ wake
        \/ listener = "signal"
        \/ \E x \in armed : Come(x)

\* resync_outstanding_since is set exactly while a resync is outstanding.
OutstandingSinceIsSet ==
    /\ state.resync_completed <= state.resync_requested
    /\ target <= state.resync_requested
    /\ state.resync_outstanding_since # NoTime <=> ResyncOutstanding(state)
    /\ state.resync_outstanding_since <= clock

-----------------------------------------------------------------------------
(* The resync counters, as the health check sees them *)

Resyncs == INSTANCE Resync WITH
    requested <- state.resync_requested,
    completed <- state.resync_completed,
    since <- state.resync_outstanding_since,
    target <- IF InPass THEN target ELSE 0,
    pass_start <- IF InPass THEN pass_start ELSE 0,
    clock <- clock

\* Whatever the reconciler, the listener and the poller do, the counters behave
\* as Resync promises: a pass completes what was requested when it started and
\* nothing more, and requests, overflows and panics only ever add to them.
ImplementsResync == Resyncs!RSpec

-----------------------------------------------------------------------------
(* Action properties *)

\* A key keeps its place in the queue as long as it stays queued: nothing that
\* is marked later gets ahead of it.
QueueIsFifo ==
    [][\A s \in Pending(state) : s \in Pending(state') =>
         state'.pending_order[s] \subseteq state.pending_order[s]]_vars

\* Only a resync that completed moves the time since which one is outstanding:
\* a failing resync cannot make itself look recent to the health check.
OutstandingSinceOnlyMovesOnCompletion ==
    [][state.resync_outstanding_since # NoTime
         /\ state'.resync_outstanding_since # state.resync_outstanding_since
       => state'.resync_completed > state.resync_completed]_vars

-----------------------------------------------------------------------------
(* Liveness *)

Mirrored == nodes = swarm_nodes /\ \A s \in Service : metadata[s].spec = world[s]

\* Once the cluster stops changing and the daemon answers, the caches become
\* and stay what the daemon has, unless the exporter is shut down.
EventuallyMirrored == <>[](Mirrored \/ cancelled)

\* A resync that was requested is eventually served, failed and panicking attempts and
\* requests raised during a pass included, and a queued key does not wait forever
\* behind others, resyncs or nodes.
WorkIsServed ==
    /\ ResyncOutstanding(state) ~> (~ResyncOutstanding(state) \/ cancelled)
    /\ \A s \in Service : s \in Pending(state) ~> (s \notin Pending(state) \/ cancelled)

=============================================================================
