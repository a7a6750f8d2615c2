----------------------------- MODULE SharedState -----------------------------
(***************************************************************************)
(* The `State` that the event side and the reconciler task share under one *)
(* mutex (src/collector/reconciler/mod.rs).  The mutex is never held       *)
(* across an await, so each operator below is one critical section: it     *)
(* maps the state found under the lock to the state left behind.           *)
(*                                                                         *)
(* Data abstraction:                                                       *)
(*  - a HashMap keyed by service ID is a total function; an absent         *)
(*    generation has value 0, which is also what the code reads for a      *)
(*    missing one, and an absent pending key has when = "none";            *)
(*  - `not_before` is kept relative to the reconciler's clock reads:       *)
(*    "due" (before the running cycle read the clock), "fresh" (after it,  *)
(*    but in the past now) or "later" (in the future);                     *)
(*  - pending_order[s] is the set of keys from the head of the queue up to *)
(*    and including s, {} when s is not in the queue.                      *)
(***************************************************************************)
EXTENDS Naturals, FiniteSets

CONSTANTS
    Service,          \* the service IDs that may ever be seen
    PendingCap,       \* pending_cap: how many dirty keys are kept
    KeysPerCycle,     \* SERVICE_KEYS_PER_CYCLE
    RetryLimit        \* the number of entries of retry_delays

ASSUME ServiceAssumption == IsFiniteSet(Service)
ASSUME BoundsAssumption ==
    /\ PendingCap \in Nat
    /\ KeysPerCycle \in Nat \ {0}
    /\ RetryLimit \in Nat

\* resync_outstanding_since while it is None.
NoTime == 0

When == {"none", "due", "fresh", "later"}
PendingKey == [when : When, attempts : Nat]
NotPending == [when |-> "none", attempts |-> 0]

\* A key an event marked: the event's clock reading may precede the reading of
\* the cycle that is running ("due") or follow it ("fresh").
MarkedKey(when) == [when |-> when, attempts |-> 0]

Generation == [value : Nat, cached : BOOLEAN]
NoGeneration == [value |-> 0, cached |-> FALSE]

State ==
    [generation_counter : Nat,
     service_generation : [Service -> Generation],
     node_generation : Nat,
     epoch : Nat,
     resync_requested : Nat,
     resync_completed : Nat,
     resync_outstanding_since : Nat,
     pending_set : [Service -> PendingKey],
     pending_order : [Service -> SUBSET Service],
     nodes_dirty : BOOLEAN]

\* The state `Reconciler::with_policy` builds: the first resync is requested.
InitialState(now) ==
    [generation_counter |-> 0,
     service_generation |-> [s \in Service |-> NoGeneration],
     node_generation |-> 0,
     epoch |-> 0,
     resync_requested |-> 1,
     resync_completed |-> 0,
     resync_outstanding_since |-> now,
     pending_set |-> [s \in Service |-> NotPending],
     pending_order |-> [s \in Service |-> {}],
     nodes_dirty |-> FALSE]

\* The keys of pending_set, and those of pending_order.
Pending(st) == {s \in Service : st.pending_set[s].when # "none"}
Ordered(st) == {s \in Service : st.pending_order[s] # {}}

ResyncOutstanding(st) == st.resync_requested > st.resync_completed

\* Assignments to one of the maps, or to the two halves of the queue.
SetGenerations(st, gens) == [st EXCEPT !.service_generation = gens]
SetKeys(st, set) == [st EXCEPT !.pending_set = set]
SetQueue(st, set, order) == [st EXCEPT !.pending_set = set, !.pending_order = order]

\* reconcile_nodes, before the call and after one that failed.
SetNodesDirty(st, flag) == [st EXCEPT !.nodes_dirty = flag]

\* Slip: the flag is cleared when the nodes are applied, not before the call.
BumpAndClearNodes(st) == [st EXCEPT !.node_generation = @ + 1, !.nodes_dirty = FALSE]

\* The critical section that ends apply_nodes.
BumpNodeGeneration(st) == [st EXCEPT !.node_generation = @ + 1]

-----------------------------------------------------------------------------
(* Methods of State *)

\* `cached` is the new flag; a caller that leaves it alone passes the old one.
BumpServiceGeneration(st, s, cached) ==
    [st EXCEPT !.generation_counter = @ + 1,
               !.service_generation =
                   [@ EXCEPT ![s] = [value |-> st.generation_counter + 1,
                                     cached |-> cached]]]

PruneServiceGenerations(st) ==
    SetGenerations(st,
        [s \in Service |-> IF st.service_generation[s].cached \/ s \in Pending(st)
                           THEN st.service_generation[s] ELSE NoGeneration])

RequestResync(st, now) ==
    [st EXCEPT !.resync_outstanding_since =
                   IF st.resync_requested = st.resync_completed THEN now ELSE @,
               !.resync_requested = @ + 1,
               !.epoch = @ + 1]

Overflow(st, now) ==
    RequestResync(
        PruneServiceGenerations(
            SetQueue(st, [s \in Service |-> NotPending], [s \in Service |-> {}])),
        now)

-----------------------------------------------------------------------------
(* The event side: methods of ReconcilerHandle *)

\* Slip: a key is put at the front of the order.
EnqueueFirst(st, s, key) ==
    SetQueue(st, [st.pending_set EXCEPT ![s] = key],
                 [t \in Service |-> IF t = s THEN {s}
                                   ELSE IF t \in Ordered(st) THEN st.pending_order[t] \cup {s}
                                   ELSE {}])

\* Insert into pending_set and push onto pending_order.
Enqueue(st, s, key) ==
    SetQueue(st, [st.pending_set EXCEPT ![s] = key],
                 [st.pending_order EXCEPT ![s] = Ordered(st) \cup {s}])

\* Slip: one key more than the cap.
PastCap(st) == Cardinality(Pending(st)) > PendingCap

OverCap(st) == Cardinality(Pending(st)) >= PendingCap

MarkNodesDirty(st) ==
    SetNodesDirty(BumpNodeGeneration(st), TRUE)

MarkServiceDirty(st, s, when, now) ==
    LET bumped == BumpServiceGeneration(st, s, st.service_generation[s].cached)
    IN  IF s \in Pending(st)
        THEN SetKeys(bumped, [st.pending_set EXCEPT ![s] = MarkedKey(when)])
        ELSE IF OverCap(st) THEN Overflow(bumped, now)
        ELSE Enqueue(bumped, s, MarkedKey(when))

-----------------------------------------------------------------------------
(* The reconciler's critical sections *)

\* A cycle reads the clock: what became due since the last read is due now.
ReachNow(when) == IF when = "fresh" THEN "due" ELSE when

\* Slip: the queue is compared with an earlier reading of the clock.
AdvanceNoKeys(st) == st

AdvanceKeys(st) ==
    SetKeys(st, [s \in Service |-> [when |-> ReachNow(st.pending_set[s].when),
                                    attempts |-> st.pending_set[s].attempts]])

\* The not_before of a queued key comes.
KeyElapses(st, s) ==
    SetKeys(st, [st.pending_set EXCEPT
                   ![s] = [when |-> "fresh", attempts |-> st.pending_set[s].attempts]])

DueKeys(st) == {s \in Service : st.pending_set[s].when = "due"}

\* take_due_keys: the first KeysPerCycle due keys in queue order, none before
\* the first resync completed.
KeysToTake(st) ==
    IF st.resync_completed = 0 THEN {}
    ELSE {s \in DueKeys(st) \cap Ordered(st) :
            Cardinality(st.pending_order[s] \cap DueKeys(st)) <= KeysPerCycle}

TakeDueKeys(st) ==
    LET taken == KeysToTake(st)
    IN  SetQueue(st,
           [s \in Service |-> IF s \in taken THEN NotPending ELSE st.pending_set[s]],
           [s \in Service |-> IF s \in taken THEN {} ELSE st.pending_order[s] \ taken])

\* retry_service: a fresh event queued meanwhile wins, and a key without a
\* delay left is dropped for a resync.
RetryService(st, s, attempts, now) ==
    IF s \in Pending(st) THEN st
    ELSE IF attempts >= RetryLimit THEN RequestResync(st, now)
    ELSE IF OverCap(st) THEN Overflow(st, now)
    ELSE Enqueue(st, s, [when |-> "later", attempts |-> attempts + 1])

\* Slip: the value is reset, the flag is not.
ForgetValue(st, s) ==
    SetGenerations(st, [st.service_generation EXCEPT ![s].value = 0])

\* The critical section that ends remove_service.
ForgetGeneration(st, s) ==
    SetGenerations(st, [st.service_generation EXCEPT
        ![s] = [value |-> IF s \in Pending(st) THEN st.service_generation[s].value ELSE 0,
                cached |-> FALSE]])

\* Slip: a request raised during the pass counts as served by it.
CompleteRequested(st, target, pass_start) ==
    [st EXCEPT !.resync_completed = st.resync_requested,
               !.resync_outstanding_since = NoTime]

\* complete_resync: a request raised during the pass stays outstanding, from
\* the start of the pass.
CompleteResync(st, target, pass_start) ==
    LET completed == IF target > st.resync_completed
                     THEN target ELSE st.resync_completed
    IN  [st EXCEPT !.resync_completed = completed,
                   !.resync_outstanding_since =
                       IF st.resync_requested = completed
                       THEN NoTime ELSE pass_start]

-----------------------------------------------------------------------------

\* pending_set and pending_order hold the same keys, and pending_order is one
\* queue without repetitions: of two queued keys one is behind the other.
QueueShape(st) ==
    LET order == st.pending_order IN
    /\ Ordered(st) = Pending(st)
    /\ \A s \in Ordered(st) : s \in order[s] /\ order[s] \subseteq Ordered(st)
    /\ \A s, t \in Ordered(st) : s # t =>
         \/ s \in order[t] /\ order[s] \subseteq order[t] \ {t}
         \/ t \in order[s] /\ order[t] \subseteq order[s] \ {s}

=============================================================================
