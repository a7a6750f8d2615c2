-------------------------- MODULE ReconcilerProofs ---------------------------
(***************************************************************************)
(* Invariants of Reconciler for every set of services, specs, nodes and    *)
(* labels and every bound.                                                 *)
(*                                                                         *)
(* They rest on what every critical section of SharedState does to the     *)
(* state, field by field, and on each keeping the type of the state and    *)
(* the shape of the queue, whoever calls it and in whatever order.         *)
(***************************************************************************)
EXTENDS Reconciler, TLAPS

-----------------------------------------------------------------------------
(* The critical sections, field by field *)

SameGenerations(a, b) ==
    /\ a.generation_counter = b.generation_counter
    /\ a.service_generation = b.service_generation
SameNodes(a, b) ==
    /\ a.node_generation = b.node_generation
    /\ a.nodes_dirty = b.nodes_dirty
SameResync(a, b) ==
    /\ a.epoch = b.epoch
    /\ a.resync_requested = b.resync_requested
    /\ a.resync_completed = b.resync_completed
    /\ a.resync_outstanding_since = b.resync_outstanding_since
\* One more resync is outstanding, since `now` if none was.
Requested(a, b, now) ==
    /\ b.epoch = a.epoch + 1
    /\ b.resync_requested = a.resync_requested + 1
    /\ b.resync_completed = a.resync_completed
    /\ b.resync_outstanding_since = IF a.resync_requested = a.resync_completed
                                    THEN now ELSE a.resync_outstanding_since
\* The same services are flagged as cached.
SameCached(a, b) ==
    \A s \in Service : b.service_generation[s].cached = a.service_generation[s].cached
SameQueue(a, b) ==
    /\ a.pending_set = b.pending_set
    /\ a.pending_order = b.pending_order

-----------------------------------------------------------------------------
(* Fields *)

\* An assignment to the generations leaves the rest.
LEMMA SetGenerationsFacts ==
    ASSUME NEW st \in State, NEW gens \in [Service -> Generation],
           NEW b, b = SetGenerations(st, gens)
    PROVE  /\ b \in State /\ b.service_generation = gens
           /\ b.generation_counter = st.generation_counter
           /\ SameNodes(st, b) /\ SameResync(st, b) /\ SameQueue(st, b)
<1>1. /\ b \in State /\ b.service_generation = gens
      /\ b.generation_counter = st.generation_counter
  BY Zenon DEF SetGenerations, State
<1>2. SameNodes(st, b) /\ SameResync(st, b) /\ SameQueue(st, b)
  BY Zenon DEF SetGenerations, State, SameNodes, SameResync, SameQueue
<1> QED
  BY Zenon, <1>1, <1>2

\* An assignment to both halves of the queue leaves the rest.
LEMMA SetQueueFacts ==
    ASSUME NEW st \in State, NEW set \in [Service -> PendingKey],
           NEW order \in [Service -> SUBSET Service],
           NEW b, b = SetQueue(st, set, order)
    PROVE  /\ b \in State /\ b.pending_set = set /\ b.pending_order = order
           /\ SameNodes(st, b) /\ SameResync(st, b) /\ SameGenerations(st, b)
<1>1. b \in State /\ b.pending_set = set /\ b.pending_order = order
  BY Zenon DEF SetQueue, State
<1>2. SameNodes(st, b) /\ SameResync(st, b) /\ SameGenerations(st, b)
  BY Zenon DEF SetQueue, State, SameNodes, SameResync, SameGenerations
<1> QED
  BY Zenon, <1>1, <1>2

\* An assignment to the keys leaves the order and the rest.
LEMMA SetKeysFacts ==
    ASSUME NEW st \in State, NEW set \in [Service -> PendingKey],
           NEW b, b = SetKeys(st, set)
    PROVE  /\ b \in State /\ b.pending_set = set /\ b.pending_order = st.pending_order
           /\ SameNodes(st, b) /\ SameResync(st, b) /\ SameGenerations(st, b)
<1>1. b \in State /\ b.pending_set = set /\ b.pending_order = st.pending_order
  BY Zenon DEF SetKeys, State
<1>2. SameNodes(st, b) /\ SameResync(st, b) /\ SameGenerations(st, b)
  BY Zenon DEF SetKeys, State, SameNodes, SameResync, SameGenerations
<1> QED
  BY Zenon, <1>1, <1>2

\* bump_service_generation writes one generation and the counter.
LEMMA BumpFacts ==
    ASSUME NEW st \in State, NEW s \in Service, NEW cached \in BOOLEAN,
           NEW b, b = BumpServiceGeneration(st, s, cached)
    PROVE  /\ b \in State
           /\ b.generation_counter = st.generation_counter + 1
           /\ b.service_generation[s].value = st.generation_counter + 1
           /\ b.service_generation[s].cached = cached
           /\ \A t \in Service \ {s} : b.service_generation[t] = st.service_generation[t]
           /\ SameNodes(st, b) /\ SameResync(st, b) /\ SameQueue(st, b)
<1> DEFINE gen == [value |-> st.generation_counter + 1, cached |-> cached]
           gens == [st.service_generation EXCEPT ![s] = gen]
<1>1. st.generation_counter + 1 \in Nat
  BY DEF State
<1>2. gen \in Generation
  BY <1>1, Zenon DEF Generation
<1>3. /\ gens \in [Service -> Generation]
      /\ \A t \in Service : gens[t] = IF t = s THEN gen ELSE st.service_generation[t]
  <2>1. st.service_generation \in [Service -> Generation]
    BY Zenon DEF State
  <2> HIDE DEF gen
  <2> QED BY Zenon, <2>1, <1>2
<1>4. b = [st EXCEPT !.generation_counter = st.generation_counter + 1,
                     !.service_generation = gens]
  BY Zenon DEF BumpServiceGeneration
<1> HIDE DEF gens
<1>5. b \in State /\ b.generation_counter = st.generation_counter + 1
      /\ b.service_generation = gens
  BY Zenon, <1>1, <1>3, <1>4 DEF State
<1>6. SameNodes(st, b) /\ SameResync(st, b) /\ SameQueue(st, b)
  BY Zenon, <1>4 DEF State, SameNodes, SameResync, SameQueue
<1>7. gen.value = st.generation_counter + 1 /\ gen.cached = cached
  BY Zenon
<1> HIDE DEF gen
<1> QED
  BY Zenon, <1>3, <1>5, <1>6, <1>7

\* prune_service_generations writes the generations only.
LEMMA PruneFacts ==
    ASSUME NEW st \in State, NEW b, b = PruneServiceGenerations(st)
    PROVE  /\ b \in State
           /\ b.generation_counter = st.generation_counter
           /\ \A s \in Service : b.service_generation[s] =
                IF st.service_generation[s].cached \/ s \in Pending(st)
                THEN st.service_generation[s] ELSE NoGeneration
           /\ SameNodes(st, b) /\ SameResync(st, b) /\ SameQueue(st, b)
<1> DEFINE gens == [s \in Service |->
                      IF st.service_generation[s].cached \/ s \in Pending(st)
                      THEN st.service_generation[s] ELSE NoGeneration]
<1>1. gens \in [Service -> Generation]
  BY Zenon DEF State, Generation, NoGeneration
<1>2. b = SetGenerations(st, gens)
  BY Zenon DEF PruneServiceGenerations
<1> HIDE DEF gens
<1>3. /\ b \in State /\ b.service_generation = gens
      /\ b.generation_counter = st.generation_counter
      /\ SameNodes(st, b) /\ SameResync(st, b) /\ SameQueue(st, b)
  BY Zenon, <1>1, <1>2, SetGenerationsFacts
<1> QED
  BY Zenon, <1>3 DEF gens

\* State::request_resync writes the counters of resyncs only.
LEMMA RequestFacts ==
    ASSUME NEW st \in State, NEW now \in Nat, NEW b, b = RequestResync(st, now)
    PROVE  /\ b \in State
           /\ Requested(st, b, now)
           /\ SameNodes(st, b) /\ SameGenerations(st, b) /\ SameQueue(st, b)
<1> DEFINE since == IF st.resync_requested = st.resync_completed
                    THEN now ELSE st.resync_outstanding_since
<1>1. since \in Nat /\ st.resync_requested + 1 \in Nat /\ st.epoch + 1 \in Nat
  BY DEF State
<1>2. b = [st EXCEPT !.resync_outstanding_since = since,
                     !.resync_requested = st.resync_requested + 1,
                     !.epoch = st.epoch + 1]
  BY Zenon DEF RequestResync
<1> HIDE DEF since
<1>3. b \in State /\ b.resync_outstanding_since = since
      /\ b.resync_requested = st.resync_requested + 1
      /\ b.resync_completed = st.resync_completed /\ b.epoch = st.epoch + 1
  BY Zenon, <1>1, <1>2 DEF State
<1>4. SameNodes(st, b) /\ SameGenerations(st, b) /\ SameQueue(st, b)
  BY Zenon, <1>2 DEF State, SameNodes, SameGenerations, SameQueue
<1> QED
  BY Zenon, <1>3, <1>4 DEF since, Requested

\* overflow empties the queue, prunes the generations and requests a resync.
LEMMA OverflowFacts ==
    ASSUME NEW st \in State, NEW now \in Nat, NEW b, b = Overflow(st, now)
    PROVE  /\ b \in State
           /\ \A s \in Service : b.pending_set[s] = NotPending /\ b.pending_order[s] = {}
           /\ Requested(st, b, now)
           /\ b.generation_counter = st.generation_counter
           /\ \A s \in Service : b.service_generation[s] =
                IF st.service_generation[s].cached
                THEN st.service_generation[s] ELSE NoGeneration
           /\ SameNodes(st, b)
<1> DEFINE set == [s \in Service |-> NotPending]
           order == [s \in Service |-> {}]
           empty == SetQueue(st, set, order)
           pruned == PruneServiceGenerations(empty)
<1>1. set \in [Service -> PendingKey] /\ order \in [Service -> SUBSET Service]
  BY Zenon DEF PendingKey, NotPending, When
<1>2. \A s \in Service : set[s].when = "none"
  BY Zenon DEF NotPending
<1>3. b = RequestResync(pruned, now)
  BY Zenon DEF Overflow
<1> HIDE DEF set, order
<1>4. /\ empty \in State /\ empty.pending_set = set /\ empty.pending_order = order
      /\ SameNodes(st, empty) /\ SameResync(st, empty) /\ SameGenerations(st, empty)
  BY Zenon, <1>1, SetQueueFacts
<1> HIDE DEF empty
<1>5. Pending(empty) = {}
  BY Zenon, <1>2, <1>4 DEF Pending
<1>6. /\ pruned \in State /\ pruned.generation_counter = empty.generation_counter
      /\ \A s \in Service : pruned.service_generation[s] =
           IF empty.service_generation[s].cached \/ s \in Pending(empty)
           THEN empty.service_generation[s] ELSE NoGeneration
      /\ SameNodes(empty, pruned) /\ SameResync(empty, pruned) /\ SameQueue(empty, pruned)
  BY Zenon, <1>4, PruneFacts
<1> HIDE DEF pruned
<1>7. /\ b \in State
      /\ Requested(pruned, b, now)
      /\ SameNodes(pruned, b) /\ SameGenerations(pruned, b) /\ SameQueue(pruned, b)
  BY Zenon, <1>3, <1>6, RequestFacts
<1>8. b.pending_set = set /\ b.pending_order = order
  BY Zenon, <1>4, <1>6, <1>7 DEF SameQueue
<1>9. SameNodes(st, b)
  BY Zenon, <1>4, <1>6, <1>7 DEF SameNodes
<1>10. \A s \in Service : pruned.service_generation[s] =
         IF empty.service_generation[s].cached
         THEN empty.service_generation[s] ELSE NoGeneration
  BY Zenon, <1>5, <1>6
<1>11. /\ b.generation_counter = st.generation_counter
       /\ \A s \in Service : b.service_generation[s] =
            IF st.service_generation[s].cached
            THEN st.service_generation[s] ELSE NoGeneration
  BY Zenon, <1>4, <1>6, <1>7, <1>10 DEF SameGenerations
<1>12. Requested(st, b, now)
  BY Zenon, <1>4, <1>6, <1>7 DEF SameResync, Requested
<1> QED
  BY Zenon, <1>7, <1>8, <1>9, <1>11, <1>12 DEF set, order

\* A key is put at the tail of the queue.
LEMMA EnqueueFacts ==
    ASSUME NEW st \in State, NEW s \in Service, NEW key \in PendingKey,
           NEW b, b = Enqueue(st, s, key)
    PROVE  /\ b \in State
           /\ b.pending_set[s] = key /\ b.pending_order[s] = Ordered(st) \cup {s}
           /\ \A t \in Service \ {s} : /\ b.pending_set[t] = st.pending_set[t]
                                       /\ b.pending_order[t] = st.pending_order[t]
           /\ SameNodes(st, b) /\ SameResync(st, b) /\ SameGenerations(st, b)
<1> DEFINE set == [st.pending_set EXCEPT ![s] = key]
           order == [st.pending_order EXCEPT ![s] = Ordered(st) \cup {s}]
<1>1. set \in [Service -> PendingKey] /\ order \in [Service -> SUBSET Service]
  BY Zenon DEF State, Ordered
<1>2. b = SetQueue(st, set, order)
  BY Zenon DEF Enqueue
<1> HIDE DEF set, order
<1>3. /\ b \in State /\ b.pending_set = set /\ b.pending_order = order
      /\ SameNodes(st, b) /\ SameResync(st, b) /\ SameGenerations(st, b)
  BY Zenon, <1>1, <1>2, SetQueueFacts
<1>4. /\ set[s] = key /\ order[s] = Ordered(st) \cup {s}
      /\ \A t \in Service \ {s} : set[t] = st.pending_set[t] /\ order[t] = st.pending_order[t]
  BY Zenon DEF State, set, order
<1> QED
  BY Zenon, <1>3, <1>4

\* reconcile_nodes writes the flag only.
LEMMA SetNodesDirtyFacts ==
    ASSUME NEW st \in State, NEW flag \in BOOLEAN, NEW b, b = SetNodesDirty(st, flag)
    PROVE  /\ b \in State /\ b.nodes_dirty = flag
           /\ SameResync(st, b) /\ SameQueue(st, b) /\ SameGenerations(st, b)
<1>1. b \in State /\ b.nodes_dirty = flag
  BY Zenon DEF SetNodesDirty, State
<1>2. SameResync(st, b) /\ SameQueue(st, b) /\ SameGenerations(st, b)
  BY Zenon DEF SetNodesDirty, State, SameResync, SameQueue, SameGenerations
<1> QED
  BY Zenon, <1>1, <1>2

\* apply_nodes writes the node generation only.
LEMMA BumpNodeFacts ==
    ASSUME NEW st \in State, NEW b, b = BumpNodeGeneration(st)
    PROVE  /\ b \in State /\ b.nodes_dirty = st.nodes_dirty
           /\ SameResync(st, b) /\ SameQueue(st, b) /\ SameGenerations(st, b)
<1>1. b \in State /\ b.nodes_dirty = st.nodes_dirty
  BY DEF BumpNodeGeneration, State
<1>2. SameResync(st, b) /\ SameQueue(st, b) /\ SameGenerations(st, b)
  BY Zenon DEF BumpNodeGeneration, State, SameResync, SameQueue, SameGenerations
<1> QED
  BY Zenon, <1>1, <1>2

\* mark_nodes_dirty writes the node fields only.
LEMMA MarkNodesFacts ==
    ASSUME NEW st \in State, NEW b, b = MarkNodesDirty(st)
    PROVE  /\ b \in State /\ b.nodes_dirty = TRUE
           /\ SameResync(st, b) /\ SameQueue(st, b) /\ SameGenerations(st, b)
<1> DEFINE bumped == BumpNodeGeneration(st)
<1>1. /\ bumped \in State
      /\ SameResync(st, bumped) /\ SameQueue(st, bumped) /\ SameGenerations(st, bumped)
  BY Zenon, BumpNodeFacts
<1>2. b = SetNodesDirty(bumped, TRUE)
  BY Zenon DEF MarkNodesDirty
<1> HIDE DEF bumped
<1>3. /\ b \in State /\ b.nodes_dirty = TRUE
      /\ SameResync(bumped, b) /\ SameQueue(bumped, b) /\ SameGenerations(bumped, b)
  BY Zenon, <1>1, <1>2, SetNodesDirtyFacts
<1> QED
  BY Zenon, <1>1, <1>3 DEF SameResync, SameQueue, SameGenerations

\* The clock of a cycle changes when keys are due, not which keys there are.
LEMMA AdvanceFacts ==
    ASSUME NEW st \in State, NEW b, b = AdvanceKeys(st)
    PROVE  /\ b \in State /\ Pending(b) = Pending(st)
           /\ b.pending_order = st.pending_order
           /\ SameNodes(st, b) /\ SameResync(st, b) /\ SameGenerations(st, b)
<1> DEFINE set == [s \in Service |-> [when |-> ReachNow(st.pending_set[s].when),
                                      attempts |-> st.pending_set[s].attempts]]
<1>1. set \in [Service -> PendingKey]
  <2>1. ASSUME NEW s \in Service
        PROVE  ReachNow(st.pending_set[s].when) \in When /\ st.pending_set[s].attempts \in Nat
    BY Zenon DEF State, PendingKey, When, ReachNow
  <2> QED BY Zenon, <2>1 DEF PendingKey
<1>2. \A s \in Service : set[s].when # "none" <=> st.pending_set[s].when # "none"
  BY Zenon DEF ReachNow
<1>3. b = SetKeys(st, set)
  BY Zenon DEF AdvanceKeys
<1> HIDE DEF set
<1>4. /\ b \in State /\ b.pending_set = set /\ b.pending_order = st.pending_order
      /\ SameNodes(st, b) /\ SameResync(st, b) /\ SameGenerations(st, b)
  BY Zenon, <1>1, <1>3, SetKeysFacts
<1>5. Pending(b) = Pending(st)
  BY Zenon, <1>2, <1>4 DEF Pending
<1> QED
  BY Zenon, <1>4, <1>5

\* A key whose time comes stays queued.
LEMMA KeyElapsesFacts ==
    ASSUME NEW st \in State, NEW s \in Service, s \in Pending(st),
           NEW b, b = KeyElapses(st, s)
    PROVE  /\ b \in State /\ Pending(b) = Pending(st)
           /\ b.pending_order = st.pending_order
           /\ SameNodes(st, b) /\ SameResync(st, b) /\ SameGenerations(st, b)
<1> DEFINE key == [when |-> "fresh", attempts |-> st.pending_set[s].attempts]
           set == [st.pending_set EXCEPT ![s] = key]
<1>1. key \in PendingKey /\ key.when # "none"
  BY Zenon DEF State, PendingKey, When
<1>2. b = SetKeys(st, set)
  BY Zenon DEF KeyElapses
<1> HIDE DEF key
<1>3. st.pending_set \in [Service -> PendingKey]
  BY Zenon DEF State
<1>4. set \in [Service -> PendingKey]
  BY Zenon, <1>1, <1>3
<1>5. \A t \in Service : set[t].when # "none" <=> t \in Pending(st)
  BY Zenon, <1>1, <1>3 DEF Pending
<1> HIDE DEF set
<1>6. /\ b \in State /\ b.pending_set = set /\ b.pending_order = st.pending_order
      /\ SameNodes(st, b) /\ SameResync(st, b) /\ SameGenerations(st, b)
  BY Zenon, <1>2, <1>4, SetKeysFacts
<1>7. Pending(b) = Pending(st)
  BY Zenon, <1>5, <1>6 DEF Pending
<1> QED
  BY Zenon, <1>6, <1>7

\* take_due_keys removes the keys it takes and closes the queue over them.
LEMMA TakeFacts ==
    ASSUME NEW st \in State, NEW b, b = TakeDueKeys(st)
    PROVE  /\ b \in State
           /\ Pending(b) = Pending(st) \ KeysToTake(st)
           /\ \A s \in Service : b.pending_order[s] =
                IF s \in KeysToTake(st) THEN {} ELSE st.pending_order[s] \ KeysToTake(st)
           /\ SameNodes(st, b) /\ SameResync(st, b) /\ SameGenerations(st, b)
<1> DEFINE gone == KeysToTake(st)
           set == [s \in Service |-> IF s \in gone THEN NotPending ELSE st.pending_set[s]]
           order == [s \in Service |-> IF s \in gone THEN {} ELSE st.pending_order[s] \ gone]
<1>1. b = SetQueue(st, set, order)
  BY Zenon DEF TakeDueKeys
<1> HIDE DEF gone
<1>2. set \in [Service -> PendingKey] /\ order \in [Service -> SUBSET Service]
  BY Zenon DEF State, PendingKey, NotPending, When
<1>3. \A s \in Service : set[s].when # "none" <=> s \in Pending(st) \ gone
  BY Zenon DEF Pending, NotPending
<1> HIDE DEF set, order
<1>4. /\ b \in State /\ b.pending_set = set /\ b.pending_order = order
      /\ SameNodes(st, b) /\ SameResync(st, b) /\ SameGenerations(st, b)
  BY Zenon, <1>1, <1>2, SetQueueFacts
<1>5. Pending(b) = Pending(st) \ gone
  BY Zenon, <1>3, <1>4 DEF Pending
<1> QED
  BY Zenon, <1>4, <1>5 DEF order, gone

\* remove_service clears one `cached` flag.
LEMMA ForgetFacts ==
    ASSUME NEW st \in State, NEW s \in Service, NEW b, b = ForgetGeneration(st, s)
    PROVE  /\ b \in State
           /\ SameNodes(st, b) /\ SameResync(st, b) /\ SameQueue(st, b)
           /\ \A t \in Service : b.service_generation[t].cached =
                (t # s /\ st.service_generation[t].cached)
<1> DEFINE value == IF s \in Pending(st) THEN st.service_generation[s].value ELSE 0
           gen == [value |-> value, cached |-> FALSE]
           gens == [st.service_generation EXCEPT ![s] = gen]
<1>1. st.service_generation \in [Service -> Generation]
  BY Zenon DEF State
<1>2. value \in Nat
  BY Zenon, <1>1 DEF Generation
<1>3. b = SetGenerations(st, gens)
  BY Zenon DEF ForgetGeneration
<1> HIDE DEF value
<1>4. gen \in Generation /\ gen.cached = FALSE
  BY <1>2, Zenon DEF Generation
<1> HIDE DEF gen
<1>5. gens \in [Service -> Generation]
  BY Zenon, <1>1, <1>4
<1>6. \A t \in Service : gens[t] = IF t = s THEN gen ELSE st.service_generation[t]
  BY Zenon, <1>1
<1> HIDE DEF gens
<1>7. /\ b \in State /\ b.service_generation = gens
      /\ SameNodes(st, b) /\ SameResync(st, b) /\ SameQueue(st, b)
  BY <1>3, <1>5, SetGenerationsFacts
<1>8. ASSUME NEW t \in Service
      PROVE  b.service_generation[t].cached = (t # s /\ st.service_generation[t].cached)
  <2>1. st.service_generation[t].cached \in BOOLEAN
    BY Zenon, <1>1 DEF Generation
  <2>2. CASE t = s
    BY <1>4, <1>6, <1>7, <2>2, Zenon
  <2>3. CASE t # s
    BY Zenon, <1>6, <1>7, <2>1, <2>3
  <2> QED BY Zenon, <2>2, <2>3
<1> QED
  BY Zenon, <1>7, <1>8

\* complete_resync raises the completed count to the target of the pass.
LEMMA CompleteFacts ==
    ASSUME NEW st \in State, NEW upto \in Nat, NEW started \in Nat,
           NEW b, b = CompleteResync(st, upto, started)
    PROVE  /\ b \in State
           /\ b.resync_requested = st.resync_requested /\ b.epoch = st.epoch
           /\ b.resync_completed = IF upto > st.resync_completed
                                   THEN upto ELSE st.resync_completed
           /\ b.resync_outstanding_since =
                IF b.resync_requested = b.resync_completed THEN NoTime ELSE started
           /\ SameNodes(st, b) /\ SameQueue(st, b) /\ SameGenerations(st, b)
<1> DEFINE completed == IF upto > st.resync_completed THEN upto ELSE st.resync_completed
           since == IF st.resync_requested = completed THEN NoTime ELSE started
<1>1. completed \in Nat /\ since \in Nat
  BY Zenon DEF State, NoTime
<1>2. b = [st EXCEPT !.resync_completed = completed, !.resync_outstanding_since = since]
  BY Zenon DEF CompleteResync
<1> HIDE DEF completed, since
<1>3. /\ b \in State /\ b.resync_completed = completed
      /\ b.resync_outstanding_since = since
      /\ b.resync_requested = st.resync_requested /\ b.epoch = st.epoch
  BY Zenon, <1>1, <1>2 DEF State
<1>4. SameNodes(st, b) /\ SameQueue(st, b) /\ SameGenerations(st, b)
  BY Zenon, <1>2 DEF State, SameNodes, SameQueue, SameGenerations
<1> QED
  BY Zenon, <1>3, <1>4 DEF completed, since

-----------------------------------------------------------------------------
(* Marking and retrying *)

\* An overflow leaves the `cached` flags and an empty queue.
LEMMA OverflowKeepsCached ==
    ASSUME NEW st \in State, NEW now \in Nat, NEW b, b = Overflow(st, now)
    PROVE  SameCached(st, b) /\ Pending(b) = {} /\ Ordered(b) = {}
<1>1. /\ \A s \in Service : b.pending_set[s] = NotPending /\ b.pending_order[s] = {}
      /\ \A s \in Service : b.service_generation[s] =
           IF st.service_generation[s].cached
           THEN st.service_generation[s] ELSE NoGeneration
  BY OverflowFacts
<1>2. Pending(b) = {} /\ Ordered(b) = {}
  BY <1>1 DEF Pending, Ordered, NotPending
<1>3. ASSUME NEW s \in Service
      PROVE  b.service_generation[s].cached = st.service_generation[s].cached
  <2>1. st.service_generation[s].cached \in BOOLEAN
    BY Zenon DEF State, Generation
  <2>2. CASE st.service_generation[s].cached = TRUE
    BY Zenon, <1>1, <2>2
  <2>3. CASE st.service_generation[s].cached = FALSE
    <3>1. b.service_generation[s] = NoGeneration
      BY Zenon, <1>1, <2>3
    <3>2. NoGeneration.cached = FALSE
      BY Zenon DEF NoGeneration
    <3> QED BY Zenon, <3>1, <3>2, <2>3
  <2> QED BY Zenon, <2>1, <2>2, <2>3
<1> QED
  BY Zenon, <1>2, <1>3 DEF SameCached

\* A queued key is queued, and it alone is new.
LEMMA EnqueuePending ==
    ASSUME NEW st \in State, NEW s \in Service, NEW key \in PendingKey, key.when # "none",
           NEW b, b = Enqueue(st, s, key)
    PROVE  Pending(b) = Pending(st) \cup {s}
<1>1. b.pending_set[s] = key /\ \A t \in Service \ {s} : b.pending_set[t] = st.pending_set[t]
  BY EnqueueFacts
<1>2. st.pending_set \in [Service -> PendingKey]
  BY Zenon DEF State
<1> QED
  BY Zenon, <1>1, <1>2 DEF Pending

\* mark_service_dirty either queues the key or, over the cap, drops every key
\* for a resync; it never changes what is flagged as cached.
LEMMA MarkServiceFacts ==
    ASSUME NEW st \in State, NEW s \in Service, NEW when \in {"due", "fresh"},
           NEW now \in Nat, NEW b, b = MarkServiceDirty(st, s, when, now)
    PROVE  /\ b \in State /\ SameNodes(st, b) /\ SameCached(st, b)
           /\ \/ SameResync(st, b) /\ Pending(b) = Pending(st) \cup {s}
              \/ Requested(st, b, now) /\ Pending(b) = {}
<1> DEFINE cached == st.service_generation[s].cached
           bumped == BumpServiceGeneration(st, s, cached)
           key == MarkedKey(when)
<1>1. cached \in BOOLEAN /\ st.service_generation \in [Service -> Generation]
      /\ st.pending_set \in [Service -> PendingKey]
  BY Zenon DEF State, Generation
<1>2. key \in PendingKey /\ key.when # "none"
  BY Zenon DEF MarkedKey, PendingKey, When
<1>3. b = IF s \in Pending(st) THEN SetKeys(bumped, [st.pending_set EXCEPT ![s] = key])
          ELSE IF OverCap(st) THEN Overflow(bumped, now) ELSE Enqueue(bumped, s, key)
  BY Zenon DEF MarkServiceDirty
<1> HIDE DEF cached, key
<1>4. /\ bumped \in State
      /\ bumped.service_generation[s].cached = cached
      /\ \A t \in Service \ {s} : bumped.service_generation[t] = st.service_generation[t]
      /\ SameNodes(st, bumped) /\ SameResync(st, bumped) /\ SameQueue(st, bumped)
  BY <1>1, BumpFacts
<1> HIDE DEF bumped
<1>5. SameCached(st, bumped)
  BY Zenon, <1>1, <1>4 DEF SameCached, cached
<1>6. Pending(bumped) = Pending(st)
  BY Zenon, <1>4 DEF SameQueue, Pending
<1>7. CASE s \in Pending(st)
  <2> DEFINE set == [st.pending_set EXCEPT ![s] = key]
  <2>1. set \in [Service -> PendingKey]
    BY Zenon, <1>1, <1>2
  <2>2. \A t \in Service : set[t].when # "none" <=> t \in Pending(st)
    BY Zenon, <1>1, <1>2, <1>7 DEF Pending
  <2>3. b = SetKeys(bumped, set)
    BY Zenon, <1>3, <1>7
  <2> HIDE DEF set
  <2>4. /\ b \in State /\ b.pending_set = set
        /\ SameNodes(bumped, b) /\ SameResync(bumped, b) /\ SameGenerations(bumped, b)
    BY <1>4, <2>1, <2>3, SetKeysFacts
  <2>5. Pending(b) = Pending(st) \cup {s}
    BY Zenon, <1>7, <2>2, <2>4 DEF Pending
  <2> QED
    BY Zenon, <1>4, <1>5, <2>4, <2>5 DEF SameNodes, SameResync, SameGenerations, SameCached
<1>8. CASE s \notin Pending(st) /\ OverCap(st)
  <2>1. b = Overflow(bumped, now)
    BY Zenon, <1>3, <1>8
  <2>2. b \in State /\ SameNodes(bumped, b) /\ Requested(bumped, b, now)
    BY Zenon, <1>4, <2>1, OverflowFacts
  <2>3. SameCached(bumped, b) /\ Pending(b) = {}
    BY Zenon, <1>4, <2>1, OverflowKeepsCached
  <2>4. Requested(st, b, now)
    BY Zenon, <1>4, <2>2 DEF SameResync, Requested
  <2> QED
    BY Zenon, <1>4, <1>5, <2>2, <2>3, <2>4 DEF SameNodes, SameCached
<1>9. CASE s \notin Pending(st) /\ ~OverCap(st)
  <2>1. b = Enqueue(bumped, s, key)
    BY Zenon, <1>3, <1>9
  <2>2. /\ b \in State
        /\ SameNodes(bumped, b) /\ SameResync(bumped, b) /\ SameGenerations(bumped, b)
    BY <1>2, <1>4, <2>1, EnqueueFacts
  <2>3. Pending(b) = Pending(st) \cup {s}
    BY <1>2, <1>4, <1>6, <2>1, EnqueuePending
  <2> QED
    BY Zenon, <1>4, <1>5, <2>2, <2>3 DEF SameNodes, SameResync, SameGenerations, SameCached
<1> QED
  BY Zenon, <1>7, <1>8, <1>9

\* retry_service leaves the key queued or a resync requested.
LEMMA RetryFacts ==
    ASSUME NEW st \in State, NEW s \in Service, NEW attempts \in Nat,
           NEW now \in Nat, NEW b, b = RetryService(st, s, attempts, now)
    PROVE  /\ b \in State /\ SameNodes(st, b) /\ SameCached(st, b)
           /\ \/ SameResync(st, b) /\ Pending(b) = Pending(st) \cup {s}
              \/ Requested(st, b, now)
<1> DEFINE key == [when |-> "later", attempts |-> attempts + 1]
<1>1. key \in PendingKey /\ key.when # "none"
  BY DEF PendingKey, When
<1>2. b = IF s \in Pending(st) THEN st
          ELSE IF attempts >= RetryLimit THEN RequestResync(st, now)
          ELSE IF OverCap(st) THEN Overflow(st, now) ELSE Enqueue(st, s, key)
  BY Zenon DEF RetryService
<1> HIDE DEF key
<1>3. CASE b = st /\ s \in Pending(st)
  BY Zenon, <1>3 DEF SameNodes, SameCached, SameResync, Pending
<1>4. CASE b = RequestResync(st, now)
  <2>1. b \in State /\ SameNodes(st, b) /\ SameGenerations(st, b) /\ Requested(st, b, now)
    BY Zenon, <1>4, RequestFacts
  <2> QED BY Zenon, <2>1 DEF SameGenerations, SameCached
<1>5. CASE b = Overflow(st, now)
  <2>1. b \in State /\ SameNodes(st, b) /\ Requested(st, b, now)
    BY Zenon, <1>5, OverflowFacts
  <2>2. SameCached(st, b)
    BY Zenon, <1>5, OverflowKeepsCached
  <2> QED BY Zenon, <2>1, <2>2
<1>6. CASE b = Enqueue(st, s, key)
  <2>1. /\ b \in State
        /\ SameNodes(st, b) /\ SameResync(st, b) /\ SameGenerations(st, b)
    BY <1>1, <1>6, EnqueueFacts
  <2>2. Pending(b) = Pending(st) \cup {s}
    BY Zenon, <1>1, <1>6, EnqueuePending
  <2> QED BY Zenon, <2>1, <2>2 DEF SameGenerations, SameCached
<1> QED
  BY Zenon, <1>2, <1>3, <1>4, <1>5, <1>6

\* The state of a new reconciler.
LEMMA InitialFacts ==
    ASSUME NEW now \in Nat
    PROVE  /\ InitialState(now) \in State
           /\ Pending(InitialState(now)) = {} /\ Ordered(InitialState(now)) = {}
           /\ ResyncOutstanding(InitialState(now))
<1>1. [s \in Service |-> NoGeneration] \in [Service -> Generation]
  BY Zenon DEF NoGeneration, Generation
<1>2. [s \in Service |-> NotPending] \in [Service -> PendingKey]
  BY Zenon DEF NotPending, PendingKey, When
<1>3. InitialState(now) \in State
  BY Zenon, <1>1, <1>2 DEF InitialState, State
<1>4. Pending(InitialState(now)) = {} /\ Ordered(InitialState(now)) = {}
  BY Zenon DEF InitialState, Pending, Ordered, NotPending
<1>5. ResyncOutstanding(InitialState(now))
  BY DEF InitialState, ResyncOutstanding
<1> QED
  BY Zenon, <1>3, <1>4, <1>5

-----------------------------------------------------------------------------
(* The shape of the queue *)

\* The shape depends on which keys are queued and on the order only.
LEMMA ShapeDependsOnQueue ==
    ASSUME NEW a, NEW b, QueueShape(a),
           Pending(b) = Pending(a), b.pending_order = a.pending_order
    PROVE  QueueShape(b)
<1>1. Ordered(b) = Ordered(a)
  BY Zenon DEF Ordered
<1> QED
  BY Zenon, <1>1 DEF QueueShape

\* A queue that was emptied has its shape.
LEMMA EmptyShape ==
    ASSUME NEW st, Pending(st) = {}, Ordered(st) = {}
    PROVE  QueueShape(st)
  BY Zenon DEF QueueShape

\* Queueing a new key keeps the shape.
LEMMA EnqueueShape ==
    ASSUME NEW st \in State, QueueShape(st), NEW s \in Service, s \notin Pending(st),
           NEW key \in PendingKey, key.when # "none"
    PROVE  QueueShape(Enqueue(st, s, key))
<1> DEFINE b == Enqueue(st, s, key)
<1>1. /\ b.pending_order[s] = Ordered(st) \cup {s}
      /\ \A t \in Service \ {s} : b.pending_order[t] = st.pending_order[t]
  BY EnqueueFacts
<1>2. Pending(b) = Pending(st) \cup {s}
  BY Zenon, EnqueuePending
<1> HIDE DEF b
<1>3. Ordered(b) = Ordered(st) \cup {s}
  BY Zenon, <1>1 DEF Ordered
<1>6. s \notin Ordered(st) /\ Ordered(st) \subseteq Service
  BY Zenon DEF QueueShape, Ordered
<1>7. \A t \in Ordered(st) : b.pending_order[t] = st.pending_order[t]
  BY Zenon, <1>1, <1>6
<1>8. \A t \in Ordered(b) : t \in b.pending_order[t] /\ b.pending_order[t] \subseteq Ordered(b)
  BY Zenon, <1>1, <1>3, <1>7 DEF QueueShape
<1>9. ASSUME NEW t \in Ordered(b), NEW u \in Ordered(b), t # u
      PROVE  \/ t \in b.pending_order[u] /\ b.pending_order[t] \subseteq b.pending_order[u] \ {u}
             \/ u \in b.pending_order[t] /\ b.pending_order[u] \subseteq b.pending_order[t] \ {t}
  <2>1. CASE t = s
    BY <1>1, <1>3, <1>6, <1>7, <1>9, <2>1 DEF QueueShape
  <2>2. CASE u = s
    BY <1>1, <1>3, <1>6, <1>7, <1>9, <2>2 DEF QueueShape
  <2>3. CASE t # s /\ u # s
    BY Zenon, <1>3, <1>7, <1>9, <2>3 DEF QueueShape
  <2> QED BY Zenon, <2>1, <2>2, <2>3
<1>10. Ordered(b) = Pending(b)
  BY Zenon, <1>2, <1>3 DEF QueueShape
<1> QED
  BY Zenon, <1>8, <1>9, <1>10 DEF QueueShape, b

\* Taking the due keys keeps the shape.
LEMMA TakeShape ==
    ASSUME NEW st \in State, QueueShape(st)
    PROVE  QueueShape(TakeDueKeys(st))
<1> DEFINE b == TakeDueKeys(st)
           gone == KeysToTake(st)
<1>1. /\ Pending(b) = Pending(st) \ gone
      /\ \A s \in Service : b.pending_order[s] =
           IF s \in gone THEN {} ELSE st.pending_order[s] \ gone
  BY Zenon, TakeFacts
<1> HIDE DEF b, gone
<1>2. \A s \in Ordered(st) : s \in st.pending_order[s]
  BY Zenon DEF QueueShape
<1>3. Ordered(b) = Ordered(st) \ gone
  BY Zenon, <1>1, <1>2 DEF Ordered
<1>4. Ordered(b) = Pending(b)
  BY Zenon, <1>1, <1>3 DEF QueueShape
<1>6. \A s \in Ordered(b) : b.pending_order[s] = st.pending_order[s] \ gone
  BY Zenon, <1>1, <1>3 DEF Ordered
<1>7. \A s \in Ordered(b) : s \in b.pending_order[s] /\ b.pending_order[s] \subseteq Ordered(b)
  BY <1>3, <1>6 DEF QueueShape
<1>8. ASSUME NEW t \in Ordered(b), NEW u \in Ordered(b), t # u
      PROVE  \/ t \in b.pending_order[u] /\ b.pending_order[t] \subseteq b.pending_order[u] \ {u}
             \/ u \in b.pending_order[t] /\ b.pending_order[u] \subseteq b.pending_order[t] \ {t}
  BY <1>3, <1>6, <1>8 DEF QueueShape
<1> QED
  BY Zenon, <1>4, <1>7, <1>8 DEF QueueShape, b

\* The step from a to b lets no key ahead of one that stays queued, and lets at
\* most one key in, under the cap.
QueueMoves(a, b) ==
    /\ \A s \in Pending(a) \cap Pending(b) : b.pending_order[s] \subseteq a.pending_order[s]
    /\ \/ Pending(b) \subseteq Pending(a)
       \/ /\ ~OverCap(a)
          /\ \E s \in Service \ Pending(a) : Pending(b) = Pending(a) \cup {s}

\* Queueing a key that is not queued, under the cap, lets nothing ahead.
LEMMA EnqueueOrder ==
    ASSUME NEW st \in State, NEW s \in Service, s \notin Pending(st), ~OverCap(st),
           NEW key \in PendingKey, key.when # "none"
    PROVE  QueueMoves(st, Enqueue(st, s, key))
<1>1. \A t \in Service \ {s} : Enqueue(st, s, key).pending_order[t] = st.pending_order[t]
  BY EnqueueFacts
<1>2. Pending(Enqueue(st, s, key)) = Pending(st) \cup {s}
  BY Zenon, EnqueuePending
<1>3. Pending(st) \subseteq Service
  BY Zenon DEF Pending
<1> QED
  BY Zenon, <1>1, <1>2, <1>3 DEF QueueMoves

\* mark_service_dirty keeps the shape and the order of the queue.
LEMMA MarkShape ==
    ASSUME NEW st \in State, QueueShape(st), NEW s \in Service,
           NEW when \in {"due", "fresh"}, NEW now \in Nat,
           NEW b, b = MarkServiceDirty(st, s, when, now)
    PROVE  QueueShape(b) /\ QueueMoves(st, b)
<1> DEFINE cached == st.service_generation[s].cached
           bumped == BumpServiceGeneration(st, s, cached)
           key == MarkedKey(when)
<1>1. cached \in BOOLEAN /\ st.pending_set \in [Service -> PendingKey]
  BY Zenon DEF State, Generation
<1>2. key \in PendingKey /\ key.when # "none"
  BY Zenon DEF MarkedKey, PendingKey, When
<1>3. b = IF s \in Pending(st) THEN SetKeys(bumped, [st.pending_set EXCEPT ![s] = key])
          ELSE IF OverCap(st) THEN Overflow(bumped, now) ELSE Enqueue(bumped, s, key)
  BY Zenon DEF MarkServiceDirty
<1> HIDE DEF cached, key
<1>4. bumped \in State /\ SameQueue(st, bumped)
  BY Zenon, <1>1, BumpFacts
<1> HIDE DEF bumped
<1>5. Pending(bumped) = Pending(st) /\ bumped.pending_order = st.pending_order
  BY Zenon, <1>4 DEF SameQueue, Pending
<1>6. QueueShape(bumped)
  BY Zenon, <1>5, ShapeDependsOnQueue
<1>7. CASE s \in Pending(st)
  <2> DEFINE set == [st.pending_set EXCEPT ![s] = key]
  <2>1. set \in [Service -> PendingKey]
    BY Zenon, <1>1, <1>2
  <2>2. \A t \in Service : set[t].when # "none" <=> t \in Pending(st)
    BY Zenon, <1>1, <1>2, <1>7 DEF Pending
  <2>3. b = SetKeys(bumped, set)
    BY Zenon, <1>3, <1>7
  <2> HIDE DEF set
  <2>4. b.pending_set = set /\ b.pending_order = bumped.pending_order
    BY <1>4, <2>1, <2>3, SetKeysFacts
  <2>5. Pending(b) = Pending(st)
    BY Zenon, <2>2, <2>4 DEF Pending
  <2>6. QueueShape(b)
    BY Zenon, <1>5, <1>6, <2>4, <2>5, ShapeDependsOnQueue
  <2> QED
    BY Zenon, <1>5, <2>4, <2>5, <2>6 DEF QueueMoves
<1>8. CASE s \notin Pending(st) /\ OverCap(st)
  <2>1. Pending(b) = {} /\ Ordered(b) = {}
    BY Zenon, <1>3, <1>4, <1>8, OverflowKeepsCached
  <2> QED
    BY Zenon, <2>1, EmptyShape DEF QueueMoves
<1>9. CASE s \notin Pending(st) /\ ~OverCap(st)
  <2>1. b = Enqueue(bumped, s, key)
    BY Zenon, <1>3, <1>9
  <2>2. ~OverCap(bumped)
    BY Zenon, <1>5, <1>9 DEF OverCap
  <2>3. QueueShape(b)
    BY Zenon, <1>2, <1>4, <1>5, <1>6, <1>9, <2>1, <2>2, EnqueueShape
  <2>4. QueueMoves(bumped, b)
    BY Zenon, <1>2, <1>4, <1>5, <1>9, <2>1, <2>2, EnqueueOrder
  <2> QED
    BY Zenon, <1>5, <1>9, <2>3, <2>4 DEF QueueMoves
<1> QED
  BY Zenon, <1>7, <1>8, <1>9

\* retry_service keeps the shape and the order of the queue.
LEMMA RetryShape ==
    ASSUME NEW st \in State, QueueShape(st), NEW s \in Service,
           NEW attempts \in Nat, NEW now \in Nat,
           NEW b, b = RetryService(st, s, attempts, now)
    PROVE  QueueShape(b) /\ QueueMoves(st, b)
<1> DEFINE key == [when |-> "later", attempts |-> attempts + 1]
<1>1. key \in PendingKey /\ key.when # "none"
  BY DEF PendingKey, When
<1>2. b = IF s \in Pending(st) THEN st
          ELSE IF attempts >= RetryLimit THEN RequestResync(st, now)
          ELSE IF OverCap(st) THEN Overflow(st, now) ELSE Enqueue(st, s, key)
  BY Zenon DEF RetryService
<1> HIDE DEF key
<1>3. CASE b = st
  BY Zenon, <1>3 DEF QueueMoves
<1>4. CASE b = RequestResync(st, now)
  <2>1. SameQueue(st, b)
    BY Zenon, <1>4, RequestFacts
  <2>2. Pending(b) = Pending(st) /\ b.pending_order = st.pending_order
    BY Zenon, <2>1 DEF SameQueue, Pending
  <2> QED BY Zenon, <2>2, ShapeDependsOnQueue DEF QueueMoves
<1>5. CASE b = Overflow(st, now)
  <2>1. Pending(b) = {} /\ Ordered(b) = {}
    BY Zenon, <1>5, OverflowKeepsCached
  <2> QED BY Zenon, <2>1, EmptyShape DEF QueueMoves
<1>6. CASE b = Enqueue(st, s, key) /\ s \notin Pending(st) /\ ~OverCap(st)
  BY Zenon, <1>1, <1>6, EnqueueShape, EnqueueOrder
<1> QED
  BY Zenon, <1>2, <1>3, <1>4, <1>5, <1>6

-----------------------------------------------------------------------------
(* The reconciler *)

CachesOK ==
    /\ metadata \in [Service -> Counts]
    /\ nodes \in NodeSet \cup {NoNodes}
    /\ replica_series \in [Label -> Counts]
    /\ update_series \in [Label -> ServiceSpec \cup {NoService}]

\* An answered inspect has a service, and a pass a target that was not reached
\* when it started.
ControlInv ==
    /\ pc = "inspected" => inspected.service \in Service
    /\ state.resync_completed <= state.resync_requested
    /\ InPass => state.resync_completed < target /\ target <= state.resync_requested

-----------------------------------------------------------------------------
(* Type correctness *)

\* apply_service writes well-typed metadata and series.
LEMMA ApplyServiceType ==
    ASSUME TypeOK, NEW s \in Service, NEW spec \in ServiceSpec \cup {NoService},
           ApplyService(s, spec)
    PROVE  CachesOK' /\ state' \in State
<1> DEFINE counts == [spec |-> spec, nodes |-> nodes]
<1>1. counts \in Counts /\ NoCounts \in Counts
  BY Zenon DEF TypeOK, Counts, NoCounts
<1>2. state' \in State
  <2>1. state' = BumpServiceGeneration(state, s, TRUE) /\ state \in State
    BY Zenon DEF ApplyService, TypeOK
  <2> QED BY Zenon, <2>1, BumpFacts
<1>3. /\ metadata' = [metadata EXCEPT ![s] = counts]
      /\ replica_series' = [l \in Label |->
           IF l = LabelOf(s, spec) THEN counts
           ELSE IF l \in LabelsOf(s, metadata[s].spec) \ {LabelOf(s, spec)} THEN NoCounts
           ELSE replica_series[l]]
      /\ nodes' = nodes
  BY Zenon DEF ApplyService
<1>4. update_series' \in [Label -> ServiceSpec \cup {NoService}]
  BY Zenon DEF ApplyService, TypeOK
<1> HIDE DEF counts
<1>5. metadata' \in [Service -> Counts] /\ replica_series' \in [Label -> Counts]
  BY Zenon, <1>1, <1>3 DEF TypeOK
<1> QED
  BY Zenon, <1>2, <1>3, <1>4, <1>5 DEF CachesOK, TypeOK

\* remove_service writes well-typed metadata and series.
LEMMA RemoveServiceType ==
    ASSUME TypeOK, NEW s \in Service, RemoveService(s)
    PROVE  CachesOK' /\ state' \in State
<1>1. NoCounts \in Counts
  BY Zenon DEF Counts, NoCounts
<1>2. state' \in State
  <2>1. state' = ForgetGeneration(state, s) /\ state \in State
    BY Zenon DEF RemoveService, TypeOK
  <2> QED BY Zenon, <2>1, ForgetFacts
<1>3. metadata' \in [Service -> Counts] /\ replica_series' \in [Label -> Counts]
  BY Zenon, <1>1 DEF RemoveService, TypeOK
<1>4. update_series' \in [Label -> ServiceSpec \cup {NoService}] /\ nodes' = nodes
  BY Zenon DEF RemoveService, TypeOK
<1> QED
  BY Zenon, <1>2, <1>3, <1>4 DEF CachesOK, TypeOK

\* apply_nodes writes well-typed metadata and series.
LEMMA ApplyNodesType ==
    ASSUME TypeOK, NEW n \in NodeSet \cup {NoNodes}, ApplyNodes(n)
    PROVE  CachesOK' /\ state' \in State
<1>1. NoCounts \in Counts /\ metadata \in [Service -> Counts]
  BY Zenon DEF TypeOK, Counts, NoCounts
<1>2. state' \in State
  <2>1. state' = BumpNodeGeneration(state) /\ state \in State
    BY Zenon DEF ApplyNodes, TypeOK
  <2> QED BY Zenon, <2>1, BumpNodeFacts
<1>3. \A s \in Service : /\ [metadata[s] EXCEPT !.nodes = n] \in Counts
                         /\ [spec |-> metadata[s].spec, nodes |-> n] \in Counts
  BY Zenon, <1>1 DEF Counts
<1>4. metadata' \in [Service -> Counts]
  BY Zenon, <1>1, <1>3 DEF ApplyNodes
<1>5. replica_series' \in [Label -> Counts]
  <2>1. PICK last \in LastWriters :
          replica_series' = [l \in Label |-> IF l \in DOMAIN last
                                             THEN [spec |-> metadata[last[l]].spec, nodes |-> n]
                                             ELSE replica_series[l]]
    BY Zenon DEF ApplyNodes
  <2>2. \A l \in DOMAIN last : last[l] \in Service
    BY Zenon DEF LastWriters
  <2> QED BY Zenon, <1>3, <2>1, <2>2 DEF TypeOK
<1>6. nodes' = n /\ update_series' = update_series
  BY Zenon DEF ApplyNodes
<1> QED
  BY Zenon, <1>2, <1>4, <1>5, <1>6 DEF CachesOK, TypeOK

\* What a bound records stays well-typed.
LEMMA SpentType ==
    ASSUME NEW sp \in Spent
    PROVE  /\ [sp EXCEPT !.changes = @ + 1] \in Spent
           /\ [sp EXCEPT !.faults = @ + 1] \in Spent
           /\ [sp EXCEPT !.drops = @ + 1] \in Spent
           /\ [sp EXCEPT !.periodic = @ + 1] \in Spent
  BY DEF Spent

\* What a reopened stream delivers are events.
LEMMA ConnectType ==
    ASSUME NEW q \in Seq(Event), NEW first \in 1 .. Len(q) + 1,
           NEW repeated \in {<<>>} \cup {<<e>> : e \in Event}
    PROVE  repeated \o SubSeq(q, first, Len(q)) \in Seq(Event)
<1>1. repeated \in Seq(Event)
  <2>1. CASE repeated = <<>>
    BY <2>1
  <2>2. ASSUME NEW e \in Event, repeated = <<e>>
        PROVE  repeated \in Seq(Event)
    BY <2>2
  <2> QED BY Zenon, <2>1, <2>2
<1>2. SubSeq(q, first, Len(q)) \in Seq(Event)
  OBVIOUS
<1> QED
  BY <1>1, <1>2

\* The initial state is well-typed.
LEMMA TypeInit ==
    Init => TypeOK
<1> SUFFICES ASSUME Init PROVE TypeOK
  BY Zenon
<1>1. state \in State
  BY Zenon, InitialFacts DEF Init
<1>2. metadata \in [Service -> Counts] /\ replica_series \in [Label -> Counts]
  BY Zenon DEF Init, Counts, NoCounts
<1>3. inspected \in [service : Service \cup {NodeEvent}, attempts : Nat, found : Found]
  BY Zenon DEF Init, NoKey, Found
<1>4. spent \in Spent
  BY Zenon DEF Init, Spent
<1>5. in_flight \in Seq(Event)
  BY DEF Init
<1>6. /\ world \in [Service -> ServiceSpec \cup {NoService}]
      /\ timer \in [Timer -> When \ {"none"}]
      /\ listed \in [Service -> Found]
      /\ taken \in [Service -> Nat]
      /\ update_series \in [Label -> ServiceSpec \cup {NoService}]
  BY Zenon, ConstantsAssumption DEF Init, When, Found
<1>7. reconnect \in BOOLEAN /\ wake \in BOOLEAN /\ cancelled \in BOOLEAN
  BY Zenon DEF Init
<1>8. /\ pc \in PCs /\ listener \in {"connecting", "open", "signal", "stopped"}
      /\ target \in Nat /\ pass_start \in Nat /\ clock \in Nat \ {0}
      /\ swarm_nodes \in NodeSet /\ nodes = NoNodes /\ listed_nodes = NoNodes
      /\ armed = {} /\ todo = {}
  BY DEF Init, PCs
<1> QED
  BY Zenon, <1>1, <1>2, <1>3, <1>4, <1>5, <1>6, <1>7, <1>8 DEF TypeOK

\* Every step keeps the types.
LEMMA TypeStep ==
    TypeOK /\ ControlInv /\ [Next]_vars => TypeOK'
<1> SUFFICES ASSUME TypeOK, ControlInv, [Next]_vars
             PROVE  TypeOK'
  BY Zenon
<1>1. state \in State /\ clock \in Nat
  BY Zenon DEF TypeOK
<1> USE <1>1
<1>2. CASE Next
  <2>1. ASSUME NEW s \in Service, NEW found \in ServiceSpec \cup {NoService},
      ChangeService(s, found)
        PROVE  TypeOK'
    <3>1. spent' \in Spent
      BY Zenon, <2>1, SpentType DEF TypeOK, ChangeService, SpendFault
    <3>2. in_flight' \in Seq(Event)
      BY <2>1 DEF TypeOK, ChangeService, Event
    <3> QED BY ZenonT(60), <2>1, <3>1, <3>2 DEF TypeOK, ChangeService, daemon, events, shared,
        caches, locals, env
  <2>2. ASSUME NEW n \in NodeSet, ChangeNodes(n)
        PROVE  TypeOK'
    <3>1. spent' \in Spent
      BY Zenon, <2>2, SpentType DEF TypeOK, ChangeNodes, SpendFault
    <3>2. in_flight' \in Seq(Event)
      BY <2>2 DEF TypeOK, ChangeNodes, Event
    <3> QED BY Zenon, <2>2, <3>1, <3>2 DEF TypeOK, ChangeNodes, daemon, events, shared,
        caches, locals, env
  <2>3. CASE Tick
    BY <2>3 DEF TypeOK, Tick, daemon, events, shared, caches, locals, env
  <2>4. CASE Cancel
    BY Zenon, <2>4 DEF TypeOK, Cancel, daemon, events, shared, caches, locals, env
  <2>5. ASSUME NEW s \in Service, ElapseKey(s)
        PROVE  TypeOK'
    <3>1. s \in Pending(state) /\ state' = KeyElapses(state, s)
      BY Zenon, <2>5 DEF ElapseKey, Pending
    <3>2. state' \in State
      BY Zenon, <3>1, KeyElapsesFacts
    <3> QED BY Zenon, <2>5, <3>2 DEF TypeOK, ElapseKey, daemon, events, shared, caches, locals, env
  <2>6. ASSUME NEW t \in Timer, ElapseTimer(t)
        PROVE  TypeOK'
    <3>1. spent' \in Spent
      BY Zenon, <2>6, SpentType DEF TypeOK, ElapseTimer, SpendFault
    <3>2. timer' \in [Timer -> When \ {"none"}]
      BY Zenon, <2>6 DEF TypeOK, ElapseTimer, When
    <3> QED BY Zenon, <2>6, <3>1, <3>2 DEF TypeOK, ElapseTimer, When, daemon, events, shared,
        caches, locals, env
  <2>7. CASE Connect
    <3>1. state' \in {state, RequestResync(state, clock)}
      BY Zenon, <2>7 DEF Connect
    <3>2. state' \in State
      BY Zenon, <3>1, RequestFacts
    <3>3. in_flight' \in Seq(Event)
      <4>1. CASE reconnect
        <5>1. PICK first \in 1 .. Len(in_flight) + 1,
                   repeated \in {<<>>} \cup {<<e>> : e \in Event} :
                in_flight' = repeated \o SubSeq(in_flight, first, Len(in_flight))
          BY Zenon, <2>7, <4>1 DEF Connect
        <5>2. in_flight \in Seq(Event)
          BY Zenon DEF TypeOK
        <5> QED BY Zenon, <5>1, <5>2, ConnectType
      <4>2. CASE ~reconnect
        BY Zenon, <2>7, <4>2 DEF Connect, TypeOK
      <4> QED BY Zenon, <4>1, <4>2
    <3> QED BY Zenon, <2>7, <3>2, <3>3 DEF TypeOK, Connect, daemon, events, shared, caches,
        locals, env
  <2>8. CASE LoseStream
    <3>1. spent' \in Spent
      BY Zenon, <2>8, SpentType DEF TypeOK, LoseStream, SpendFault
    <3> QED BY Zenon, <2>8, <3>1 DEF TypeOK, LoseStream, daemon, events, shared, caches,
        locals, env
  <2>9. CASE DispatchEvent
    <3>1. in_flight' \in Seq(Event) /\ Head(in_flight) \in Event
      BY <2>9 DEF DispatchEvent, TypeOK
    <3>2. state' \in State
      <4>1. CASE state' = MarkNodesDirty(state)
        BY Zenon, <4>1, MarkNodesFacts
      <4>2. CASE \E when \in MarkTimes :
                   state' = MarkServiceDirty(state, Head(in_flight), when, clock)
        <5>1. CASE Head(in_flight) # NodeEvent
          BY Zenon, <3>1, <4>2, <5>1, MarkServiceFacts DEF MarkTimes, Event
        <5>2. CASE Head(in_flight) = NodeEvent
          BY Zenon, <2>9, <5>2, MarkNodesFacts DEF DispatchEvent
        <5> QED BY Zenon, <5>1, <5>2
      <4> QED BY Zenon, <2>9, <4>1, <4>2 DEF DispatchEvent
    <3> QED BY Zenon, <2>9, <3>1, <3>2 DEF TypeOK, DispatchEvent, daemon, events, shared,
        caches, locals, env
  <2>10. CASE Signal
    BY Zenon, <2>10 DEF TypeOK, Signal, daemon, events, shared, caches, locals, env
  <2>11. CASE StopListener
    BY Zenon, <2>11 DEF TypeOK, StopListener, daemon, events, shared, caches, locals, env
  <2>12. CASE BeginCycle
    <3>1. AdvanceKeys(state) \in State
      BY Zenon, AdvanceFacts
    <3>2. state' \in State
      BY Zenon, <2>12, <3>1, RequestFacts DEF BeginCycle
    <3>3. timer' \in [Timer -> When \ {"none"}]
      BY Zenon, <2>12 DEF BeginCycle, TypeOK, When, ReachNow
    <3>4. wake' \in BOOLEAN
      BY <2>12, Zenon DEF BeginCycle, TypeOK
    <3> QED BY Zenon, <2>12, <3>2, <3>3, <3>4 DEF TypeOK, BeginCycle, PCs, daemon, events,
        shared, caches, locals, env
  <2>13. CASE StartNodes
    <3>1. state' \in {state, SetNodesDirty(state, FALSE)}
      BY Zenon, <2>13 DEF StartNodes
    <3>2. state' \in State
      BY Zenon, <3>1, SetNodesDirtyFacts
    <3> QED BY ZenonT(60), <2>13, <3>2 DEF TypeOK, StartNodes, PCs, daemon, events, shared,
        caches, locals, env
  <2>14. CASE AnswerNodes
    BY Zenon, <2>14 DEF TypeOK, AnswerNodes, PCs, daemon, events, shared, caches, locals, env
  <2>15. CASE FailNodes
    <3>1. state' = SetNodesDirty(state, TRUE)
      BY Zenon, <2>15 DEF FailNodes
    <3>2. state' \in State
      BY Zenon, <3>1, SetNodesDirtyFacts
    <3>3. spent' \in Spent
      BY Zenon, <2>15, SpentType DEF TypeOK, FailNodes, SpendFault
    <3> QED BY Zenon, <2>15, <3>2, <3>3 DEF TypeOK, FailNodes, PCs, When, Timer, daemon,
        events, shared, caches, locals, env
  <2>16. CASE FinishNodes
    <3>1. ApplyNodes(listed_nodes) /\ listed_nodes \in NodeSet \cup {NoNodes}
      BY Zenon, <2>16 DEF FinishNodes, TypeOK
    <3>2. CachesOK' /\ state' \in State
      BY Zenon, <3>1, ApplyNodesType
    <3> QED BY Zenon, <2>16, <3>2 DEF TypeOK, FinishNodes, CachesOK, PCs, daemon, events,
        shared, caches, locals, env
  <2>17. CASE StartResync
    <3>1. state.resync_requested \in Nat
      BY Zenon DEF TypeOK, State
    <3> QED BY ZenonT(60), <2>17, <3>1 DEF TypeOK, StartResync, PCs, daemon, events, shared, caches,
        locals, env
  <2>18. CASE AnswerServices
    <3>1. spent' \in Spent
      BY Zenon, <2>18, SpentType DEF TypeOK, AnswerServices, SpendFault
    <3>2. listed' \in [Service -> Found]
      BY Zenon, <2>18 DEF TypeOK, AnswerServices, Found
    <3> QED BY <2>18, <3>1, <3>2 DEF TypeOK, AnswerServices, Found, PCs, daemon,
        events, shared, caches, locals, env
  <2>19. CASE AnswerResyncNodes
    BY Zenon, <2>19 DEF TypeOK, AnswerResyncNodes, PCs, daemon, events, shared, caches, locals, env
  <2>20. CASE FailResync
    <3>1. spent' \in Spent
      BY Zenon, <2>20, SpentType DEF TypeOK, FailResync, SpendFault
    <3>2. timer' \in [Timer -> When \ {"none"}]
      BY Zenon, <2>20 DEF TypeOK, FailResync, When
    <3> QED BY ZenonT(60), <2>20, <3>1, <3>2 DEF TypeOK, FailResync, ForgetPass, Found, PCs, When,
        Timer, daemon, events, shared, caches, locals, env
  <2>21. CASE ResyncApplyNodes
    <3>1. ApplyNodes(listed_nodes) /\ listed_nodes \in NodeSet \cup {NoNodes}
      BY Zenon, <2>21 DEF ResyncApplyNodes, TypeOK
    <3>2. CachesOK' /\ state' \in State
      BY Zenon, <3>1, ApplyNodesType
    <3> QED BY Zenon, <2>21, <3>2 DEF TypeOK, ResyncApplyNodes, CachesOK, PCs, daemon,
        events, shared, caches, locals, env
  <2>22. CASE FinishResync
    <3>1. PruneServiceGenerations(state) \in State
      BY Zenon, PruneFacts
    <3>2. state' \in State
      BY Zenon, <2>22, <3>1, CompleteFacts DEF FinishResync, TypeOK
    <3> QED BY ZenonT(60), <2>22, <3>2 DEF TypeOK, FinishResync, ForgetPass, Found, PCs, When,
        Timer, daemon, events, shared, caches, locals, env
  <2>23. ASSUME NEW s \in Service, ResyncApplyService(s)
        PROVE  TypeOK'
    <3>1. ApplyService(s, listed[s]) /\ listed[s] \in ServiceSpec \cup {NoService}
      BY Zenon, <2>23 DEF ResyncApplyService, TypeOK, Found
    <3>2. CachesOK' /\ state' \in State
      BY Zenon, <3>1, ApplyServiceType
    <3> QED BY Zenon, <2>23, <3>2 DEF TypeOK, CachesOK, ResyncApplyService, PCs, daemon,
        events, shared, caches, locals, env
  <2>24. ASSUME NEW s \in Service, ResyncPanics(s)
        PROVE  TypeOK'
    <3>1. state' = RequestResync(state, clock)
      BY Zenon, <2>24 DEF ResyncPanics, RequestResyncAfterPanic
    <3>2. state' \in State
      BY Zenon, <3>1, RequestFacts
    <3> QED BY ZenonT(60), <2>24, <3>2 DEF TypeOK, ResyncPanics, RequestResyncAfterPanic,
        ForgetPass, Found, PCs, When, Timer, daemon, events, shared, caches, locals, env
  <2>25. ASSUME NEW s \in Service, ResyncRemoveService(s)
        PROVE  TypeOK'
    <3>1. RemoveService(s)
      BY Zenon, <2>25 DEF ResyncRemoveService
    <3>2. CachesOK' /\ state' \in State
      BY Zenon, <3>1, RemoveServiceType
    <3> QED BY Zenon, <2>25, <3>2 DEF TypeOK, ResyncRemoveService, CachesOK, PCs, daemon,
        events, shared, caches, locals, env
  <2>26. CASE TakeKeys
    <3>1. state' \in State
      BY Zenon, <2>26, TakeFacts DEF TakeKeys
    <3>2. \A s \in Service : state.pending_set[s].attempts \in Nat
      BY Zenon DEF State, PendingKey
    <3>3. taken' \in [Service -> Nat]
      <4> DEFINE gone == KeysToTake(state)
                 count(s) == IF s \in gone THEN state.pending_set[s].attempts + 1 ELSE 0
      <4>1. taken' = [s \in Service |-> count(s)]
        BY Zenon, <2>26 DEF TakeKeys
      <4> HIDE DEF gone
      <4>2. \A s \in Service : count(s) \in Nat
        BY <3>2
      <4> QED BY Zenon, <4>1, <4>2
    <3>4. pc' \in PCs /\ UNCHANGED <<daemon, events, wake, caches, timer, armed, target,
                                     pass_start, listed, listed_nodes, todo, inspected, env>>
      BY Zenon, <2>26 DEF TakeKeys, PCs
    <3> QED BY Zenon, <3>1, <3>3, <3>4 DEF TypeOK, daemon, events, caches, env
  <2>27. CASE FinishKeys
    BY Zenon, <2>27 DEF TypeOK, FinishKeys, PCs, daemon, events, shared, caches, locals, env
  <2>28. CASE FinishInspect
    <3> DEFINE s == inspected.service
    <3>1. s \in Service
      BY Zenon, <2>28 DEF FinishInspect, ControlInv
    <3> HIDE DEF s
    <3>2. CASE inspected.found = Malformed /\ RequestResyncAfterPanic /\ UNCHANGED caches
      <4>1. state' \in State
        BY Zenon, <3>2, RequestFacts DEF RequestResyncAfterPanic
      <4>2. timer' \in [Timer -> When \ {"none"}]
        BY Zenon, <3>2 DEF RequestResyncAfterPanic, TypeOK, When
      <4> QED BY Zenon, <2>28, <3>2, <4>1, <4>2
              DEF TypeOK, FinishInspect, NoKey, Found, PCs, daemon, events, shared,
                  caches, locals, env
    <3>3. CASE inspected.found \in ServiceSpec /\ ApplyService(s, inspected.found)
                 /\ UNCHANGED timer
      <4>1. CachesOK' /\ state' \in State
        BY Zenon, <3>1, <3>3, ApplyServiceType
      <4> QED BY Zenon, <2>28, <3>3, <4>1
              DEF TypeOK, CachesOK, FinishInspect, NoKey, Found, PCs, daemon, events,
                  shared, caches, locals, env
    <3>4. CASE RemoveService(s) /\ UNCHANGED timer
      <4>1. CachesOK' /\ state' \in State
        BY Zenon, <3>1, <3>4, RemoveServiceType
      <4> QED BY Zenon, <2>28, <3>4, <4>1
              DEF TypeOK, CachesOK, FinishInspect, NoKey, Found, PCs, daemon, events,
                  shared, caches, locals, env
    <3> QED BY Zenon, <2>28, <3>2, <3>3, <3>4 DEF FinishInspect, s
  <2>29. CASE AbandonCall
    BY <2>29 DEF TypeOK, AbandonCall, ForgetPass, Found, PCs, daemon, events, shared,
        caches, locals, env
  <2>30. ASSUME NEW s \in Service, AnswerInspect(s)
        PROVE  TypeOK'
    <3>1. PICK found \in {world[s], Malformed} :
            inspected' = [service |-> s, attempts |-> taken[s] - 1, found |-> found]
      BY Zenon, <2>30 DEF AnswerInspect
    <3>2. found \in Found /\ taken[s] - 1 \in Nat
      BY <2>30 DEF AnswerInspect, Taken, TypeOK, Found
    <3>3. inspected' \in [service : Service \cup {NodeEvent}, attempts : Nat, found : Found]
      BY Zenon, <3>1, <3>2
    <3>4. spent' \in Spent
      BY Zenon, <2>30, SpentType DEF AnswerInspect, SpendFault, TypeOK
    <3> QED BY Zenon, <2>30, <3>3, <3>4 DEF TypeOK, AnswerInspect, PCs, daemon, events,
        shared, caches, locals, env
  <2>31. ASSUME NEW s \in Service, FailInspect(s)
        PROVE  TypeOK'
    <3>1. state' = RetryService(state, s, taken[s] - 1, clock) /\ taken[s] - 1 \in Nat
      BY <2>31 DEF FailInspect, Taken, TypeOK
    <3>2. state' \in State
      BY Zenon, <3>1, RetryFacts
    <3>3. spent' \in Spent
      BY Zenon, <2>31, SpentType DEF FailInspect, SpendFault, TypeOK
    <3> QED BY Zenon, <2>31, <3>2, <3>3 DEF TypeOK, FailInspect, daemon, events, shared,
        caches, locals, env
  <2>32. CASE Wait
    <3>1. Scheduled \subseteq Service \cup Timer
      BY Zenon DEF Scheduled, Pending, Timer
    <3> QED BY ZenonT(60), <2>32, <3>1 DEF TypeOK, Wait, PCs, daemon, events, shared, caches,
        locals, env
  <2>33. CASE TakePermit
    BY Zenon, <2>33 DEF TypeOK, TakePermit, PCs, daemon, events, shared, caches, locals, env
  <2>34. CASE TimerFires
    BY ZenonT(60), <2>34 DEF TypeOK, TimerFires, PCs, daemon, events, shared, caches, locals, env
  <2>35. CASE Stop
    BY Zenon, <2>35 DEF TypeOK, Stop, PCs, daemon, events, shared, caches, locals, env
  <2>36. CASE Rest
    BY Zenon, <2>36 DEF TypeOK, Rest, vars, daemon, events, shared, caches, locals, env
  <2> QED
    BY Zenon, <1>2, <2>1, <2>2, <2>3, <2>4, <2>5, <2>6, <2>7, <2>8, <2>9, <2>10, <2>11,
        <2>12, <2>13, <2>14, <2>15, <2>16, <2>17, <2>18, <2>19, <2>20, <2>21, <2>22,
        <2>23, <2>24, <2>25, <2>26, <2>27, <2>28, <2>29, <2>30, <2>31, <2>32, <2>33,
        <2>34, <2>35, <2>36
    DEF Next, Daemon, Elapse, Listener, Step
<1>3. CASE UNCHANGED vars
  BY Zenon, <1>3 DEF TypeOK, vars, daemon, events, shared, caches, locals, env
<1> QED
  BY Zenon, <1>2, <1>3

-----------------------------------------------------------------------------
(* What a step does to the shared state: one critical section or none *)

StateSteps ==
    \/ state' = state
    \/ \E s \in Pending(state) : state' = KeyElapses(state, s)
    \/ state' = RequestResync(state, clock)
    \/ state' = MarkNodesDirty(state)
    \/ \E s \in Service, when \in {"due", "fresh"} :
         state' = MarkServiceDirty(state, s, when, clock)
    \/ state' = AdvanceKeys(state)
    \/ state' = RequestResync(AdvanceKeys(state), clock)
    \/ StartNodes /\ state' = SetNodesDirty(state, FALSE)
    \/ state' = SetNodesDirty(state, TRUE)
    \/ state' = BumpNodeGeneration(state)
    \/ \E s \in Service : state' = BumpServiceGeneration(state, s, TRUE)
    \/ \E s \in Service : state' = ForgetGeneration(state, s)
    \/ FinishResync
    \/ TakeKeys
    \/ \E s \in Service, attempts \in Nat : state' = RetryService(state, s, attempts, clock)

\* Every step is one of those on the shared state.
LEMMA StateStep ==
    ASSUME TypeOK, ControlInv, [Next]_vars
    PROVE  StateSteps
<1>1. CASE Next
  <2>1. ASSUME NEW s \in Service, NEW found \in ServiceSpec \cup {NoService}, ChangeService(s, found)
        PROVE  StateSteps
    BY Zenon, <2>1 DEF ChangeService, StateSteps, shared
  <2>2. ASSUME NEW n \in NodeSet, ChangeNodes(n)
        PROVE  StateSteps
    BY Zenon, <2>2 DEF ChangeNodes, StateSteps, shared
  <2>3. CASE Tick
    BY Zenon, <2>3 DEF Tick, StateSteps, shared
  <2>4. CASE Cancel
    BY Zenon, <2>4 DEF Cancel, StateSteps, shared
  <2>5. ASSUME NEW s \in Service, ElapseKey(s)
        PROVE  StateSteps
    BY Zenon, <2>5 DEF ElapseKey, Pending, StateSteps, shared
  <2>6. ASSUME NEW t \in Timer, ElapseTimer(t)
        PROVE  StateSteps
    BY Zenon, <2>6 DEF ElapseTimer, StateSteps, shared
  <2>7. CASE Connect
    BY Zenon, <2>7 DEF Connect, StateSteps, shared
  <2>8. CASE LoseStream
    BY Zenon, <2>8 DEF LoseStream, StateSteps, shared
  <2>9. CASE DispatchEvent
    <3>1. CASE Head(in_flight) = NodeEvent
      BY Zenon, <2>9, <3>1 DEF DispatchEvent, StateSteps
    <3>2. CASE Head(in_flight) # NodeEvent
      <4>1. Head(in_flight) \in Service
        BY <2>9, <3>2 DEF DispatchEvent, TypeOK, Event
      <4> QED BY Zenon, <2>9, <3>2, <4>1 DEF DispatchEvent, MarkTimes, StateSteps
    <3> QED BY Zenon, <3>1, <3>2
  <2>10. CASE Signal
    BY Zenon, <2>10 DEF Signal, StateSteps, shared
  <2>11. CASE StopListener
    BY Zenon, <2>11 DEF StopListener, StateSteps, shared
  <2>12. CASE BeginCycle
    BY Zenon, <2>12 DEF BeginCycle, StateSteps, shared
  <2>13. CASE StartNodes
    BY Zenon, <2>13 DEF StartNodes, StateSteps, shared
  <2>14. CASE AnswerNodes
    BY Zenon, <2>14 DEF AnswerNodes, StateSteps, shared
  <2>15. CASE FailNodes
    BY Zenon, <2>15 DEF FailNodes, StateSteps, shared
  <2>16. CASE FinishNodes
    BY Zenon, <2>16 DEF FinishNodes, ApplyNodes, StateSteps, shared
  <2>17. CASE StartResync
    BY Zenon, <2>17 DEF StartResync, StateSteps, shared
  <2>18. CASE AnswerServices
    BY Zenon, <2>18 DEF AnswerServices, StateSteps, shared
  <2>19. CASE AnswerResyncNodes
    BY Zenon, <2>19 DEF AnswerResyncNodes, StateSteps, shared
  <2>20. CASE FailResync
    BY Zenon, <2>20 DEF FailResync, StateSteps, shared
  <2>21. CASE ResyncApplyNodes
    BY Zenon, <2>21 DEF ResyncApplyNodes, ApplyNodes, StateSteps, shared
  <2>22. CASE FinishResync
    BY Zenon, <2>22 DEF StateSteps
  <2>23. ASSUME NEW s \in Service, ResyncApplyService(s)
        PROVE  StateSteps
    BY Zenon, <2>23 DEF ResyncApplyService, ApplyService, StateSteps, shared
  <2>24. ASSUME NEW s \in Service, ResyncPanics(s)
        PROVE  StateSteps
    BY Zenon, <2>24 DEF ResyncPanics, RequestResyncAfterPanic, StateSteps, shared
  <2>25. ASSUME NEW s \in Service, ResyncRemoveService(s)
        PROVE  StateSteps
    BY Zenon, <2>25 DEF ResyncRemoveService, RemoveService, StateSteps, shared
  <2>26. CASE TakeKeys
    BY Zenon, <2>26 DEF StateSteps
  <2>27. CASE FinishKeys
    BY Zenon, <2>27 DEF FinishKeys, StateSteps, shared
  <2>28. CASE FinishInspect
    <3>1. inspected.service \in Service
      BY Zenon, <2>28 DEF FinishInspect, ControlInv
    <3> QED BY Zenon, <2>28, <3>1 DEF FinishInspect, ApplyService, RemoveService,
                              RequestResyncAfterPanic, StateSteps
  <2>29. CASE AbandonCall
    BY Zenon, <2>29 DEF AbandonCall, StateSteps, shared
  <2>30. ASSUME NEW s \in Service, AnswerInspect(s)
        PROVE  StateSteps
    BY Zenon, <2>30 DEF AnswerInspect, StateSteps, shared
  <2>31. ASSUME NEW s \in Service, FailInspect(s)
        PROVE  StateSteps
    <3>1. taken[s] - 1 \in Nat
      BY <2>31 DEF FailInspect, Taken, TypeOK
    <3> QED BY Zenon, <2>31, <3>1 DEF FailInspect, StateSteps
  <2>32. CASE Wait
    BY Zenon, <2>32 DEF Wait, StateSteps, shared
  <2>33. CASE TakePermit
    BY Zenon, <2>33 DEF TakePermit, StateSteps, shared
  <2>34. CASE TimerFires
    BY Zenon, <2>34 DEF TimerFires, StateSteps, shared
  <2>35. CASE Stop
    BY Zenon, <2>35 DEF Stop, StateSteps, shared
  <2>36. CASE Rest
    BY Zenon, <2>36 DEF Rest, vars, StateSteps, shared
  <2> QED
    BY Zenon, <1>1, <2>1, <2>2, <2>3, <2>4, <2>5, <2>6, <2>7, <2>8, <2>9, <2>10, <2>11, <2>12,
       <2>13, <2>14, <2>15, <2>16, <2>17, <2>18, <2>19, <2>20, <2>21, <2>22, <2>23, <2>24,
       <2>25, <2>26, <2>27, <2>28, <2>29, <2>30, <2>31, <2>32, <2>33, <2>34, <2>35, <2>36
    DEF Next, Daemon, Elapse, Listener, Step
<1>2. CASE UNCHANGED vars
  BY Zenon, <1>2 DEF vars, shared, StateSteps
<1> QED
  BY Zenon, <1>1, <1>2

-----------------------------------------------------------------------------
(* The queue *)

\* Every step keeps the shape of the queue and the order of its keys.
LEMMA QueueStep ==
    ASSUME TypeOK, ControlInv, QueueShape(state), [Next]_vars
    PROVE  QueueShape(state') /\ QueueMoves(state, state')
<1>1. state \in State /\ clock \in Nat /\ QueueShape(state)
  BY Zenon DEF TypeOK
<1>2. ASSUME Pending(state') = Pending(state), state'.pending_order = state.pending_order
      PROVE  QueueShape(state') /\ QueueMoves(state, state')
  BY Zenon, <1>1, <1>2, ShapeDependsOnQueue DEF QueueMoves
<1>3. ASSUME SameQueue(state, state')
      PROVE  QueueShape(state') /\ QueueMoves(state, state')
  BY Zenon, <1>2, <1>3 DEF SameQueue, Pending
<1>4. CASE state' = state
  BY Zenon, <1>2, <1>4
<1>5. ASSUME NEW s \in Pending(state), state' = KeyElapses(state, s)
      PROVE  QueueShape(state') /\ QueueMoves(state, state')
  <2>1. s \in Service
    BY Zenon DEF Pending
  <2> QED BY Zenon, <1>1, <1>2, <1>5, <2>1, KeyElapsesFacts
<1>6. CASE state' = RequestResync(state, clock)
  BY Zenon, <1>1, <1>3, <1>6, RequestFacts
<1>7. CASE state' = MarkNodesDirty(state)
  BY Zenon, <1>1, <1>3, <1>7, MarkNodesFacts
<1>8. ASSUME NEW s \in Service, NEW when \in {"due", "fresh"},
             state' = MarkServiceDirty(state, s, when, clock)
      PROVE  QueueShape(state') /\ QueueMoves(state, state')
  BY Zenon, <1>1, <1>8, MarkShape
<1>9. CASE state' = AdvanceKeys(state)
  BY Zenon, <1>1, <1>2, <1>9, AdvanceFacts
<1>10. CASE state' = RequestResync(AdvanceKeys(state), clock)
  <2> DEFINE a == AdvanceKeys(state)
  <2>1. a \in State /\ Pending(a) = Pending(state) /\ a.pending_order = state.pending_order
    BY Zenon, <1>1, AdvanceFacts
  <2> HIDE DEF a
  <2>2. SameQueue(a, state')
    BY Zenon, <1>1, <1>10, <2>1, RequestFacts DEF a
  <2> QED BY Zenon, <1>2, <2>1, <2>2 DEF SameQueue, Pending
<1>11. CASE state' \in {SetNodesDirty(state, TRUE), SetNodesDirty(state, FALSE)}
  BY Zenon, <1>1, <1>3, <1>11, SetNodesDirtyFacts
<1>12. CASE state' = BumpNodeGeneration(state)
  BY Zenon, <1>1, <1>3, <1>12, BumpNodeFacts
<1>13. ASSUME NEW s \in Service, state' = BumpServiceGeneration(state, s, TRUE)
       PROVE  QueueShape(state') /\ QueueMoves(state, state')
  BY Zenon, <1>1, <1>3, <1>13, BumpFacts
<1>14. ASSUME NEW s \in Service, state' = ForgetGeneration(state, s)
       PROVE  QueueShape(state') /\ QueueMoves(state, state')
  BY Zenon, <1>1, <1>3, <1>14, ForgetFacts
<1>15. CASE FinishResync
  <2> DEFINE p == PruneServiceGenerations(state)
  <2>1. p \in State /\ SameQueue(state, p)
    BY Zenon, <1>1, PruneFacts
  <2>2. state' = CompleteResync(p, target, pass_start) /\ target \in Nat /\ pass_start \in Nat
    BY Zenon, <1>15 DEF FinishResync, TypeOK
  <2> HIDE DEF p
  <2>3. SameQueue(p, state')
    BY Zenon, <2>1, <2>2, CompleteFacts
  <2> QED BY Zenon, <1>3, <2>1, <2>3 DEF SameQueue
<1>16. CASE TakeKeys
  <2>1. state' = TakeDueKeys(state)
    BY Zenon, <1>16 DEF TakeKeys
  <2>2. \A s \in Service : state'.pending_order[s] =
          IF s \in KeysToTake(state) THEN {} ELSE state.pending_order[s] \ KeysToTake(state)
    BY Zenon, <1>1, <2>1, TakeFacts
  <2>3. \A s \in Service : state'.pending_order[s] \subseteq state.pending_order[s]
    BY Zenon, <2>2
  <2>4. Pending(state') = Pending(state) \ KeysToTake(state)
    BY Zenon, <1>1, <2>1, TakeFacts
  <2>5. QueueShape(state')
    BY Zenon, <1>1, <2>1, TakeShape
  <2>6. Pending(state) \subseteq Service
    BY Zenon DEF Pending
  <2> QED BY Zenon, <2>3, <2>4, <2>5, <2>6 DEF QueueMoves
<1>17. ASSUME NEW s \in Service, NEW attempts \in Nat,
              state' = RetryService(state, s, attempts, clock)
       PROVE  QueueShape(state') /\ QueueMoves(state, state')
  BY Zenon, <1>1, <1>17, RetryShape
<1> QED
  BY Zenon, StateStep, <1>4, <1>5, <1>6, <1>7, <1>8, <1>9, <1>10, <1>11, <1>12, <1>13, <1>14,
     <1>15, <1>16, <1>17 DEF StateSteps

-----------------------------------------------------------------------------
(* The resync counters *)

Raised == state'.resync_requested > state.resync_requested

\* Only the end of a pass touches the completed count, and only requests touch
\* the requested count.
LEMMA ResyncStep ==
    ASSUME TypeOK, ControlInv, [Next]_vars
    PROVE  \/ SameResync(state, state')
           \/ Requested(state, state', clock)
           \/ /\ FinishResync
              /\ state'.resync_requested = state.resync_requested
              /\ state'.resync_completed = target
              /\ state'.resync_outstanding_since =
                   IF state.resync_requested = target THEN NoTime ELSE pass_start
<1>1. state \in State /\ clock \in Nat
  BY Zenon DEF TypeOK
<1>2. CASE state' = state
  BY Zenon, <1>2 DEF SameResync
<1>3. ASSUME NEW s \in Pending(state), state' = KeyElapses(state, s)
      PROVE  SameResync(state, state')
  <2>1. s \in Service
    BY Zenon DEF Pending
  <2> QED BY Zenon, <1>1, <1>3, <2>1, KeyElapsesFacts
<1>4. CASE state' = RequestResync(state, clock)
  BY Zenon, <1>1, <1>4, RequestFacts
<1>5. CASE state' = MarkNodesDirty(state)
  BY Zenon, <1>1, <1>5, MarkNodesFacts
<1>6. ASSUME NEW s \in Service, NEW when \in {"due", "fresh"},
             state' = MarkServiceDirty(state, s, when, clock)
      PROVE  SameResync(state, state') \/ Requested(state, state', clock)
  BY Zenon, <1>1, <1>6, MarkServiceFacts
<1>7. CASE state' = AdvanceKeys(state)
  BY Zenon, <1>1, <1>7, AdvanceFacts
<1>8. CASE state' = RequestResync(AdvanceKeys(state), clock)
  <2> DEFINE a == AdvanceKeys(state)
  <2>1. a \in State /\ SameResync(state, a)
    BY Zenon, <1>1, AdvanceFacts
  <2> HIDE DEF a
  <2>2. Requested(a, state', clock)
    BY Zenon, <1>1, <1>8, <2>1, RequestFacts DEF a
  <2> QED BY Zenon, <2>1, <2>2 DEF SameResync, Requested
<1>9. CASE state' \in {SetNodesDirty(state, TRUE), SetNodesDirty(state, FALSE)}
  BY Zenon, <1>1, <1>9, SetNodesDirtyFacts
<1>10. CASE state' = BumpNodeGeneration(state)
  BY Zenon, <1>1, <1>10, BumpNodeFacts
<1>11. ASSUME NEW s \in Service, state' = BumpServiceGeneration(state, s, TRUE)
       PROVE  SameResync(state, state')
  BY Zenon, <1>1, <1>11, BumpFacts
<1>12. ASSUME NEW s \in Service, state' = ForgetGeneration(state, s)
       PROVE  SameResync(state, state')
  BY Zenon, <1>1, <1>12, ForgetFacts
<1>13. CASE FinishResync
  <2> DEFINE p == PruneServiceGenerations(state)
  <2>1. p \in State /\ SameResync(state, p)
    BY Zenon, <1>1, PruneFacts
  <2>2. state' = CompleteResync(p, target, pass_start) /\ target \in Nat /\ pass_start \in Nat
    BY Zenon, <1>13 DEF FinishResync, TypeOK
  <2>3. state.resync_completed < target /\ state.resync_completed \in Nat
    BY Zenon, <1>1, <1>13 DEF FinishResync, ControlInv, InPass, State
  <2> HIDE DEF p
  <2>4. /\ state'.resync_requested = p.resync_requested
        /\ state'.resync_completed = IF target > p.resync_completed
                                     THEN target ELSE p.resync_completed
        /\ state'.resync_outstanding_since =
             IF state'.resync_requested = state'.resync_completed THEN NoTime ELSE pass_start
    BY <2>1, <2>2, CompleteFacts
  <2> QED BY Zenon, <1>13, <2>1, <2>2, <2>3, <2>4 DEF SameResync
<1>14. CASE TakeKeys
  <2>1. state' = TakeDueKeys(state)
    BY Zenon, <1>14 DEF TakeKeys
  <2> QED BY Zenon, <1>1, <2>1, TakeFacts
<1>15. ASSUME NEW s \in Service, NEW attempts \in Nat,
              state' = RetryService(state, s, attempts, clock)
       PROVE  SameResync(state, state') \/ Requested(state, state', clock)
  BY Zenon, <1>1, <1>15, RetryFacts
<1> QED
  BY Zenon, StateStep, <1>2, <1>3, <1>4, <1>5, <1>6, <1>7, <1>8, <1>9, <1>10, <1>11, <1>12,
     <1>13, <1>14, <1>15 DEF StateSteps

-----------------------------------------------------------------------------
(* Control *)

PcSteps ==
    /\ pc' = "inspected" => inspected'.service \in Service
    /\ \/ ~InPass' /\ target' = 0
       \/ (InPass' => InPass) /\ target' = target /\ pass_start' = pass_start
       \/ /\ ~InPass /\ ResyncOutstanding(state) /\ state' = state
          /\ target' = state.resync_requested /\ pass_start' = clock
    /\ \/ clock' = clock
       \/ /\ clock' = clock + 1
          /\ state' = state /\ pc' = pc /\ target' = target /\ pass_start' = pass_start

\* How a step gets to an answered inspect and to a pass.
LEMMA PcStep ==
    ASSUME TypeOK, ControlInv, [Next]_vars
    PROVE  PcSteps
<1> USE DEF PcSteps, InPass
<1>1. CASE Next
  <2>1. ASSUME NEW s \in Service, NEW found \in ServiceSpec \cup {NoService}, ChangeService(s, found)
        PROVE  PcSteps
    BY Zenon, <2>1 DEF ChangeService, ControlInv, locals, env
  <2>2. ASSUME NEW n \in NodeSet, ChangeNodes(n)
        PROVE  PcSteps
    BY Zenon, <2>2 DEF ChangeNodes, ControlInv, locals, env
  <2>3. CASE Tick
    BY Zenon, <2>3 DEF Tick, ControlInv, locals, shared
  <2>4. CASE Cancel
    BY Zenon, <2>4 DEF Cancel, ControlInv, locals, env
  <2>5. ASSUME NEW s \in Service, ElapseKey(s)
        PROVE  PcSteps
    BY Zenon, <2>5 DEF ElapseKey, ControlInv, locals, env
  <2>6. ASSUME NEW t \in Timer, ElapseTimer(t)
        PROVE  PcSteps
    BY Zenon, <2>6 DEF ElapseTimer, ControlInv, locals, env
  <2>7. CASE Connect
    BY Zenon, <2>7 DEF Connect, ControlInv, locals, env
  <2>8. CASE LoseStream
    BY Zenon, <2>8 DEF LoseStream, ControlInv, locals, env
  <2>9. CASE DispatchEvent
    BY Zenon, <2>9 DEF DispatchEvent, ControlInv, locals, env
  <2>10. CASE Signal
    BY Zenon, <2>10 DEF Signal, ControlInv, locals, env
  <2>11. CASE StopListener
    BY Zenon, <2>11 DEF StopListener, ControlInv, locals, env
  <2>12. CASE BeginCycle
    BY Zenon, <2>12 DEF BeginCycle, locals, env
  <2>13. CASE StartNodes
    BY Zenon, <2>13 DEF StartNodes, locals, env
  <2>14. CASE AnswerNodes
    BY Zenon, <2>14 DEF AnswerNodes, env
  <2>15. CASE FailNodes
    BY Zenon, <2>15 DEF FailNodes, locals, env
  <2>16. CASE FinishNodes
    BY Zenon, <2>16 DEF FinishNodes, env
  <2>17. CASE StartResync
    BY Zenon, <2>17 DEF StartResync, ResyncDue, shared, env
  <2>18. CASE AnswerServices
    BY Zenon, <2>18 DEF AnswerServices, env
  <2>19. CASE AnswerResyncNodes
    BY Zenon, <2>19 DEF AnswerResyncNodes, env
  <2>20. CASE FailResync
    BY Zenon, <2>20 DEF FailResync, ForgetPass, env
  <2>21. CASE ResyncApplyNodes
    BY Zenon, <2>21 DEF ResyncApplyNodes, env
  <2>22. CASE FinishResync
    BY Zenon, <2>22 DEF FinishResync, ForgetPass, env
  <2>23. ASSUME NEW s \in Service, ResyncApplyService(s)
        PROVE  PcSteps
    BY Zenon, <2>23 DEF ResyncApplyService, env
  <2>24. ASSUME NEW s \in Service, ResyncPanics(s)
        PROVE  PcSteps
    BY Zenon, <2>24 DEF ResyncPanics, ForgetPass, env
  <2>25. ASSUME NEW s \in Service, ResyncRemoveService(s)
        PROVE  PcSteps
    BY Zenon, <2>25 DEF ResyncRemoveService, locals, env
  <2>26. CASE TakeKeys
    BY Zenon, <2>26 DEF TakeKeys, env
  <2>27. CASE FinishKeys
    BY Zenon, <2>27 DEF FinishKeys, env
  <2>28. CASE FinishInspect
    BY Zenon, <2>28 DEF FinishInspect, env
  <2>29. CASE AbandonCall
    BY Zenon, <2>29 DEF AbandonCall, ForgetPass, locals, env
  <2>30. ASSUME NEW s \in Service, AnswerInspect(s)
        PROVE  PcSteps
    BY <2>30 DEF AnswerInspect, env
  <2>31. ASSUME NEW s \in Service, FailInspect(s)
        PROVE  PcSteps
    BY Zenon, <2>31 DEF FailInspect, env
  <2>32. CASE Wait
    BY Zenon, <2>32 DEF Wait, locals, env
  <2>33. CASE TakePermit
    BY Zenon, <2>33 DEF TakePermit, locals, env
  <2>34. CASE TimerFires
    BY Zenon, <2>34 DEF TimerFires, locals, env
  <2>35. CASE Stop
    BY Zenon, <2>35 DEF Stop, locals, env
  <2>36. CASE Rest
    BY Zenon, <2>36 DEF Rest, ControlInv, locals, env, vars
  <2> QED
    BY Zenon, <1>1, <2>1, <2>2, <2>3, <2>4, <2>5, <2>6, <2>7, <2>8, <2>9, <2>10, <2>11, <2>12,
       <2>13, <2>14, <2>15, <2>16, <2>17, <2>18, <2>19, <2>20, <2>21, <2>22, <2>23, <2>24,
       <2>25, <2>26, <2>27, <2>28, <2>29, <2>30, <2>31, <2>32, <2>33, <2>34, <2>35, <2>36
    DEF Next, Daemon, Elapse, Listener, Step
<1>2. CASE UNCHANGED vars
  BY Zenon, <1>2 DEF vars, locals, env, ControlInv
<1> QED
  BY Zenon, <1>1, <1>2

\* Every step keeps the control invariant.
LEMMA ControlStep ==
    ASSUME TypeOK, ControlInv, [Next]_vars
    PROVE  ControlInv'
<1>1. state \in State /\ target \in Nat
  BY Zenon DEF TypeOK
<1>2. /\ state.resync_requested \in Nat /\ state.resync_completed \in Nat
  BY Zenon, <1>1 DEF State
<1>3. pc' = "inspected" => inspected'.service \in Service
  BY Zenon, PcStep DEF PcSteps
<1>4. state'.resync_completed <= state'.resync_requested
  <2>1. CASE SameResync(state, state') \/ Requested(state, state', clock)
    BY <1>2, <2>1 DEF ControlInv, SameResync, Requested
  <2>2. CASE FinishResync /\ state'.resync_requested = state.resync_requested
               /\ state'.resync_completed = target
    BY Zenon, <1>2, <2>2 DEF ControlInv, FinishResync, InPass
  <2> QED BY Zenon, ResyncStep, <2>1, <2>2
<1>5. ASSUME InPass'
      PROVE  state'.resync_completed < target' /\ target' <= state'.resync_requested
  <2>1. ~FinishResync
    BY Zenon, <1>5 DEF FinishResync, InPass
  <2>2. SameResync(state, state') \/ Requested(state, state', clock)
    BY Zenon, <2>1, ResyncStep
  <2>3. CASE InPass /\ target' = target
    BY <1>1, <1>2, <2>2, <2>3 DEF ControlInv, SameResync, Requested
  <2>4. CASE ResyncOutstanding(state) /\ target' = state.resync_requested /\ state' = state
    BY <1>2, <2>4 DEF ResyncOutstanding
  <2> QED BY Zenon, <1>5, <2>3, <2>4, PcStep DEF PcSteps
<1> QED
  BY Zenon, <1>3, <1>4, <1>5 DEF ControlInv

-----------------------------------------------------------------------------
(* Theorems about the state and the queue *)

\* The inductive invariant behind the theorems of this section.
StateInv == TypeOK /\ ControlInv /\ QueueShape(state)

\* The queue starts empty, so the invariant on the shared state holds initially.
LEMMA StateInvInit ==
    Init => StateInv
<1> SUFFICES ASSUME Init PROVE StateInv
  BY Zenon
<1>1. TypeOK
  BY Zenon, TypeInit
<1>2. state = InitialState(1) /\ pc = "top"
  BY Zenon DEF Init
<1>3. state.resync_completed <= state.resync_requested
  BY <1>2 DEF InitialState
<1>4. ControlInv
  BY Zenon, <1>2, <1>3 DEF ControlInv, InPass
<1>5. QueueShape(state)
  BY Zenon, <1>2, InitialFacts, EmptyShape
<1> QED
  BY Zenon, <1>1, <1>4, <1>5 DEF StateInv

\* Every step of the reconciler, the listener and the daemon preserves it.
LEMMA StateInvStep ==
    StateInv /\ [Next]_vars => StateInv'
  BY Zenon, TypeStep, ControlStep, QueueStep DEF StateInv

\* Hence it holds in every reachable state.
LEMMA StateInvHolds ==
    Spec => []StateInv
  BY StateInvInit, StateInvStep, PTL DEF Spec

\* Every variable keeps its type: the reconciler, the listener and the daemon
\* never leave the state space the model describes.
THEOREM TypeCorrect ==
    Spec => []TypeOK
<1>1. StateInv => TypeOK
  BY Zenon DEF StateInv
<1> QED
  BY <1>1, StateInvHolds, PTL

\* No key gets ahead of one that was queued before it.
THEOREM QueueFair ==
    Spec => QueueIsFifo
<1>1. StateInv /\ [Next]_vars =>
        [\A s \in Pending(state) : s \in Pending(state') =>
           state'.pending_order[s] \subseteq state.pending_order[s]]_vars
  BY Zenon, QueueStep DEF StateInv, QueueMoves
<1> QED
  BY <1>1, StateInvHolds, PTL DEF Spec, QueueIsFifo

-----------------------------------------------------------------------------
(* Since when a resync is outstanding *)

SinceInv ==
    /\ StateInv
    /\ OutstandingSinceIsSet
    /\ InPass => 0 < pass_start /\ pass_start <= clock

\* A new reconciler has one outstanding resync, requested at its start.
LEMMA SinceInvInit ==
    Init => SinceInv
<1> SUFFICES ASSUME Init PROVE SinceInv
  BY Zenon
<1>1. StateInv
  BY Zenon, StateInvInit
<1>2. /\ state.resync_requested = 1 /\ state.resync_completed = 0
      /\ state.resync_outstanding_since = 1 /\ clock = 1 /\ pc = "top"
      /\ target = 0
  BY Zenon DEF Init, InitialState
<1>3. OutstandingSinceIsSet
  BY <1>2 DEF OutstandingSinceIsSet, ResyncOutstanding, NoTime
<1>4. ~InPass
  BY Zenon, <1>2 DEF InPass
<1> QED
  BY Zenon, <1>1, <1>3, <1>4 DEF SinceInv

\* resync_outstanding_since is touched by requests and by the end of a pass, and
\* both leave a time in the past while one is outstanding.
LEMMA SinceInvStep ==
    SinceInv /\ [Next]_vars => SinceInv'
<1> SUFFICES ASSUME SinceInv, [Next]_vars
             PROVE  SinceInv'
  BY Zenon
<1>1. TypeOK /\ ControlInv /\ StateInv'
  BY Zenon, StateInvStep DEF SinceInv, StateInv
<1>2. /\ state.resync_requested \in Nat /\ state.resync_completed \in Nat
      /\ state.resync_outstanding_since \in Nat /\ target \in Nat /\ pass_start \in Nat
      /\ clock \in Nat /\ clock > 0
  BY <1>1 DEF TypeOK, State
<1>3. PcSteps
  BY Zenon, <1>1, PcStep
<1>4. clock' \in Nat /\ clock' >= clock
  BY <1>2, <1>3 DEF PcSteps
<1>5. InPass' => 0 < pass_start' /\ pass_start' <= clock'
  BY <1>2, <1>3, <1>4 DEF PcSteps, SinceInv
<1>6. target' <= state'.resync_requested
  BY <1>1, <1>2, <1>3, ResyncStep
     DEF PcSteps, SinceInv, OutstandingSinceIsSet, SameResync, Requested
<1>7. state'.resync_completed <= state'.resync_requested
  BY Zenon, <1>1 DEF StateInv, ControlInv
<1>8. /\ state'.resync_outstanding_since # NoTime <=> ResyncOutstanding(state')
      /\ state'.resync_outstanding_since <= clock'
  <2>1. CASE SameResync(state, state')
    BY <1>2, <1>4, <2>1 DEF SinceInv, OutstandingSinceIsSet, SameResync, ResyncOutstanding
  <2>2. CASE Requested(state, state', clock)
    BY <1>2, <1>4, <2>2
    DEF SinceInv, OutstandingSinceIsSet, Requested, ResyncOutstanding, NoTime
  <2>3. CASE /\ FinishResync
             /\ state'.resync_requested = state.resync_requested
             /\ state'.resync_completed = target
             /\ state'.resync_outstanding_since =
                  IF state.resync_requested = target THEN NoTime ELSE pass_start
    <3>1. InPass
      BY Zenon, <2>3 DEF FinishResync, InPass
    <3> QED
      BY <1>2, <1>4, <2>3, <3>1
      DEF SinceInv, OutstandingSinceIsSet, ResyncOutstanding, NoTime
  <2> QED BY Zenon, <1>1, <2>1, <2>2, <2>3, ResyncStep
<1> QED
  BY Zenon, <1>1, <1>5, <1>6, <1>7, <1>8 DEF SinceInv, OutstandingSinceIsSet

\* The resync counters and the outstanding-since time agree in every reachable state.
LEMMA SinceInvHolds ==
    Spec => []SinceInv
  BY SinceInvInit, SinceInvStep, PTL DEF Spec

\* What the health check reads as the age of the outstanding resync is set
\* exactly while one is outstanding, and lies in the past.
THEOREM SinceCorrect ==
    Spec => []OutstandingSinceIsSet
<1>1. SinceInv => OutstandingSinceIsSet
  BY Zenon DEF SinceInv
<1> QED
  BY <1>1, SinceInvHolds, PTL

\* It moves only when a resync completes: neither failures nor further requests
\* make an outstanding resync look younger.
THEOREM SinceMoves ==
    Spec => OutstandingSinceOnlyMovesOnCompletion
<1>1. ASSUME SinceInv, [Next]_vars, state.resync_outstanding_since # NoTime,
             state'.resync_outstanding_since # state.resync_outstanding_since
      PROVE  state'.resync_completed > state.resync_completed
  <2>1. TypeOK /\ ControlInv /\ ResyncOutstanding(state)
    BY Zenon, <1>1 DEF SinceInv, StateInv, OutstandingSinceIsSet
  <2>2. state.resync_requested \in Nat /\ state.resync_completed \in Nat
    BY Zenon, <2>1 DEF TypeOK, State
  <2>3. ~SameResync(state, state') /\ ~Requested(state, state', clock)
    BY <1>1, <2>1, <2>2 DEF SameResync, Requested, ResyncOutstanding
  <2>4. FinishResync /\ state'.resync_completed = target
    BY Zenon, <1>1, <2>1, <2>3, ResyncStep
  <2> QED
    BY Zenon, <2>1, <2>2, <2>4 DEF FinishResync, ControlInv, InPass, TypeOK
<1>2. SinceInv /\ [Next]_vars =>
        [state.resync_outstanding_since # NoTime
           /\ state'.resync_outstanding_since # state.resync_outstanding_since
         => state'.resync_completed > state.resync_completed]_vars
  BY Zenon, <1>1
<1> QED
  BY <1>2, SinceInvHolds, PTL DEF Spec, OutstandingSinceOnlyMovesOnCompletion

-----------------------------------------------------------------------------
(* Resync is implemented *)

\* A reconciler starts with the counters of a new Resync.
LEMMA ResyncsInit ==
    Init => Resyncs!RInit
<1> SUFFICES ASSUME Init PROVE Resyncs!RInit
  BY Zenon
<1>1. /\ state.resync_requested = 1 /\ state.resync_completed = 0
      /\ state.resync_outstanding_since = 1 /\ clock = 1 /\ pc = "top"
  BY Zenon DEF Init, InitialState
<1> QED
  BY Zenon, <1>1 DEF Resyncs!RInit, InPass

\* Every step of the reconciler, the listener and the daemon is a step of Resync
\* on the counters, or leaves them alone.
LEMMA ResyncsStep ==
    SinceInv /\ [Next]_vars => [Resyncs!RNext]_(Resyncs!rvars)
<1> SUFFICES ASSUME SinceInv, [Next]_vars
             PROVE  Resyncs!RNext \/ UNCHANGED Resyncs!rvars
  BY Zenon
<1>1. TypeOK /\ ControlInv
  BY Zenon DEF SinceInv, StateInv
<1>2. /\ state.resync_requested \in Nat /\ state.resync_completed \in Nat
      /\ target \in Nat /\ pass_start \in Nat /\ clock \in Nat
      /\ InPass => state.resync_completed < target
  BY Zenon, <1>1 DEF TypeOK, State, ControlInv
<1>3. PcSteps
  BY Zenon, <1>1, PcStep
<1>4. CASE clock' # clock
  BY Zenon, <1>2, <1>3, <1>4 DEF PcSteps, InPass, Resyncs!RNext, Resyncs!RTick
<1>5. CASE clock' = clock /\ SameResync(state, state')
  <2>1. CASE InPass' /\ ~InPass
    BY Zenon, <1>2, <1>3, <1>5, <2>1
    DEF PcSteps, SameResync, ResyncOutstanding, Resyncs!RNext, Resyncs!BeginPass
  <2>2. CASE InPass' /\ InPass
    BY Zenon, <1>3, <1>5, <2>2 DEF PcSteps, SameResync, Resyncs!rvars
  <2>3. CASE ~InPass' /\ InPass
    BY <1>2, <1>5, <2>3 DEF SameResync, Resyncs!RNext, Resyncs!AbandonPass
  <2>4. CASE ~InPass' /\ ~InPass
    BY Zenon, <1>5, <2>4 DEF SameResync, Resyncs!rvars
  <2> QED BY Zenon, <2>1, <2>2, <2>3, <2>4
<1>6. CASE clock' = clock /\ Requested(state, state', clock)
  <2>1. Resyncs!Requests
    BY Zenon, <1>6 DEF Requested, Resyncs!Requests
  <2>2. state' # state
    BY <1>2, <1>6 DEF Requested
  <2>3. CASE InPass
    <3>1. CASE InPass'
      BY Zenon, <1>3, <1>6, <2>1, <2>2, <2>3, <3>1 DEF PcSteps, Resyncs!RNext, Resyncs!Request
    <3>2. CASE ~InPass'
      BY <1>2, <1>6, <2>1, <2>3, <3>2 DEF Resyncs!RNext, Resyncs!AbandonPass
    <3> QED BY Zenon, <3>1, <3>2
  <2>4. CASE ~InPass
    BY Zenon, <1>3, <1>6, <2>1, <2>2, <2>4 DEF PcSteps, Resyncs!RNext, Resyncs!Request
  <2> QED BY Zenon, <2>3, <2>4
<1>7. CASE /\ clock' = clock
           /\ FinishResync
           /\ state'.resync_requested = state.resync_requested
           /\ state'.resync_completed = target
           /\ state'.resync_outstanding_since =
                IF state.resync_requested = target THEN NoTime ELSE pass_start
  <2>1. InPass /\ ~InPass'
    BY Zenon, <1>7 DEF FinishResync, InPass
  <2> QED
    BY <1>2, <1>7, <2>1 DEF NoTime, Resyncs!RNext, Resyncs!FinishPass
<1> QED
  BY Zenon, <1>1, <1>4, <1>5, <1>6, <1>7, ResyncStep

\* What the health check assumes of the counters is what the reconciler does, for
\* every set of services and every interleaving with the listener and the poller.
THEOREM ResyncImplemented ==
    Spec => ImplementsResync
  BY ResyncsInit, ResyncsStep, SinceInvHolds, PTL DEF Spec, ImplementsResync, Resyncs!RSpec

=============================================================================
