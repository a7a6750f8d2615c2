----------------------------- MODULE PollProofs ------------------------------
(***************************************************************************)
(* What the poll protocol publishes is right, for every set of services,   *)
(* specs and nodes and every bound: PublishedIsCurrent, CarriedIsBounded   *)
(* and AcceptedIsUpToDateUnlessResyncing of PollProtocol.                  *)
(*                                                                         *)
(* A verdict compares generations and never the metadata, so the argument  *)
(* is about what an equal generation is worth: SnapshotInv says that a     *)
(* service that is cached under the generation of the snapshot still has   *)
(* the spec of the snapshot, and its nodes as long as the node generation  *)
(* is the snapshot's too.  JudgeInv carries the verdict over the critical  *)
(* sections that mark services between the verdict and the publication.    *)
(***************************************************************************)
EXTENDS CacheProofs, PollProtocol

-----------------------------------------------------------------------------
(* Generations only move ahead *)

\* A generation stays, gets a number never used before, or is dropped from a
\* service that is not cached.
Ahead(a, b) ==
    /\ b.generation_counter >= a.generation_counter
    /\ b.node_generation >= a.node_generation
    /\ \A t \in Service :
         \/ b.service_generation[t].value = a.service_generation[t].value
         \/ /\ b.service_generation[t].value = b.generation_counter
            /\ b.generation_counter > a.generation_counter
         \/ b.service_generation[t].value = 0 /\ ~a.service_generation[t].cached

\* A critical section that leaves the generations alone.
LEMMA SameIsAhead ==
    ASSUME NEW a \in State, NEW b, SameGenerations(a, b), b.node_generation >= a.node_generation
    PROVE  Ahead(a, b)
  BY DEF SameGenerations, Ahead, State

\* overflow drops the generations of services that are not cached.
LEMMA OverflowAhead ==
    ASSUME NEW a \in State, NEW now \in Nat, NEW b, b = Overflow(a, now)
    PROVE  Ahead(a, b)
<1>1. /\ b.generation_counter = a.generation_counter
      /\ \A s \in Service : b.service_generation[s] =
           IF a.service_generation[s].cached THEN a.service_generation[s] ELSE NoGeneration
      /\ SameNodes(a, b)
  BY OverflowFacts
<1>2. a.generation_counter \in Nat /\ a.node_generation \in Nat
  BY Zenon DEF State
<1> QED
  BY <1>1, <1>2 DEF Ahead, SameNodes, NoGeneration

\* A bump gives the service a number never used before.
LEMMA BumpAhead ==
    ASSUME NEW a \in State, NEW s \in Service, NEW cached \in BOOLEAN,
           NEW b, b = BumpServiceGeneration(a, s, cached)
    PROVE  Ahead(a, b) /\ b.service_generation[s].value > a.generation_counter
<1>1. /\ b.generation_counter = a.generation_counter + 1
      /\ b.service_generation[s].value = a.generation_counter + 1
      /\ \A t \in Service \ {s} : b.service_generation[t] = a.service_generation[t]
      /\ SameNodes(a, b)
  BY BumpFacts
<1>2. a.generation_counter \in Nat /\ a.node_generation \in Nat
  BY Zenon DEF State
<1> QED
  BY <1>1, <1>2 DEF Ahead, SameNodes

\* mark_service_dirty bumps, and may overflow afterwards.
LEMMA MarkAhead ==
    ASSUME NEW a \in State, NEW s \in Service, NEW when \in {"due", "fresh"},
           NEW now \in Nat, NEW b, b = MarkServiceDirty(a, s, when, now)
    PROVE  Ahead(a, b)
<1> DEFINE cached == a.service_generation[s].cached
           bumped == BumpServiceGeneration(a, s, cached)
           key == MarkedKey(when)
           set == [a.pending_set EXCEPT ![s] = key]
<1>1. cached \in BOOLEAN /\ a.pending_set \in [Service -> PendingKey]
  BY Zenon DEF State, Generation
<1>2. key \in PendingKey
  BY Zenon DEF MarkedKey, PendingKey, When
<1>3. b = SetKeys(bumped, set) \/ b = Overflow(bumped, now) \/ b = Enqueue(bumped, s, key)
  BY Zenon DEF MarkServiceDirty
<1>4. set \in [Service -> PendingKey]
  BY Zenon, <1>1, <1>2
<1> HIDE DEF cached, key, set
<1>5. /\ bumped \in State /\ Ahead(a, bumped)
      /\ bumped.generation_counter > a.generation_counter
      /\ bumped.service_generation[s].cached = cached
      /\ \A t \in Service \ {s} : bumped.service_generation[t] = a.service_generation[t]
  <2>1. bumped \in State /\ bumped.generation_counter = a.generation_counter + 1
        /\ bumped.service_generation[s].cached = cached
        /\ \A t \in Service \ {s} : bumped.service_generation[t] = a.service_generation[t]
    BY <1>1, BumpFacts
  <2>2. Ahead(a, bumped)
    BY Zenon, <1>1, BumpAhead
  <2>3. a.generation_counter \in Nat
    BY Zenon DEF State
  <2> HIDE DEF bumped
  <2> QED BY <2>1, <2>2, <2>3
<1> HIDE DEF bumped
<1>6. CASE b = SetKeys(bumped, set) \/ b = Enqueue(bumped, s, key)
  <2>1. SameGenerations(bumped, b) /\ SameNodes(bumped, b)
    BY Zenon, <1>2, <1>4, <1>5, <1>6, SetKeysFacts, EnqueueFacts
  <2> QED BY <1>5, <2>1 DEF Ahead, SameGenerations, SameNodes
<1>7. CASE b = Overflow(bumped, now)
  <2>1. /\ b.generation_counter = bumped.generation_counter
        /\ \A t \in Service : b.service_generation[t] =
             IF bumped.service_generation[t].cached
             THEN bumped.service_generation[t] ELSE NoGeneration
        /\ SameNodes(bumped, b)
    BY <1>5, <1>7, OverflowFacts
  <2>2. ASSUME NEW t \in Service
        PROVE  bumped.service_generation[t].cached = a.service_generation[t].cached
    BY Zenon, <1>5 DEF cached
  <2> QED BY <1>5, <2>1, <2>2 DEF Ahead, SameNodes, NoGeneration
<1> QED
  BY Zenon, <1>3, <1>6, <1>7

\* retry_service bumps nothing.
LEMMA RetryAhead ==
    ASSUME NEW a \in State, NEW s \in Service, NEW attempts \in Nat,
           NEW now \in Nat, NEW b, b = RetryService(a, s, attempts, now)
    PROVE  Ahead(a, b)
<1> DEFINE key == [when |-> "later", attempts |-> attempts + 1]
<1>1. key \in PendingKey /\ a.node_generation \in Nat
  BY DEF PendingKey, When, State
<1>2. \/ b = a \/ b = RequestResync(a, now) \/ b = Overflow(a, now) \/ b = Enqueue(a, s, key)
  BY Zenon DEF RetryService
<1> HIDE DEF key
<1>3. CASE b = a
  BY <1>1, <1>3, SameIsAhead DEF SameGenerations
<1>4. CASE b = RequestResync(a, now) \/ b = Enqueue(a, s, key)
  <2>1. SameGenerations(a, b) /\ SameNodes(a, b)
    BY Zenon, <1>1, <1>4, RequestFacts, EnqueueFacts
  <2> QED BY <1>1, <2>1, SameIsAhead DEF SameNodes
<1> QED
  BY Zenon, <1>2, <1>3, <1>4, OverflowAhead

\* Every critical section that comes without a write to the caches.
LEMMA PlainAhead ==
    ASSUME TypeOK, PlainSteps
    PROVE  Ahead(state, state')
<1>1. /\ state \in State /\ clock \in Nat /\ state.node_generation \in Nat
      /\ target \in Nat /\ pass_start \in Nat
  BY Zenon DEF TypeOK, State
<1>2. ASSUME SameGenerations(state, state'), SameNodes(state, state')
      PROVE  Ahead(state, state')
  BY <1>1, <1>2, SameIsAhead DEF SameNodes
<1>3. CASE state' = state
  BY Zenon, <1>2, <1>3 DEF SameGenerations, SameNodes
<1>4. ASSUME NEW s \in Pending(state), state' = KeyElapses(state, s)
      PROVE  Ahead(state, state')
  <2>1. s \in Service
    BY Zenon DEF Pending
  <2> QED BY Zenon, <1>1, <1>2, <1>4, <2>1, KeyElapsesFacts
<1>5. CASE state' = RequestResync(state, clock)
  BY Zenon, <1>1, <1>2, <1>5, RequestFacts
<1>6. CASE state' = MarkNodesDirty(state)
  <2>1. SameGenerations(state, state')
    BY Zenon, <1>1, <1>6, MarkNodesFacts
  <2>2. state'.node_generation = state.node_generation + 1
    BY Zenon, <1>1, <1>6 DEF MarkNodesDirty, SetNodesDirty, BumpNodeGeneration, State
  <2> QED BY <1>1, <2>1, <2>2, SameIsAhead
<1>7. ASSUME NEW s \in Service, NEW when \in {"due", "fresh"},
             state' = MarkServiceDirty(state, s, when, clock)
      PROVE  Ahead(state, state')
  BY Zenon, <1>1, <1>7, MarkAhead
<1>8. CASE state' = AdvanceKeys(state)
  BY Zenon, <1>1, <1>2, <1>8, AdvanceFacts
<1>9. CASE state' = RequestResync(AdvanceKeys(state), clock)
  <2>1. AdvanceKeys(state) \in State /\ SameGenerations(state, AdvanceKeys(state))
        /\ SameNodes(state, AdvanceKeys(state))
    BY Zenon, <1>1, AdvanceFacts
  <2>2. SameGenerations(AdvanceKeys(state), state') /\ SameNodes(AdvanceKeys(state), state')
    BY Zenon, <1>1, <1>9, <2>1, RequestFacts
  <2> QED BY Zenon, <1>2, <2>1, <2>2 DEF SameGenerations, SameNodes
<1>10. ASSUME NEW flag \in BOOLEAN, state' = SetNodesDirty(state, flag)
       PROVE  Ahead(state, state')
  <2>1. SameGenerations(state, state')
    BY Zenon, <1>1, <1>10, SetNodesDirtyFacts
  <2>2. state'.node_generation = state.node_generation
    BY Zenon, <1>1, <1>10 DEF SetNodesDirty, State
  <2> QED BY <1>1, <2>1, <2>2, SameIsAhead
<1>11. CASE FinishResync
  <2> DEFINE pruned == PruneServiceGenerations(state)
  <2>1. state' = CompleteResync(pruned, target, pass_start)
    BY Zenon, <1>11 DEF FinishResync
  <2>2. /\ pruned \in State /\ SameNodes(state, pruned)
        /\ pruned.generation_counter = state.generation_counter
        /\ \A s \in Service : pruned.service_generation[s] =
             IF state.service_generation[s].cached \/ s \in Pending(state)
             THEN state.service_generation[s] ELSE NoGeneration
    BY Zenon, <1>1, PruneFacts
  <2> HIDE DEF pruned
  <2>3. SameNodes(pruned, state') /\ SameGenerations(pruned, state')
    BY Zenon, <1>1, <2>1, <2>2, CompleteFacts
  <2>4. state.generation_counter \in Nat
    BY Zenon, <1>1 DEF State
  <2> QED BY <1>1, <2>2, <2>3, <2>4 DEF Ahead, SameNodes, SameGenerations, NoGeneration
<1>12. CASE TakeKeys
  BY Zenon, <1>1, <1>2, <1>12, TakeFacts DEF TakeKeys
<1>13. ASSUME NEW s \in Service, NEW attempts \in Nat,
              state' = RetryService(state, s, attempts, clock)
       PROVE  Ahead(state, state')
  BY Zenon, <1>1, <1>13, RetryAhead
<1> QED
  BY Zenon, <1>3, <1>4, <1>5, <1>6, <1>7, <1>8, <1>9, <1>10, <1>11, <1>12, <1>13
     DEF PlainSteps

-----------------------------------------------------------------------------
(* What an equal generation is worth *)

\* A service that is cached after the step under a generation that existed before
\* it was cached under that generation, with that spec, and with those nodes
\* unless the node generation moved.
PairsKept ==
    /\ state'.generation_counter >= state.generation_counter
    /\ state'.node_generation >= state.node_generation
    /\ \A t \in Service :
         \/ state'.service_generation[t].value = state.service_generation[t].value
         \/ state'.service_generation[t].value <= state'.generation_counter
    /\ \A t \in Service :
         \/ ~Cached(t)'
         \/ state'.service_generation[t].value > state.generation_counter
         \/ /\ state'.service_generation[t].value = state.service_generation[t].value
            /\ Cached(t) /\ metadata'[t].spec = metadata[t].spec
            /\ \/ metadata'[t].nodes = metadata[t].nodes
               \/ state'.node_generation > state.node_generation

\* A critical section that leaves the caches alone keeps the pairs.
LEMMA PlainPairs ==
    ASSUME TypeOK, GenerationsMirrorCache, UNCHANGED metadata, Ahead(state, state'),
           state' \in State
    PROVE  PairsKept
<1>1. /\ state.generation_counter \in Nat /\ state'.generation_counter \in Nat
      /\ state.node_generation \in Nat /\ state'.node_generation \in Nat
      /\ \A t \in Service : state.service_generation[t].value \in Nat
                            /\ state'.service_generation[t].value \in Nat
  BY Zenon DEF TypeOK, State, Generation
<1>2. ASSUME NEW t \in Service
      PROVE  (Cached(t)' <=> Cached(t)) /\ (Cached(t) => state.service_generation[t].cached)
  BY Zenon, <1>2 DEF GenerationsMirrorCache, Cached
<1> QED
  BY <1>1, <1>2 DEF Ahead, PairsKept

\* Writing a service gives it a generation never used before, removing it
\* uncaches it, and writing nodes moves the node generation.
LEMMA PairsStep ==
    ASSUME TypeOK, TypeOK', GenerationsMirrorCache, CacheSteps
    PROVE  PairsKept
<1>1. /\ state \in State /\ state' \in State /\ metadata \in [Service -> Counts]
      /\ state.generation_counter \in Nat /\ state'.generation_counter \in Nat
      /\ state.node_generation \in Nat /\ state'.node_generation \in Nat
      /\ \A t \in Service : state.service_generation[t].value \in Nat
                            /\ state'.service_generation[t].value \in Nat
  BY Zenon DEF TypeOK, State, Generation
<1>2. CASE UNCHANGED caches /\ PlainSteps
  BY Zenon, <1>1, <1>2, PlainAhead, PlainPairs DEF caches
<1>3. ASSUME NEW s \in Service, NEW spec \in ServiceSpec, ApplyService(s, spec)
      PROVE  PairsKept
  <2>1. /\ metadata' = [metadata EXCEPT ![s] = [spec |-> spec, nodes |-> nodes]]
        /\ state' = BumpServiceGeneration(state, s, TRUE)
    BY Zenon, <1>3 DEF ApplyService
  <2>2. /\ state'.generation_counter = state.generation_counter + 1
        /\ state'.service_generation[s].value = state.generation_counter + 1
        /\ \A t \in Service \ {s} : state'.service_generation[t] = state.service_generation[t]
        /\ SameNodes(state, state')
    <3>1. ASSUME NEW flag \in BOOLEAN, state' = BumpServiceGeneration(state, s, flag)
          PROVE  /\ state'.generation_counter = state.generation_counter + 1
                 /\ state'.service_generation[s].value = state.generation_counter + 1
                 /\ \A t \in Service \ {s} :
                      state'.service_generation[t] = state.service_generation[t]
                 /\ SameNodes(state, state')
      BY <1>1, <3>1, BumpFacts
    <3> QED BY Zenon, <2>1, <3>1
  <2>3. \A t \in Service \ {s} : metadata'[t] = metadata[t]
    BY Zenon, <1>1, <2>1
  <2> QED BY <1>1, <2>2, <2>3 DEF PairsKept, SameNodes, Cached
<1>4. ASSUME NEW s \in Service, RemoveService(s)
      PROVE  PairsKept
  <2>1. /\ metadata' = [metadata EXCEPT ![s] = NoCounts]
        /\ state' = ForgetGeneration(state, s)
    BY Zenon, <1>4 DEF RemoveService
  <2>2. /\ \A t \in Service \ {s} : state'.service_generation[t] = state.service_generation[t]
        /\ SameNodes(state, state')
    BY <1>1, <2>1, ForgetValues, ForgetFacts
  <2>3. /\ \A t \in Service \ {s} : metadata'[t] = metadata[t]
        /\ ~Cached(s)'
    BY Zenon, <1>1, <2>1 DEF Cached, NoCounts
  <2>4. /\ state'.generation_counter = state.generation_counter
        /\ state'.service_generation[s].value \in {0, state.service_generation[s].value}
    <3> DEFINE value == IF s \in Pending(state) THEN state.service_generation[s].value ELSE 0
               gens == [state.service_generation EXCEPT ![s] = [value |-> value, cached |-> FALSE]]
    <3>1. state' = SetGenerations(state, gens)
      BY Zenon, <2>1 DEF ForgetGeneration
    <3>2. gens[s].value = value /\ value \in {0, state.service_generation[s].value}
      BY Zenon, <1>1 DEF State
    <3> HIDE DEF gens, value
    <3>3. state'.service_generation = gens
          /\ state'.generation_counter = state.generation_counter
      BY Zenon, <1>1, <3>1 DEF SetGenerations, State
    <3> QED BY Zenon, <3>2, <3>3
  <2> QED BY <1>1, <2>2, <2>3, <2>4 DEF PairsKept, SameNodes, Cached
<1>5. ASSUME NEW n \in NodeSet, ApplyNodes(n)
      PROVE  PairsKept
  <2>1. /\ \A t \in Service : metadata'[t] =
             IF Cached(t) THEN [metadata[t] EXCEPT !.nodes = n] ELSE NoCounts
        /\ state' = BumpNodeGeneration(state)
    BY Zenon, <1>5 DEF ApplyNodes
  <2>2. SameGenerations(state, state')
    BY Zenon, <1>1, <2>1, BumpNodeFacts
  <2>3. state'.node_generation = state.node_generation + 1
    BY Zenon, <1>1, <2>1 DEF BumpNodeGeneration, State
  <2>4. ASSUME NEW t \in Service, Cached(t)'
        PROVE  Cached(t) /\ metadata'[t].spec = metadata[t].spec
    <3>1. Cached(t)
      <4>1. ~Cached(t) => metadata'[t] = NoCounts
        BY Zenon, <2>1
      <4>2. metadata'[t].spec # NoService /\ NoCounts.spec = NoService
        BY Zenon, <2>4 DEF Cached, NoCounts
      <4> QED BY Zenon, <4>1, <4>2
    <3>2. metadata'[t] = [metadata[t] EXCEPT !.nodes = n] /\ metadata[t] \in Counts
      BY Zenon, <1>1, <2>1, <3>1
    <3> QED BY Zenon, <3>1, <3>2 DEF Counts
  <2> QED BY <1>1, <2>2, <2>3, <2>4 DEF PairsKept, SameGenerations
<1> QED
  BY Zenon, <1>2, <1>3, <1>4, <1>5 DEF CacheSteps

-----------------------------------------------------------------------------
(* The reconciler's invariants hold while it answers polls *)

\* What answering a poll does to the reconciler: nothing but the place in the
\* code, the armed timer and the faults spent, or a service is marked.
ServeFrame ==
    /\ UNCHANGED <<daemon, events, wake, caches, timer, locals, cancelled, clock>>
    /\ armed' \in {armed, {}}
    /\ spent' = spent \/ SpendFault
    /\ \/ state' = state /\ pc' = pc /\ armed' = armed
       \/ state' = state /\ pc \in {"top", "parked", "judge"} /\ pc' \in {"top", "judge"}
       \/ /\ pc = "judge" /\ pc' = "judge"
          /\ \E s \in Service : state' = MarkServiceDirty(state, s, "fresh", clock)

\* Every step of the poll protocol that is not the reconciler's own.
LEMMA ServeFrames ==
    ASSUME Serve \/ FailTaskList
    PROVE  ServeFrame
<1>1. CASE BuildPollSnapshot
  BY Zenon, <1>1 DEF BuildPollSnapshot, TakeRequest, ServeFrame, env
<1>2. CASE JudgePoll
  BY Zenon, <1>2 DEF JudgePoll, TakeRequest, ServeFrame, env
<1>3. CASE PublishPoll
  BY Zenon, <1>3 DEF PublishPoll, ServeFrame, env, shared
<1>4. CASE FailPublish
  BY Zenon, <1>4 DEF FailPublish, ServeFrame, shared
<1>5. CASE RefusePoll
  BY Zenon, <1>5 DEF RefusePoll, TakeRequest, ServeFrame, env
<1>6. ASSUME NEW s \in Service, MarkUncached(s)
      PROVE  ServeFrame
  BY Zenon, <1>6 DEF MarkUncached, ServeFrame, env
<1>7. CASE FailTaskList
  BY Zenon, <1>7 DEF FailTaskList, ServeFrame, shared
<1> QED
  BY Zenon, <1>1, <1>2, <1>3, <1>4, <1>5, <1>6, <1>7 DEF Serve

\* The critical section of MarkUncached, as far as the invariants see it.
LEMMA ServedState ==
    ASSUME TypeOK, ControlInv, QueueShape(state), ServeFrame
    PROVE  /\ state' \in State /\ QueueShape(state')
           /\ SameNodes(state, state') /\ SameCached(state, state')
           /\ state'.resync_completed = state.resync_completed
           /\ state'.resync_requested >= state.resync_requested
           /\ \/ ResyncOutstanding(state')
              \/ /\ Pending(state) \subseteq Pending(state')
                 /\ \A t \in Service : t \in Pending(state') \/
                      state'.service_generation[t] = state.service_generation[t]
           /\ Ahead(state, state')
<1>1. /\ state \in State /\ clock \in Nat
      /\ state.resync_completed \in Nat /\ state.resync_requested \in Nat
      /\ state.node_generation \in Nat
  BY Zenon DEF TypeOK, State
<1>2. CASE state' = state
  <2>1. Ahead(state, state')
    BY <1>1, <1>2, SameIsAhead DEF SameGenerations
  <2> QED BY <1>1, <1>2, <2>1 DEF SameNodes, SameCached
<1>3. ASSUME NEW s \in Service, state' = MarkServiceDirty(state, s, "fresh", clock)
      PROVE  /\ state' \in State /\ QueueShape(state')
             /\ SameNodes(state, state') /\ SameCached(state, state')
             /\ state'.resync_completed = state.resync_completed
             /\ state'.resync_requested >= state.resync_requested
             /\ \/ ResyncOutstanding(state')
                \/ /\ Pending(state) \subseteq Pending(state')
                   /\ \A t \in Service : t \in Pending(state') \/
                        state'.service_generation[t] = state.service_generation[t]
             /\ Ahead(state, state')
  <2>1. /\ state' \in State /\ SameNodes(state, state') /\ SameCached(state, state')
        /\ \/ SameResync(state, state') /\ Pending(state') = Pending(state) \cup {s}
           \/ Requested(state, state', clock) /\ Pending(state') = {}
    BY <1>1, <1>3, MarkServiceFacts
  <2>2. QueueShape(state')
    BY Zenon, <1>1, <1>3, MarkShape
  <2>3. Ahead(state, state')
    BY Zenon, <1>1, <1>3, MarkAhead
  <2>4. CASE SameResync(state, state') /\ Pending(state') = Pending(state) \cup {s}
    <3>1. \A t \in Service \ {s} : state'.service_generation[t] = state.service_generation[t]
      BY <1>1, <1>3, <2>4, MarkOthers
    <3> QED BY <1>1, <2>1, <2>2, <2>3, <2>4, <3>1 DEF SameResync
  <2>5. CASE Requested(state, state', clock)
    BY <1>1, <2>1, <2>2, <2>3, <2>5 DEF Requested, ResyncOutstanding, ControlInv
  <2> QED BY Zenon, <2>1, <2>4, <2>5
<1> QED
  BY Zenon, <1>2, <1>3 DEF ServeFrame

\* The reconciler's own invariants are kept while it answers a poll.
LEMMA ServeKeeps ==
    ASSUME GenerationInv, ServeFrame
    PROVE  GenerationInv'
<1>1. /\ TypeOK /\ ControlInv /\ QueueShape(state) /\ PassInv /\ AnswerInv /\ BatchInv
      /\ NoLostServiceChange /\ NoLostNodeChange /\ ReadyInv /\ GenerationsMirrorCache
  BY Zenon DEF GenerationInv, CoverInv, StateInv
<1>2. /\ state' \in State /\ QueueShape(state')
      /\ SameNodes(state, state') /\ SameCached(state, state')
      /\ state'.resync_completed = state.resync_completed
      /\ state'.resync_requested >= state.resync_requested
      /\ \/ ResyncOutstanding(state')
         \/ /\ Pending(state) \subseteq Pending(state')
            /\ \A t \in Service : t \in Pending(state') \/
                 state'.service_generation[t] = state.service_generation[t]
  BY Zenon, <1>1, ServedState
<1>3. /\ UNCHANGED <<world, swarm_nodes, in_flight, listener, reconnect, wake,
                     metadata, nodes, replica_series, update_series, timer, target,
                     pass_start, listed, listed_nodes, todo, taken, inspected,
                     cancelled, clock>>
      /\ armed' \in {armed, {}} /\ (spent' = spent \/ SpendFault)
  BY Zenon DEF ServeFrame, daemon, events, caches, locals
<1>4. \/ pc' = pc /\ state' = state
      \/ pc \in {"top", "parked", "judge"} /\ pc' \in {"top", "judge"}
  BY Zenon DEF ServeFrame
<1>5. TypeOK'
  <2>1. pc' \in PCs
    BY Zenon, <1>1, <1>4 DEF TypeOK, PCs
  <2>2. spent' \in Spent
    BY Zenon, <1>1, <1>3, SpentType DEF TypeOK, SpendFault
  <2>3. armed' \subseteq Service \cup Timer
    BY Zenon, <1>1, <1>3 DEF TypeOK
  <2> QED BY Zenon, <1>1, <1>2, <1>3, <2>1, <2>2, <2>3 DEF TypeOK
<1>6. ControlInv'
  <2>1. state.resync_completed \in Nat /\ state.resync_requested \in Nat
        /\ state'.resync_requested \in Nat
    BY Zenon, <1>1, <1>2 DEF TypeOK, State
  <2> QED BY <1>1, <1>2, <1>3, <1>4, <2>1 DEF ControlInv, InPass
<1>7. /\ ResyncOutstanding(state) => ResyncOutstanding(state')
      /\ state'.nodes_dirty = state.nodes_dirty
  <2>1. state.resync_completed \in Nat /\ state.resync_requested \in Nat
        /\ state'.resync_requested \in Nat
    BY Zenon, <1>1, <1>2 DEF TypeOK, State
  <2> QED BY <1>2, <2>1 DEF ResyncOutstanding, SameNodes
<1>8. \A x : InFlight(x) => InFlight(x)'
  BY Zenon, <1>3 DEF InFlight
<1>9. /\ Reconnecting' = Reconnecting /\ Taken' = Taken
      /\ \A s \in Service : Cached(s)' = Cached(s)
  BY Zenon, <1>3 DEF Reconnecting, Taken, Cached
<1>10. \A s \in Service : StillComing(s) => StillComing(s)' \/ ResyncOutstanding(state')
  BY Zenon, <1>2, <1>3, <1>8, <1>9 DEF StillComing
<1>11. NodesStillComing => NodesStillComing'
  BY Zenon, <1>3, <1>7, <1>8, <1>9 DEF NodesStillComing
<1>12. PassInv' /\ AnswerInv'
  <2>1. CASE pc' = pc /\ state' = state
    <3>1. \A s \in Service : StillComing(s) => StillComing(s)'
      BY Zenon, <1>3, <1>8, <1>9, <2>1 DEF StillComing
    <3>2. Stale' = Stale
      BY Zenon, <1>3, <2>1 DEF Stale
    <3>3. PassInv'
      BY Zenon, <1>1, <1>3, <1>11, <2>1, <3>1, <3>2 DEF PassInv
    <3>4. AnswerInv'
      <4>1. pc = "inspected" => inspected.service \in Service
        BY Zenon, <1>1 DEF ControlInv
      <4> QED BY Zenon, <1>1, <1>3, <1>11, <2>1, <3>1, <4>1 DEF AnswerInv
    <3> QED BY Zenon, <3>3, <3>4
  <2>2. CASE pc' \in {"top", "judge"}
    BY Zenon, <2>2 DEF PassInv, AnswerInv
  <2> QED BY Zenon, <1>4, <2>1, <2>2
<1>13. BatchInv'
  BY Zenon, <1>1, <1>3, <1>4, <1>9 DEF BatchInv
<1>14. NoLostServiceChange'
  <2> SUFFICES ASSUME NEW s \in Service, metadata'[s].spec # world'[s]
               PROVE  \/ StillComing(s)' \/ s \in Taken' \/ inspected'.service = s
                      \/ ResyncOutstanding(state')
    BY Zenon DEF NoLostServiceChange
  <2> QED BY Zenon, <1>1, <1>3, <1>7, <1>9, <1>10 DEF NoLostServiceChange
<1>15. NoLostNodeChange'
  <2>1. CASE pc \in {"list_nodes", "nodes_listed"}
    <3>1. pc' = pc
      BY Zenon, <1>4, <2>1
    <3> QED BY Zenon, <2>1, <3>1 DEF NoLostNodeChange
  <2>2. CASE pc \notin {"list_nodes", "nodes_listed"}
    BY Zenon, <1>1, <1>3, <1>7, <1>11, <2>2 DEF NoLostNodeChange
  <2> QED BY Zenon, <2>1, <2>2
<1>16. ReadyInv'
  BY Zenon, <1>1, <1>2, <1>3, <1>4, <1>9 DEF ReadyInv
<1>17. GenerationsMirrorCache'
  <2> SUFFICES ASSUME NEW s \in Service
               PROVE  /\ state'.service_generation[s].cached <=> Cached(s)'
                      /\ state'.service_generation[s].value > 0 => Reported(s)'
    BY Zenon DEF GenerationsMirrorCache, Reported
  <2>1. /\ state.service_generation[s].cached <=> Cached(s)
        /\ state.service_generation[s].value > 0 => Reported(s)
    BY Zenon, <1>1 DEF GenerationsMirrorCache, Reported
  <2>2. state'.service_generation[s].cached = state.service_generation[s].cached
    BY Zenon, <1>2 DEF SameCached
  <2>3. Reported(s) => Reported(s)'
    BY Zenon, <1>2, <1>3, <1>7, <1>9 DEF Reported
  <2> QED BY Zenon, <1>2, <1>9, <2>1, <2>2, <2>3 DEF Reported
<1> QED
  BY Zenon, <1>2, <1>5, <1>6, <1>12, <1>13, <1>14, <1>15, <1>16, <1>17
     DEF GenerationInv, CoverInv, StateInv

-----------------------------------------------------------------------------
(* The snapshot and the verdict *)

SnapshotInv ==
    /\ snapshot \in [services : [Service -> PollService], node_generation : Nat, epoch : Nat]
    /\ snapshot.node_generation <= state.node_generation
    /\ \A s \in Service :
         /\ snapshot.services[s].generation <= state.generation_counter
         /\ state.service_generation[s].value <= state.generation_counter
    /\ \A s \in Polled :
         Cached(s) /\ state.service_generation[s].value = snapshot.services[s].generation =>
           /\ metadata[s].spec = snapshot.services[s].spec
           /\ state.node_generation = snapshot.node_generation =>
                metadata[s].nodes = snapshot.services[s].nodes

\* What was accepted was counted against what is cached.
JudgeInv ==
    pc = "judge" =>
      /\ poller \in {"judged", "stopped"}
      /\ \A s \in accepted :
           /\ s \in Polled /\ metadata[s].spec = snapshot.services[s].spec
           /\ snapshot.services[s].spec \in Global =>
                metadata[s].nodes = snapshot.services[s].nodes

CarriedInv ==
    /\ last_published \in [Service -> Entry] /\ poll_rejections \in [Service -> Nat]
    /\ CarriedIsBounded

PollInv == GenerationInv /\ SnapshotInv /\ JudgeInv /\ CarriedInv

\* Whatever the poller and the reconciler do, the pairs of generation and
\* metadata are kept.
LEMMA PollPairs ==
    ASSUME GenerationInv, [PNext]_pvars
    PROVE  GenerationInv' /\ PairsKept
<1>1. TypeOK /\ ControlInv /\ QueueShape(state) /\ ReadyInv /\ GenerationsMirrorCache
  BY Zenon DEF GenerationInv, CoverInv, StateInv
<1>2. CASE [Next]_vars
  <2>1. GenerationInv'
    BY Zenon, <1>2, GenerationStep
  <2>2. CacheSteps
    BY Zenon, <1>1, <1>2, CacheStep
  <2>3. TypeOK'
    BY Zenon, <2>1 DEF GenerationInv, CoverInv, StateInv
  <2> QED BY Zenon, <1>1, <2>1, <2>2, <2>3, PairsStep
<1>3. CASE Serve \/ FailTaskList
  <2>1. ServeFrame
    BY Zenon, <1>3, ServeFrames
  <2>2. GenerationInv'
    BY Zenon, <2>1, ServeKeeps
  <2>3. Ahead(state, state') /\ state' \in State
    BY Zenon, <1>1, <2>1, ServedState
  <2>4. UNCHANGED metadata
    BY Zenon, <2>1 DEF ServeFrame, caches
  <2> QED BY Zenon, <1>1, <2>2, <2>3, <2>4, PlainPairs
<1>4. CASE StartPoll \/ ListTasks \/ StopPoller
  BY Zenon, <1>2, <1>4 DEF StartPoll, ListTasks, StopPoller
<1>5. CASE Reconcile \/ PRest
  BY Zenon, <1>2, <1>5 DEF Reconcile, PRest, Next
<1>6. CASE UNCHANGED pvars
  BY Zenon, <1>2, <1>6 DEF pvars
<1> QED
  BY Zenon, <1>3, <1>4, <1>5, <1>6 DEF PNext, Poller

\* The snapshot is replaced by the reconciler and the poller only.
LEMMA SnapshotMoves ==
    ASSUME [PNext]_pvars
    PROVE  snapshot' = snapshot \/ snapshot' = NoSnapshot \/ BuildPollSnapshot
<1>1. CASE Reconcile \/ PRest
  BY Zenon, <1>1 DEF Reconcile, PRest, pollVars
<1>2. CASE StartPoll \/ ListTasks \/ StopPoller
  BY Zenon, <1>2 DEF StartPoll, ListTasks, StopPoller
<1>3. CASE FailTaskList \/ PublishPoll \/ FailPublish \/ RefusePoll
  BY Zenon, <1>3 DEF FailTaskList, PublishPoll, FailPublish, RefusePoll, EndPoll
<1>4. CASE JudgePoll
  BY Zenon, <1>4 DEF JudgePoll
<1>5. ASSUME NEW s \in Service, MarkUncached(s)
      PROVE  snapshot' = snapshot
  BY Zenon, <1>5 DEF MarkUncached
<1>6. CASE UNCHANGED pvars
  BY Zenon, <1>6 DEF pvars, pollVars
<1> QED
  BY Zenon, <1>1, <1>2, <1>3, <1>4, <1>5, <1>6 DEF PNext, Poller, Serve

\* An equal generation keeps its worth.
LEMMA SnapshotStep ==
    ASSUME TypeOK, TypeOK', SnapshotInv, PairsKept, [PNext]_pvars
    PROVE  SnapshotInv'
<1>1. /\ state.generation_counter \in Nat /\ state'.generation_counter \in Nat
      /\ state.node_generation \in Nat /\ state'.node_generation \in Nat
      /\ \A t \in Service : state.service_generation[t].value \in Nat
                            /\ state'.service_generation[t].value \in Nat
      /\ metadata \in [Service -> Counts]
  BY Zenon DEF TypeOK, State, Generation
<1>2. \A s \in Service : state'.service_generation[s].value <= state'.generation_counter
  BY <1>1 DEF SnapshotInv, PairsKept
<1>3. CASE snapshot' = snapshot
  <2>1. /\ snapshot.node_generation \in Nat
        /\ \A s \in Service : snapshot.services[s].generation \in Nat
    BY Zenon DEF SnapshotInv, PollService
  <2>2. /\ snapshot.node_generation <= state'.node_generation
        /\ \A s \in Service : snapshot.services[s].generation <= state'.generation_counter
    BY <1>1, <2>1 DEF SnapshotInv, PairsKept
  <2>3. Polled' = Polled
    BY Zenon, <1>3 DEF Polled
  <2>4. ASSUME NEW s \in Polled, Cached(s)',
               state'.service_generation[s].value = snapshot.services[s].generation
        PROVE  /\ metadata'[s].spec = snapshot.services[s].spec
               /\ state'.node_generation = snapshot.node_generation =>
                    metadata'[s].nodes = snapshot.services[s].nodes
    <3>1. s \in Service
      BY Zenon DEF Polled
    <3>2. ~(state'.service_generation[s].value > state.generation_counter)
      BY <1>1, <2>1, <2>4, <3>1 DEF SnapshotInv
    <3>3. /\ state'.service_generation[s].value = state.service_generation[s].value
          /\ Cached(s) /\ metadata'[s].spec = metadata[s].spec
          /\ \/ metadata'[s].nodes = metadata[s].nodes
             \/ state'.node_generation > state.node_generation
      BY Zenon, <2>4, <3>1, <3>2 DEF PairsKept
    <3>4. /\ metadata[s].spec = snapshot.services[s].spec
          /\ state.node_generation = snapshot.node_generation =>
               metadata[s].nodes = snapshot.services[s].nodes
      BY Zenon, <2>4, <3>3 DEF SnapshotInv
    <3>5. state'.node_generation = snapshot.node_generation =>
            ~(state'.node_generation > state.node_generation)
            /\ state.node_generation = snapshot.node_generation
      <4>1. snapshot.node_generation <= state.node_generation
        BY Zenon DEF SnapshotInv
      <4>2. state'.node_generation >= state.node_generation
        BY Zenon DEF PairsKept
      <4> QED BY <1>1, <2>1, <4>1, <4>2
    <3> QED BY Zenon, <3>3, <3>4, <3>5
  <2>5. snapshot' \in [services : [Service -> PollService], node_generation : Nat, epoch : Nat]
    BY Zenon, <1>3 DEF SnapshotInv
  <2> QED BY Zenon, <1>2, <1>3, <2>2, <2>3, <2>4, <2>5 DEF SnapshotInv
<1>4. CASE snapshot' = NoSnapshot
  <2>1. NoPollService \in PollService /\ NoPollService.generation = 0
        /\ NoPollService.spec = NoService
    BY Zenon DEF NoPollService, PollService
  <2>2. /\ \A s \in Service : snapshot'.services[s] = NoPollService
        /\ snapshot'.node_generation = 0
        /\ snapshot' \in [services : [Service -> PollService], node_generation : Nat, epoch : Nat]
    BY Zenon, <1>4, <2>1 DEF NoSnapshot
  <2>3. Polled' = {}
    BY Zenon, <2>1, <2>2 DEF Polled
  <2>4. /\ snapshot'.node_generation <= state'.node_generation
        /\ \A s \in Service : snapshot'.services[s].generation <= state'.generation_counter
    BY <1>1, <2>1, <2>2
  <2> QED BY Zenon, <1>2, <2>2, <2>3, <2>4 DEF SnapshotInv
<1>5. CASE BuildPollSnapshot
  <2>1. state' = state /\ metadata' = metadata
    BY Zenon, <1>5 DEF BuildPollSnapshot, TakeRequest, caches
  <2>2. /\ \A s \in Service : snapshot'.services[s] =
             IF Cached(s)
             THEN [generation |-> state.service_generation[s].value,
                   spec |-> metadata[s].spec, nodes |-> metadata[s].nodes]
             ELSE NoPollService
        /\ snapshot'.node_generation = state.node_generation
    BY Zenon, <1>5 DEF BuildPollSnapshot
  <2>3. snapshot' \in [services : [Service -> PollService], node_generation : Nat, epoch : Nat]
    <3>1. \A s \in Service :
            (IF Cached(s)
             THEN [generation |-> state.service_generation[s].value,
                   spec |-> metadata[s].spec, nodes |-> metadata[s].nodes]
             ELSE NoPollService) \in PollService
      BY Zenon, <1>1 DEF Counts, PollService, NoPollService
    <3>2. state.epoch \in Nat
      BY Zenon DEF TypeOK, State
    <3> QED BY Zenon, <1>1, <1>5, <3>1, <3>2 DEF BuildPollSnapshot
  <2>4. ASSUME NEW s \in Service
        PROVE  /\ snapshot'.services[s].generation <= state'.generation_counter
               /\ s \in Polled' => /\ metadata'[s].spec = snapshot'.services[s].spec
                                   /\ metadata'[s].nodes = snapshot'.services[s].nodes
    <3>1. CASE Cached(s)
      <4>1. snapshot'.services[s] =
              [generation |-> state.service_generation[s].value,
               spec |-> metadata[s].spec, nodes |-> metadata[s].nodes]
        BY Zenon, <2>2, <3>1
      <4> QED BY <1>2, <2>1, <4>1
    <3>2. CASE ~Cached(s)
      <4>1. snapshot'.services[s] = NoPollService
        BY Zenon, <2>2, <3>2
      <4> QED BY <1>1, <4>1 DEF Polled, NoPollService
    <3> QED BY Zenon, <3>1, <3>2
  <2>5. Polled' \subseteq Service
    BY Zenon DEF Polled
  <2>6. snapshot'.node_generation <= state'.node_generation
    BY <1>1, <2>1, <2>2
  <2> QED BY Zenon, <1>2, <2>3, <2>4, <2>5, <2>6 DEF SnapshotInv
<1> QED
  BY Zenon, <1>3, <1>4, <1>5, SnapshotMoves

\* The task leaves "judge" by publishing or failing only, and the caches wait.
LEMMA JudgeFrame ==
    ASSUME [Next]_vars, pc' = "judge"
    PROVE  pc = "judge" /\ UNCHANGED metadata
<1> USE DEF caches
<1>1. ASSUME NEW s \in Service, NEW found, ChangeService(s, found)
      PROVE  pc = "judge" /\ UNCHANGED metadata
  BY Zenon, <1>1 DEF ChangeService
<1>2. ASSUME NEW n \in NodeSet, ChangeNodes(n)
      PROVE  pc = "judge" /\ UNCHANGED metadata
  BY Zenon, <1>2 DEF ChangeNodes
<1>3. CASE Tick \/ Cancel
  BY Zenon, <1>3 DEF Tick, Cancel
<1>4. ASSUME NEW s \in Service, ElapseKey(s)
      PROVE  pc = "judge" /\ UNCHANGED metadata
  BY Zenon, <1>4 DEF ElapseKey
<1>5. ASSUME NEW t \in Timer, ElapseTimer(t)
      PROVE  pc = "judge" /\ UNCHANGED metadata
  BY Zenon, <1>5 DEF ElapseTimer
<1>6. CASE Connect \/ LoseStream
  BY Zenon, <1>6 DEF Connect, LoseStream
<1>7. CASE DispatchEvent
  BY Zenon, <1>7 DEF DispatchEvent
<1>8. CASE Signal \/ StopListener
  BY Zenon, <1>8 DEF Signal, StopListener
<1>9. ~BeginCycle /\ ~StartNodes /\ ~AnswerNodes /\ ~FailNodes /\ ~FinishNodes
  BY Zenon DEF BeginCycle, StartNodes, AnswerNodes, FailNodes, FinishNodes
<1>10. ~StartResync /\ ~AnswerServices /\ ~AnswerResyncNodes /\ ~FailResync
       /\ ~ResyncApplyNodes /\ ~FinishResync
  BY Zenon DEF StartResync, AnswerServices, AnswerResyncNodes, FailResync, ResyncApplyNodes,
         FinishResync
<1>11. \A s \in Service : ~ResyncApplyService(s) /\ ~ResyncPanics(s) /\ ~ResyncRemoveService(s)
  BY Zenon DEF ResyncApplyService, ResyncPanics, ResyncRemoveService
<1>12. ~TakeKeys /\ ~FinishKeys /\ ~FinishInspect /\ ~AbandonCall
  BY Zenon DEF TakeKeys, FinishKeys, FinishInspect, AbandonCall
<1>13. \A s \in Service : ~AnswerInspect(s) /\ ~FailInspect(s)
  BY Zenon DEF AnswerInspect, FailInspect
<1>14. ~Wait /\ ~TakePermit /\ ~TimerFires /\ ~Stop
  BY Zenon DEF Wait, TakePermit, TimerFires, Stop
<1>15. CASE Rest \/ UNCHANGED vars
  BY Zenon, <1>15 DEF Rest, vars
<1> QED
  BY Zenon, <1>1, <1>2, <1>3, <1>4, <1>5, <1>6, <1>7, <1>8, <1>9, <1>10, <1>11, <1>12,
     <1>13, <1>14, <1>15 DEF Next, Daemon, Elapse, Listener, Step

\* The verdict stays right until it is published.
LEMMA JudgeStep ==
    ASSUME SnapshotInv, JudgeInv, [PNext]_pvars
    PROVE  JudgeInv'
<1> SUFFICES ASSUME pc' = "judge"
             PROVE  /\ poller' \in {"judged", "stopped"}
                    /\ \A s \in accepted' :
                         /\ s \in Polled' /\ metadata'[s].spec = snapshot'.services[s].spec
                         /\ snapshot'.services[s].spec \in Global =>
                              metadata'[s].nodes = snapshot'.services[s].nodes
  BY Zenon DEF JudgeInv
<1>1. ASSUME pc = "judge", UNCHANGED <<metadata, snapshot, accepted>>,
             poller' \in {"judged", "stopped"}
      PROVE  JudgeInv'
  <2>1. Polled' = Polled
    BY Zenon, <1>1 DEF Polled
  <2> QED BY Zenon, <1>1, <2>1 DEF JudgeInv
<1>2. CASE Reconcile \/ PRest
  <2>1. [Next]_vars /\ UNCHANGED pollVars
    BY Zenon, <1>2 DEF Reconcile, PRest, Next
  <2>2. pc = "judge" /\ UNCHANGED metadata
    BY Zenon, <2>1, JudgeFrame
  <2> QED BY Zenon, <1>1, <2>1, <2>2 DEF pollVars, JudgeInv
<1>3. CASE UNCHANGED pvars
  <2>1. UNCHANGED <<pc, metadata, snapshot, accepted, poller>>
    BY Zenon, <1>3 DEF pvars, pollVars, vars, caches
  <2> QED BY Zenon, <1>1, <2>1 DEF JudgeInv
<1>4. ~StartPoll /\ ~ListTasks /\ ~FailTaskList
  <2>1. UNCHANGED vars => pc' = pc
    BY Zenon DEF vars
  <2> QED BY Zenon, <2>1 DEF StartPoll, ListTasks, FailTaskList, JudgeInv
<1>5. CASE StopPoller
  <2>1. UNCHANGED <<pc, metadata>>
    BY Zenon, <1>5 DEF StopPoller, vars, caches
  <2>2. poller = "judged"
    BY Zenon, <1>5, <2>1 DEF StopPoller, JudgeInv
  <2> QED BY Zenon, <1>1, <1>5, <2>1, <2>2 DEF StopPoller, JudgeInv
<1>6. ~BuildPollSnapshot /\ ~PublishPoll /\ ~FailPublish /\ ~RefusePoll
  BY Zenon DEF BuildPollSnapshot, PublishPoll, FailPublish, RefusePoll
<1>7. ASSUME NEW s \in Service, MarkUncached(s)
      PROVE  JudgeInv'
  BY Zenon, <1>1, <1>7 DEF MarkUncached, caches, JudgeInv
<1>8. CASE JudgePoll
  <2>1. /\ UNCHANGED <<metadata, snapshot>> /\ poller' = "judged"
        /\ accepted' = {s \in Polled : Cached(s) /\ Accepts(s)}
    BY Zenon, <1>8 DEF JudgePoll, TakeRequest, caches
  <2>2. Polled' = Polled
    BY Zenon, <2>1 DEF Polled
  <2>3. ASSUME NEW s \in accepted'
        PROVE  /\ s \in Polled /\ metadata[s].spec = snapshot.services[s].spec
               /\ snapshot.services[s].spec \in Global =>
                    metadata[s].nodes = snapshot.services[s].nodes
    <3>1. s \in Polled /\ Cached(s) /\ Accepts(s)
      BY Zenon, <2>1
    <3> QED BY Zenon, <3>1 DEF SnapshotInv, Accepts
  <2> QED BY Zenon, <2>1, <2>2, <2>3
<1> QED
  BY Zenon, <1>2, <1>3, <1>4, <1>5, <1>6, <1>7, <1>8 DEF PNext, Poller, Serve, JudgeInv

-----------------------------------------------------------------------------
(* What is published *)

\* Only the end of a poll writes what is published.
LEMMA PublishedMoves ==
    ASSUME [PNext]_pvars
    PROVE  PublishPoll \/ UNCHANGED <<last_published, poll_rejections>>
<1>1. CASE Reconcile \/ PRest
  BY Zenon, <1>1 DEF Reconcile, PRest, pollVars
<1>2. CASE StartPoll \/ ListTasks \/ StopPoller \/ FailTaskList
  BY Zenon, <1>2 DEF StartPoll, ListTasks, StopPoller, FailTaskList
<1>3. CASE BuildPollSnapshot \/ JudgePoll \/ FailPublish \/ RefusePoll
  BY Zenon, <1>3 DEF BuildPollSnapshot, JudgePoll, FailPublish, RefusePoll
<1>4. ASSUME NEW s \in Service, MarkUncached(s)
      PROVE  UNCHANGED <<last_published, poll_rejections>>
  BY Zenon, <1>4 DEF MarkUncached
<1>5. CASE UNCHANGED pvars
  BY Zenon, <1>5 DEF pvars, pollVars
<1> QED
  BY Zenon, <1>1, <1>2, <1>3, <1>4, <1>5 DEF PNext, Poller, Serve

\* The three cases of an entry.
LEMMA PublishedCases ==
    ASSUME SnapshotInv, JudgeInv, CarriedInv, PublishPoll, NEW s \in Service
    PROVE  \/ /\ s \in accepted /\ s \in Polled
              /\ last_published'[s] = [spec |-> snapshot.services[s].spec,
                                       nodes |-> snapshot.services[s].nodes, age |-> 0]
              /\ poll_rejections'[s] = 0
           \/ /\ s \in Rejected \ Omitted /\ SameIdentity(s)
              /\ last_published'[s].spec = last_published[s].spec
              /\ last_published'[s].nodes = last_published[s].nodes
              /\ last_published'[s].age = last_published[s].age + 1
              /\ last_published'[s] \in Entry
              /\ poll_rejections'[s] = Rejections(s)
           \/ last_published'[s] = NoEntry
<1>1. /\ last_published'[s] = Published(s)
      /\ poll_rejections'[s] = IF s \in Rejected THEN Rejections(s) ELSE 0
      /\ pc = "judge"
  BY Zenon DEF PublishPoll
<1>2. CASE s \in accepted
  <2>1. s \in Polled
    BY Zenon, <1>1, <1>2 DEF JudgeInv
  <2>2. s \notin Rejected
    BY Zenon, <1>2 DEF Rejected
  <2> QED BY Zenon, <1>1, <1>2, <2>1, <2>2 DEF Published
<1>3. CASE s \notin accepted /\ s \in Rejected \ Omitted /\ SameIdentity(s)
  <2>1. last_published'[s] = [last_published[s] EXCEPT !.age = @ + 1]
    BY Zenon, <1>1, <1>3 DEF Published
  <2>2. poll_rejections'[s] = Rejections(s)
    BY Zenon, <1>1, <1>3
  <2>3. last_published[s] \in Entry
    BY Zenon DEF CarriedInv
  <2> QED BY <1>3, <2>1, <2>2, <2>3 DEF Entry
<1>4. CASE s \notin accepted /\ ~(s \in Rejected \ Omitted /\ SameIdentity(s))
  BY Zenon, <1>1, <1>4 DEF Published
<1> QED
  BY Zenon, <1>2, <1>3, <1>4

\* The rejection count of a carried entry is its age.
LEMMA CarriedStep ==
    ASSUME SnapshotInv, JudgeInv, CarriedInv, [PNext]_pvars
    PROVE  CarriedInv'
<1>1. CASE UNCHANGED <<last_published, poll_rejections>>
  BY Zenon, <1>1 DEF CarriedInv, CarriedIsBounded
<1>2. CASE PublishPoll
  <2>1. \A s \in Service : last_published[s] \in Entry /\ poll_rejections[s] \in Nat
    BY Zenon DEF CarriedInv
  <2>2. ASSUME NEW s \in Service
        PROVE  /\ last_published'[s] \in Entry
               /\ last_published'[s].spec # NoService =>
                    /\ last_published'[s].age <= MaxCarriedPolls
                    /\ poll_rejections'[s] = last_published'[s].age
    <3>1. CASE /\ last_published'[s] = [spec |-> snapshot.services[s].spec,
                                        nodes |-> snapshot.services[s].nodes, age |-> 0]
               /\ poll_rejections'[s] = 0
      <4>1. snapshot.services[s] \in PollService
        BY Zenon DEF SnapshotInv
      <4> QED BY <3>1, <4>1, CarriedAssumption DEF PollService, Entry
    <3>2. CASE /\ s \in Rejected \ Omitted /\ SameIdentity(s)
               /\ last_published'[s].age = last_published[s].age + 1
               /\ last_published'[s] \in Entry
               /\ poll_rejections'[s] = Rejections(s)
      <4>1. poll_rejections[s] = last_published[s].age /\ last_published[s].age \in Nat
        BY Zenon, <2>1, <3>2 DEF CarriedInv, CarriedIsBounded, SameIdentity, Entry
      <4>2. ~(Rejections(s) > MaxCarriedPolls)
        BY Zenon, <3>2 DEF Omitted
      <4> QED BY <3>2, <4>1, <4>2, CarriedAssumption DEF Rejections
    <3>3. CASE last_published'[s] = NoEntry
      BY <3>3 DEF NoEntry, Entry
    <3> QED BY Zenon, <1>2, <3>1, <3>2, <3>3, PublishedCases
  <2>3. last_published' \in [Service -> Entry]
    <3>1. last_published' = [s \in Service |-> Published(s)]
      BY Zenon, <1>2 DEF PublishPoll
    <3>2. \A s \in Service : Published(s) \in Entry
      BY Zenon, <2>2, <3>1
    <3> QED BY Zenon, <3>1, <3>2
  <2>4. poll_rejections' \in [Service -> Nat]
    BY <1>2, <2>1 DEF PublishPoll, Rejections
  <2> QED BY Zenon, <2>2, <2>3, <2>4 DEF CarriedInv, CarriedIsBounded
<1> QED
  BY Zenon, <1>1, <1>2, PublishedMoves

\* PollInv holds initially.
LEMMA PollInvInit ==
    PInit => PollInv
<1> SUFFICES ASSUME PInit PROVE PollInv
  BY Zenon
<1>1. Init
  BY Zenon DEF PInit
<1>2. GenerationInv
  BY Zenon, <1>1, GenerationInvInit
<1>3. NoPollService \in PollService /\ NoPollService.generation = 0
      /\ NoPollService.spec = NoService
  BY Zenon DEF NoPollService, PollService
<1>4. /\ \A s \in Service : snapshot.services[s] = NoPollService
      /\ snapshot.node_generation = 0
      /\ snapshot \in [services : [Service -> PollService], node_generation : Nat, epoch : Nat]
  BY Zenon, <1>3 DEF PInit, NoSnapshot
<1>5. Polled = {}
  BY Zenon, <1>3, <1>4 DEF Polled
<1>6. /\ state.generation_counter = 0 /\ state.node_generation = 0
      /\ \A s \in Service : state.service_generation[s].value = 0
  BY Zenon, <1>1 DEF Init, InitialState, NoGeneration
<1>7. SnapshotInv
  BY <1>3, <1>4, <1>5, <1>6 DEF SnapshotInv
<1>8. JudgeInv
  BY Zenon, <1>1 DEF Init, JudgeInv
<1>9. CarriedInv
  BY Zenon DEF PInit, CarriedInv, CarriedIsBounded, NoEntry, Entry
<1> QED
  BY Zenon, <1>2, <1>7, <1>8, <1>9 DEF PollInv

\* PollInv is inductive.
LEMMA PollInvStep ==
    PollInv /\ [PNext]_pvars => PollInv'
<1> SUFFICES ASSUME PollInv, [PNext]_pvars PROVE PollInv'
  BY Zenon
<1>1. GenerationInv /\ SnapshotInv /\ JudgeInv /\ CarriedInv
  BY Zenon DEF PollInv
<1>2. GenerationInv' /\ PairsKept
  BY Zenon, <1>1, PollPairs
<1>3. TypeOK /\ TypeOK'
  BY Zenon, <1>1, <1>2 DEF GenerationInv, CoverInv, StateInv
<1>4. SnapshotInv'
  BY Zenon, <1>1, <1>2, <1>3, SnapshotStep
<1>5. JudgeInv' /\ CarriedInv'
  BY Zenon, <1>1, JudgeStep, CarriedStep
<1> QED
  BY Zenon, <1>2, <1>4, <1>5 DEF PollInv

\* Hence it holds in every reachable state.
LEMMA PollInvHolds ==
    PSpec => []PollInv
  BY PollInvInit, PollInvStep, PTL DEF PSpec

-----------------------------------------------------------------------------
(* Theorems *)

\* For any number of services, specs and node lists, any queue bound and any
\* interleaving of events, inspects, resyncs, overflows and polls: what a poll
\* publishes has the label identity that is cached, and counts published as new
\* were computed from the cached spec and, for a global service, the cached nodes.
THEOREM PublishedCorrect ==
    PSpec => PublishedIsCurrent
<1> DEFINE Current(s) ==
      LET entry == last_published'[s] IN
      entry.spec # NoService =>
        /\ Cached(s) /\ LabelOf(s, entry.spec) = LabelOf(s, metadata[s].spec)
        /\ entry.age = 0 =>
             /\ metadata[s].spec = entry.spec
             /\ entry.spec \in Global => metadata[s].nodes = entry.nodes
<1>1. ASSUME PollInv, PublishPoll, NEW s \in Service
      PROVE  Current(s)
  <2>1. SnapshotInv /\ JudgeInv /\ CarriedInv /\ pc = "judge"
    BY Zenon, <1>1 DEF PollInv, PublishPoll
  <2>2. CASE /\ s \in accepted /\ s \in Polled
             /\ last_published'[s] = [spec |-> snapshot.services[s].spec,
                                      nodes |-> snapshot.services[s].nodes, age |-> 0]
    <3>1. /\ metadata[s].spec = snapshot.services[s].spec
          /\ snapshot.services[s].spec # NoService
          /\ snapshot.services[s].spec \in Global =>
               metadata[s].nodes = snapshot.services[s].nodes
      BY Zenon, <2>1, <2>2 DEF JudgeInv, Polled
    <3>2. /\ last_published'[s].spec = snapshot.services[s].spec
          /\ last_published'[s].nodes = snapshot.services[s].nodes
      BY <2>2
    <3> QED BY Zenon, <3>1, <3>2 DEF Cached
  <2>3. CASE /\ s \in Rejected \ Omitted /\ SameIdentity(s)
             /\ last_published'[s].spec = last_published[s].spec
             /\ last_published'[s].age = last_published[s].age + 1
    <3>1. last_published[s].age \in Nat
      BY Zenon, <2>1 DEF CarriedInv, Entry
    <3>2. last_published'[s].age # 0
      BY <2>3, <3>1
    <3>3. Cached(s)
      BY Zenon, <2>3 DEF Rejected
    <3> QED BY Zenon, <2>3, <3>2, <3>3 DEF SameIdentity
  <2>4. CASE last_published'[s] = NoEntry
    BY <2>4 DEF NoEntry
  <2> QED BY Zenon, <1>1, <2>1, <2>2, <2>3, <2>4, PublishedCases
<1>2. PollInv /\ [PNext]_pvars =>
        [PublishPoll => \A s \in Service : Current(s)]_pvars
  BY Zenon, <1>1
<1> QED
  BY <1>2, PollInvHolds, PTL DEF PSpec, PublishedIsCurrent

\* Numbers that a poll did not accept are shown for at most MAX_CARRIED_POLLS polls
\* in a row, whatever the limit is.
THEOREM CarriedCorrect ==
    PSpec => []CarriedIsBounded
<1>1. PollInv => CarriedIsBounded
  BY Zenon DEF PollInv, CarriedInv
<1> QED
  BY <1>1, PollInvHolds, PTL

\* Counts are accepted for a service whose cached metadata the daemon no longer has
\* only while the event of the change is on its way, the listener has lost its
\* stream, or a resync is outstanding.
THEOREM AcceptedCorrect ==
    PSpec => AcceptedIsUpToDateUnlessResyncing
<1>1. ASSUME PollInv, JudgePoll, NEW s \in accepted',
             metadata[s].spec # world[s], ~ResyncOutstanding(state)
      PROVE  Unannounced(s)
  <2>1. NoLostServiceChange /\ BatchInv
    BY Zenon, <1>1 DEF PollInv, GenerationInv, CoverInv
  <2>2. /\ s \in Polled /\ Accepts(s) /\ ~cancelled /\ pc \in {"top", "parked"}
    BY Zenon, <1>1 DEF JudgePoll, TakeRequest
  <2>3. s \in Service /\ s \notin Pending(state)
    BY Zenon, <2>2 DEF Polled, Accepts
  <2>4. s \notin Taken /\ inspected.service # s
    BY Zenon, <2>1, <2>2, <2>3, ConstantsAssumption DEF BatchInv
  <2> QED BY Zenon, <1>1, <2>1, <2>2, <2>3, <2>4
          DEF NoLostServiceChange, StillComing, Unannounced
<1>2. PollInv /\ [PNext]_pvars =>
        [JudgePoll => \A s \in accepted' :
           metadata[s].spec # world[s] /\ ~ResyncOutstanding(state) => Unannounced(s)]_pvars
  BY Zenon, <1>1
<1> QED
  BY <1>2, PollInvHolds, PTL DEF PSpec, AcceptedIsUpToDateUnlessResyncing

\* What the reconciler guarantees on its own it also guarantees while it answers
\* polls, which mark services themselves: no change of a service or of the nodes
\* is lost, and the flag of a generation is the cache's.
THEOREM NoChangeLostByPolls ==
    PSpec => [](NoLostServiceChange /\ NoLostNodeChange /\ GenerationsMirrorCache)
<1>1. PollInv => NoLostServiceChange /\ NoLostNodeChange /\ GenerationsMirrorCache
  BY Zenon DEF PollInv, GenerationInv, CoverInv
<1> QED
  BY <1>1, PollInvHolds, PTL

\* A step of the composition is the reconciler's own, or one of the poll protocol
\* that ServeFrame describes.
LEMMA PollSteps ==
    ASSUME [PNext]_pvars
    PROVE  [Next]_vars \/ ServeFrame
<1>1. CASE Reconcile \/ PRest
  BY Zenon, <1>1 DEF Reconcile, PRest, Next
<1>2. CASE Serve \/ FailTaskList
  BY Zenon, <1>2, ServeFrames
<1>3. CASE StartPoll \/ ListTasks \/ StopPoller \/ UNCHANGED pvars
  BY Zenon, <1>3 DEF StartPoll, ListTasks, StopPoller, pvars
<1> QED
  BY Zenon, <1>1, <1>2, <1>3 DEF PNext, Poller

\* A poll that succeeds leaves out no service that keeps its identity: what it did
\* not accept it carried over, since none had been carried over for too long.
THEOREM OmissionCorrect ==
    PSpec => NoSilentOmission
<1>1. ASSUME PollInv, PublishPoll, poller # "stopped", poll_result' = "ok",
             NEW s \in Polled, Cached(s), SameIdentity(s)
      PROVE  last_published'[s].spec # NoService
  <2>1. Omitted = {}
    <3>1. poll_result' = IF Omitted = {} THEN "ok" ELSE "partial"
      BY Zenon, <1>1 DEF PublishPoll, EndPoll
    <3> QED BY <1>1, <3>1
  <2>2. /\ s \in Service /\ last_published'[s] = Published(s)
        /\ snapshot.services[s].spec # NoService
    BY Zenon, <1>1 DEF PublishPoll, Polled
  <2>3. CASE s \in accepted
    <3>1. last_published'[s] = [spec |-> snapshot.services[s].spec,
                                nodes |-> snapshot.services[s].nodes, age |-> 0]
      BY Zenon, <2>2, <2>3 DEF Published
    <3>2. last_published'[s].spec = snapshot.services[s].spec
      BY ONLY <3>1, SMT
    <3> QED BY ONLY <2>2, <3>2, Zenon
  <2>4. CASE s \notin accepted
    <3>1. s \in Rejected \ Omitted
      BY Zenon, <1>1, <2>1, <2>4 DEF Rejected
    <3>2. last_published'[s] = [last_published[s] EXCEPT !.age = @ + 1]
      BY Zenon, <1>1, <2>2, <2>4, <3>1 DEF Published
    <3>3. last_published[s] \in Entry /\ last_published[s].spec # NoService
      BY Zenon, <1>1, <2>2 DEF PollInv, CarriedInv, SameIdentity
    <3> QED BY <3>2, <3>3 DEF Entry
  <2> QED BY Zenon, <2>3, <2>4
<1>2. PollInv /\ [PNext]_pvars =>
        [PublishPoll /\ poller # "stopped" /\ poll_result' = "ok" => \A s \in Polled :
           Cached(s) /\ SameIdentity(s) => last_published'[s].spec # NoService]_pvars
  BY Zenon, <1>1
<1> QED
  BY <1>2, PollInvHolds, PTL DEF PSpec, NoSilentOmission

\* A poll does not touch the series of the reconciler.
THEOREM SeriesByPolls ==
    ASSUME UniqueLabels
    PROVE  PSpec => []SeriesMirrorCache
<1>1. PInit => SeriesMirrorCache
  BY Zenon, SeriesInvInit DEF PInit, SeriesInv
<1>2. ASSUME PollInv, SeriesMirrorCache, [PNext]_pvars
      PROVE  SeriesMirrorCache'
  <2>1. SeriesInv
    BY Zenon, <1>2 DEF PollInv, GenerationInv, CoverInv, SeriesInv
  <2>2. CASE [Next]_vars
    BY Zenon, <2>1, <2>2, SeriesInvStep DEF SeriesInv
  <2>3. CASE ServeFrame
    <3>1. UNCHANGED <<metadata, nodes, replica_series, update_series>>
      BY Zenon, <2>3 DEF ServeFrame, caches
    <3> QED BY Zenon, <1>2, <3>1 DEF SeriesMirrorCache, Cached
  <2> QED BY Zenon, <1>2, <2>2, <2>3, PollSteps
<1>3. PollInv /\ SeriesMirrorCache /\ [PNext]_pvars => SeriesMirrorCache'
  BY Zenon, <1>2
<1> QED
  BY <1>1, <1>3, PollInvHolds, PTL DEF PSpec

=============================================================================
