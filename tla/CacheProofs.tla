----------------------------- MODULE CacheProofs -----------------------------
(***************************************************************************)
(* What the reconciler caches is right, for every set of services, specs   *)
(* and nodes and every bound.                                              *)
(*                                                                         *)
(* No change of the cluster is lost (NoLostServiceChange and               *)
(* NoLostNodeChange of Reconciler).  They are not inductive: an answer of  *)
(* the daemon is applied later than it was given, and the end of a resync  *)
(* pass turns "outstanding" off.  PassInv and AnswerInv say what an answer *)
(* under way is worth: it is what the daemon still has, or word of the     *)
(* difference is still to come, or another resync was requested since.     *)
(*                                                                         *)
(* What the reconciler publishes and what it tells the poller agree with   *)
(* its caches (SeriesMirrorCache and GenerationsMirrorCache).  Series are  *)
(* computed from the cached nodes, so the first needs ReadyInv: no service *)
(* is applied before a node list was.  The second needs which keys a batch *)
(* holds (BatchInv).                                                       *)
(***************************************************************************)
EXTENDS ReconcilerProofs

-----------------------------------------------------------------------------
(* The changes *)

Stale == state.resync_requested > target

PassInv ==
    /\ pc \in {"list_resync_nodes", "resync_nodes_listed", "resync_apply"} =>
         \A s \in Service : listed[s] \in {world[s], Malformed} \/ StillComing(s) \/ Stale
    /\ pc \in {"resync_nodes_listed", "resync_apply"} =>
         listed_nodes = swarm_nodes \/ NodesStillComing \/ Stale
    /\ pc = "resync_apply" =>
         /\ nodes = listed_nodes
         /\ \A s \in Service \ todo : listed[s] \in {metadata[s].spec, NoService}

AnswerInv ==
    /\ pc = "inspected" =>
         \/ inspected.found \in {world[inspected.service], Malformed}
         \/ StillComing(inspected.service)
         \/ ResyncOutstanding(state)
    /\ pc = "nodes_listed" =>
         listed_nodes = swarm_nodes \/ NodesStillComing \/ ResyncOutstanding(state)

\* Keys are taken, and an answer to an inspect held, in the batch only.
BatchInv ==
    /\ pc \notin {"inspect", "inspected"} => Taken = {}
    /\ pc # "inspected" => inspected.service = NodeEvent

CoverInv ==
    /\ StateInv /\ PassInv /\ AnswerInv /\ BatchInv
    /\ NoLostServiceChange /\ NoLostNodeChange

-----------------------------------------------------------------------------
(* Events in flight *)

\* An event that is sent is in flight, and so are those before it.
LEMMA InFlightSent ==
    ASSUME NEW e \in Event, in_flight \in Seq(Event), in_flight' = Append(in_flight, e)
    PROVE  InFlight(e)' /\ \A x : InFlight(x) => InFlight(x)'
<1>1. /\ Len(in_flight') = Len(in_flight) + 1 /\ in_flight'[Len(in_flight) + 1] = e
      /\ \A j \in 1 .. Len(in_flight) : in_flight'[j] = in_flight[j]
      /\ Len(in_flight) \in Nat
  OBVIOUS
<1> QED
  BY <1>1 DEF InFlight

\* Dispatching takes the oldest event only.
LEMMA InFlightDispatched ==
    ASSUME in_flight \in Seq(Event), in_flight # <<>>, in_flight' = Tail(in_flight)
    PROVE  \A x : InFlight(x) => x = Head(in_flight) \/ InFlight(x)'
<1>1. /\ Len(in_flight') = Len(in_flight) - 1 /\ Len(in_flight) \in Nat \ {0}
      /\ \A j \in 1 .. Len(in_flight) - 1 : in_flight'[j] = in_flight[j + 1]
      /\ Head(in_flight) = in_flight[1]
  OBVIOUS
<1> SUFFICES ASSUME NEW x, NEW j \in 1 .. Len(in_flight), in_flight[j] = x, x # Head(in_flight)
             PROVE  InFlight(x)'
  BY Zenon DEF InFlight
<1>2. j - 1 \in 1 .. Len(in_flight')
  BY <1>1
<1>3. in_flight'[j - 1] = x
  BY <1>1, <1>2
<1> QED
  BY Zenon, <1>2, <1>3 DEF InFlight

-----------------------------------------------------------------------------
(* What is still to come stays so *)

PendingKept ==
    /\ Pending(state) \subseteq Pending(state') \/ Raised \/ TakeKeys
    /\ state'.nodes_dirty \in {state.nodes_dirty, TRUE} \/ StartNodes

\* The queue loses keys to take_due_keys and to a resync request only, the flag
\* is cleared by reconcile_nodes only.
LEMMA PendingStep ==
    ASSUME TypeOK, ControlInv, [Next]_vars
    PROVE  PendingKept
<1>1. state \in State /\ clock \in Nat /\ state.resync_requested \in Nat
  BY Zenon DEF TypeOK, State
<1>2. ASSUME Requested(state, state', clock), SameNodes(state, state')
      PROVE  PendingKept
  BY <1>1, <1>2 DEF PendingKept, Requested, SameNodes, Raised
<1>3. ASSUME SameQueue(state, state'), state'.nodes_dirty \in {state.nodes_dirty, TRUE}
      PROVE  PendingKept
  BY Zenon, <1>3 DEF PendingKept, SameQueue, Pending
<1>4. ASSUME Pending(state') = Pending(state), SameNodes(state, state')
      PROVE  PendingKept
  BY Zenon, <1>4 DEF PendingKept, SameNodes
<1>5. CASE state' = state
  BY Zenon, <1>3, <1>5 DEF SameQueue
<1>6. ASSUME NEW s \in Pending(state), state' = KeyElapses(state, s)
      PROVE  PendingKept
  <2>1. s \in Service
    BY Zenon DEF Pending
  <2> QED BY Zenon, <1>1, <1>4, <1>6, <2>1, KeyElapsesFacts
<1>7. CASE state' = RequestResync(state, clock)
  <2>1. Requested(state, state', clock) /\ SameNodes(state, state')
    BY Zenon, <1>1, <1>7, RequestFacts
  <2> QED BY Zenon, <1>2, <2>1
<1>8. CASE state' = MarkNodesDirty(state)
  <2>1. SameQueue(state, state') /\ state'.nodes_dirty \in {state.nodes_dirty, TRUE}
    BY Zenon, <1>1, <1>8, MarkNodesFacts
  <2> QED BY Zenon, <1>3, <2>1
<1>9. ASSUME NEW s \in Service, NEW when \in {"due", "fresh"},
             state' = MarkServiceDirty(state, s, when, clock)
      PROVE  PendingKept
  <2>1. /\ SameNodes(state, state')
        /\ \/ Pending(state') = Pending(state) \cup {s}
           \/ Requested(state, state', clock)
    BY Zenon, <1>1, <1>9, MarkServiceFacts
  <2> QED BY Zenon, <1>2, <2>1 DEF PendingKept, SameNodes
<1>10. CASE state' = AdvanceKeys(state)
  <2>1. Pending(state') = Pending(state) /\ SameNodes(state, state')
    BY Zenon, <1>1, <1>10, AdvanceFacts
  <2> QED BY Zenon, <1>4, <2>1
<1>11. CASE state' = RequestResync(AdvanceKeys(state), clock)
  <2> DEFINE a == AdvanceKeys(state)
  <2>1. a \in State /\ Pending(a) = Pending(state) /\ SameNodes(state, a)
    BY Zenon, <1>1, AdvanceFacts
  <2> HIDE DEF a
  <2>2. SameQueue(a, state') /\ SameNodes(a, state')
    BY Zenon, <1>1, <1>11, <2>1, RequestFacts DEF a
  <2> QED BY Zenon, <1>4, <2>1, <2>2 DEF SameQueue, SameNodes, Pending
<1>12. CASE state' = SetNodesDirty(state, TRUE)
  <2>1. SameQueue(state, state') /\ state'.nodes_dirty \in {state.nodes_dirty, TRUE}
    BY Zenon, <1>1, <1>12, SetNodesDirtyFacts
  <2> QED BY Zenon, <1>3, <2>1
<1>13. CASE StartNodes /\ state' = SetNodesDirty(state, FALSE)
  <2>1. SameQueue(state, state')
    BY Zenon, <1>1, <1>13, SetNodesDirtyFacts
  <2> QED BY Zenon, <1>13, <2>1 DEF PendingKept, SameQueue, Pending
<1>14. CASE state' = BumpNodeGeneration(state)
  <2>1. SameQueue(state, state') /\ state'.nodes_dirty \in {state.nodes_dirty, TRUE}
    BY Zenon, <1>1, <1>14, BumpNodeFacts
  <2> QED BY Zenon, <1>3, <2>1
<1>15. ASSUME NEW s \in Service, state' = BumpServiceGeneration(state, s, TRUE)
       PROVE  PendingKept
  <2>1. SameQueue(state, state') /\ SameNodes(state, state')
    BY Zenon, <1>1, <1>15, BumpFacts
  <2> QED BY Zenon, <1>3, <2>1 DEF SameNodes
<1>16. ASSUME NEW s \in Service, state' = ForgetGeneration(state, s)
       PROVE  PendingKept
  <2>1. SameQueue(state, state') /\ SameNodes(state, state')
    BY Zenon, <1>1, <1>16, ForgetFacts
  <2> QED BY Zenon, <1>3, <2>1 DEF SameNodes
<1>17. CASE FinishResync
  <2> DEFINE q == PruneServiceGenerations(state)
  <2>1. q \in State /\ SameQueue(state, q) /\ SameNodes(state, q)
    BY Zenon, <1>1, PruneFacts
  <2>2. state' = CompleteResync(q, target, pass_start) /\ target \in Nat /\ pass_start \in Nat
    BY Zenon, <1>17 DEF FinishResync, TypeOK
  <2> HIDE DEF q
  <2>3. SameQueue(q, state') /\ SameNodes(q, state')
    BY Zenon, <2>1, <2>2, CompleteFacts
  <2>4. SameQueue(state, state') /\ SameNodes(state, state')
    BY Zenon, <2>1, <2>3 DEF SameQueue, SameNodes
  <2> QED BY Zenon, <1>3, <2>4 DEF SameNodes
<1>18. CASE TakeKeys
  <2>1. state' = TakeDueKeys(state)
    BY Zenon, <1>18 DEF TakeKeys
  <2>2. SameNodes(state, state')
    BY Zenon, <1>1, <2>1, TakeFacts
  <2> QED BY Zenon, <1>18, <2>2 DEF PendingKept, SameNodes
<1>19. ASSUME NEW s \in Service, NEW attempts \in Nat,
              state' = RetryService(state, s, attempts, clock)
       PROVE  PendingKept
  <2>1. /\ SameNodes(state, state')
        /\ \/ Pending(state') = Pending(state) \cup {s}
           \/ Requested(state, state', clock)
    BY Zenon, <1>1, <1>19, RetryFacts
  <2> QED BY Zenon, <1>2, <2>1 DEF PendingKept, SameNodes
<1> QED
  BY Zenon, StateStep, <1>5, <1>6, <1>7, <1>8, <1>9, <1>10, <1>11, <1>12, <1>13, <1>14, <1>15,
     <1>16, <1>17, <1>18, <1>19 DEF StateSteps

\* The reconciler and its timers do not touch events, the listener or the
\* shutdown.
LEMMA EventFrame ==
    ASSUME Elapse \/ BeginCycle \/ Step \/ Rest \/ UNCHANGED vars
    PROVE  UNCHANGED <<in_flight, listener, reconnect, cancelled>>
<1> USE DEF events, env
<1>1. ASSUME NEW s \in Service, ElapseKey(s)
      PROVE  UNCHANGED <<in_flight, listener, reconnect, cancelled>>
  BY Zenon, <1>1 DEF ElapseKey
<1>2. ASSUME NEW t \in Timer, ElapseTimer(t)
      PROVE  UNCHANGED <<in_flight, listener, reconnect, cancelled>>
  BY Zenon, <1>2 DEF ElapseTimer
<1>3. CASE BeginCycle
  BY Zenon, <1>3 DEF BeginCycle
<1>4. CASE StartNodes
  BY Zenon, <1>4 DEF StartNodes
<1>5. CASE AnswerNodes
  BY Zenon, <1>5 DEF AnswerNodes
<1>6. CASE FailNodes
  BY Zenon, <1>6 DEF FailNodes
<1>7. CASE FinishNodes
  BY Zenon, <1>7 DEF FinishNodes
<1>8. CASE StartResync
  BY Zenon, <1>8 DEF StartResync
<1>9. CASE AnswerServices
  BY Zenon, <1>9 DEF AnswerServices
<1>10. CASE AnswerResyncNodes
  BY Zenon, <1>10 DEF AnswerResyncNodes
<1>11. CASE FailResync
  BY Zenon, <1>11 DEF FailResync
<1>12. CASE ResyncApplyNodes
  BY Zenon, <1>12 DEF ResyncApplyNodes
<1>13. CASE FinishResync
  BY Zenon, <1>13 DEF FinishResync
<1>14. ASSUME NEW s \in Service, ResyncApplyService(s)
      PROVE  UNCHANGED <<in_flight, listener, reconnect, cancelled>>
  BY Zenon, <1>14 DEF ResyncApplyService
<1>15. ASSUME NEW s \in Service, ResyncPanics(s)
      PROVE  UNCHANGED <<in_flight, listener, reconnect, cancelled>>
  BY Zenon, <1>15 DEF ResyncPanics
<1>16. ASSUME NEW s \in Service, ResyncRemoveService(s)
      PROVE  UNCHANGED <<in_flight, listener, reconnect, cancelled>>
  BY Zenon, <1>16 DEF ResyncRemoveService
<1>17. CASE TakeKeys
  BY Zenon, <1>17 DEF TakeKeys
<1>18. CASE FinishKeys
  BY Zenon, <1>18 DEF FinishKeys
<1>19. CASE FinishInspect
  BY Zenon, <1>19 DEF FinishInspect
<1>20. CASE AbandonCall
  BY Zenon, <1>20 DEF AbandonCall
<1>21. ASSUME NEW s \in Service, AnswerInspect(s)
      PROVE  UNCHANGED <<in_flight, listener, reconnect, cancelled>>
  BY Zenon, <1>21 DEF AnswerInspect
<1>22. ASSUME NEW s \in Service, FailInspect(s)
      PROVE  UNCHANGED <<in_flight, listener, reconnect, cancelled>>
  BY Zenon, <1>22 DEF FailInspect
<1>23. CASE Wait
  BY Zenon, <1>23 DEF Wait
<1>24. CASE TakePermit
  BY Zenon, <1>24 DEF TakePermit
<1>25. CASE TimerFires
  BY Zenon, <1>25 DEF TimerFires
<1>26. CASE Stop
  BY Zenon, <1>26 DEF Stop
<1>27. CASE Rest
  BY Zenon, <1>27 DEF Rest, vars
<1>28. CASE UNCHANGED vars
  BY Zenon, <1>28 DEF vars
<1> QED
  BY Zenon, <1>1, <1>2, <1>3, <1>4, <1>5, <1>6, <1>7, <1>8, <1>9, <1>10, <1>11, <1>12, <1>13,
     <1>14, <1>15, <1>16, <1>17, <1>18, <1>19, <1>20, <1>21, <1>22, <1>23, <1>24, <1>25,
     <1>26, <1>27, <1>28
  DEF Elapse, Step

ReportsKept ==
    /\ \A s \in Service : StillComing(s) => StillComing(s)' \/ Raised \/ TakeKeys
    /\ NodesStillComing => NodesStillComing' \/ Raised \/ StartNodes

\* What is still to come stays so until its key is taken, the nodes are listed,
\* or a resync is requested.
LEMMA ReportsStep ==
    ASSUME TypeOK, ControlInv, [Next]_vars
    PROVE  ReportsKept
<1>1. /\ state \in State /\ clock \in Nat /\ state.resync_requested \in Nat
      /\ in_flight \in Seq(Event) /\ state.nodes_dirty \in BOOLEAN
  BY Zenon DEF TypeOK, State
<1>2. PendingKept
  BY Zenon, PendingStep
<1>3. state.nodes_dirty => state'.nodes_dirty \/ StartNodes
  BY Zenon, <1>1, <1>2 DEF PendingKept
<1>4. ASSUME UNCHANGED <<in_flight, listener, reconnect, cancelled>>
      PROVE  ReportsKept
  <2>1. \A x : InFlight(x)' = InFlight(x)
    BY Zenon, <1>4 DEF InFlight
  <2>2. Reconnecting' = Reconnecting
    BY Zenon, <1>4 DEF Reconnecting
  <2> QED
    BY Zenon, <1>2, <1>3, <1>4, <2>1, <2>2
    DEF ReportsKept, StillComing, NodesStillComing, PendingKept
<1>5. ASSUME NEW e \in Event, in_flight' = Append(in_flight, e),
             UNCHANGED <<listener, reconnect, cancelled>>
      PROVE  ReportsKept
  <2>1. \A x : InFlight(x) => InFlight(x)'
    BY Zenon, <1>1, <1>5, InFlightSent
  <2>2. Reconnecting' = Reconnecting
    BY Zenon, <1>5 DEF Reconnecting
  <2> QED
    BY Zenon, <1>2, <1>3, <1>5, <2>1, <2>2
    DEF ReportsKept, StillComing, NodesStillComing, PendingKept
<1>6. ASSUME NEW s \in Service, NEW found \in ServiceSpec \cup {NoService},
             ChangeService(s, found)
      PROVE  ReportsKept
  BY Zenon, <1>5, <1>6 DEF ChangeService, Event
<1>7. ASSUME NEW n \in NodeSet, ChangeNodes(n)
      PROVE  ReportsKept
  BY Zenon, <1>5, <1>7 DEF ChangeNodes, Event
<1>8. CASE Tick
  BY Zenon, <1>4, <1>8 DEF Tick, events
<1>9. CASE Cancel
  BY Zenon, <1>9 DEF Cancel, ReportsKept, StillComing, NodesStillComing
<1>10. CASE Connect
  <2>1. CASE reconnect
    <3>1. Requested(state, state', clock)
      BY Zenon, <1>1, <1>10, <2>1, RequestFacts DEF Connect
    <3> QED BY <1>1, <3>1 DEF Requested, Raised, ReportsKept
  <2>2. CASE ~reconnect
    <3>1. UNCHANGED <<in_flight, state, cancelled>> /\ ~Reconnecting
      BY Zenon, <1>10, <2>2 DEF Connect, Reconnecting, env
    <3>2. \A x : InFlight(x)' = InFlight(x)
      BY Zenon, <3>1 DEF InFlight
    <3> QED BY Zenon, <3>1, <3>2 DEF ReportsKept, StillComing, NodesStillComing
  <2> QED BY Zenon, <2>1, <2>2
<1>11. CASE LoseStream
  <2>1. Reconnecting'
    BY Zenon, <1>11 DEF LoseStream, Reconnecting
  <2> QED BY Zenon, <2>1 DEF ReportsKept, StillComing, NodesStillComing
<1>12. CASE DispatchEvent
  <2>1. /\ in_flight # <<>> /\ in_flight' = Tail(in_flight) /\ ~Reconnecting
        /\ cancelled' = cancelled
    BY Zenon, <1>12 DEF DispatchEvent, Reconnecting, env
  <2>2. \A x : InFlight(x) => x = Head(in_flight) \/ InFlight(x)'
    BY Zenon, <1>1, <2>1, InFlightDispatched
  <2>3. CASE Head(in_flight) = NodeEvent
    <3>1. state'.nodes_dirty = TRUE
      BY Zenon, <1>1, <1>12, <2>3, MarkNodesFacts DEF DispatchEvent
    <3>2. NodeEvent \notin Service
      BY Zenon, ConstantsAssumption
    <3> QED
      BY Zenon, <1>2, <2>1, <2>2, <2>3, <3>1, <3>2
      DEF ReportsKept, StillComing, NodesStillComing, PendingKept
  <2>4. CASE Head(in_flight) # NodeEvent
    <3>1. Head(in_flight) \in Service
      BY <1>1, <2>1, <2>4 DEF Event
    <3>2. Head(in_flight) \in Pending(state') \/ Requested(state, state', clock)
      BY Zenon, <1>1, <1>12, <2>4, <3>1, MarkServiceFacts DEF DispatchEvent, MarkTimes
    <3>3. Head(in_flight) \in Pending(state') \/ Raised
      BY <1>1, <3>2 DEF Requested, Raised
    <3> QED
      BY Zenon, <1>2, <1>3, <2>1, <2>2, <2>4, <3>3
      DEF ReportsKept, StillComing, NodesStillComing, PendingKept
  <2> QED BY Zenon, <2>3, <2>4
<1>13. CASE Signal
  <2>1. UNCHANGED <<in_flight, state, cancelled>> /\ ~Reconnecting
    BY Zenon, <1>13 DEF Signal, Reconnecting, env
  <2>2. \A x : InFlight(x)' = InFlight(x)
    BY Zenon, <2>1 DEF InFlight
  <2> QED BY Zenon, <2>1, <2>2 DEF ReportsKept, StillComing, NodesStillComing
<1>14. CASE StopListener
  <2>1. cancelled'
    BY Zenon, <1>14 DEF StopListener, env
  <2> QED BY Zenon, <2>1 DEF ReportsKept, StillComing, NodesStillComing
<1> QED
  BY Zenon, <1>4, <1>6, <1>7, <1>8, <1>9, <1>10, <1>11, <1>12, <1>13, <1>14, EventFrame
  DEF Next, Daemon, Listener

Kept ==
    /\ \A s \in Service : StillComing(s) \/ ResyncOutstanding(state) =>
         StillComing(s)' \/ ResyncOutstanding(state)' \/ TakeKeys
    /\ NodesStillComing \/ ResyncOutstanding(state) =>
         NodesStillComing' \/ ResyncOutstanding(state)' \/ StartNodes
    /\ InPass /\ target' = target =>
         /\ \A s \in Service : StillComing(s) \/ Stale => StillComing(s)' \/ Stale'
         /\ NodesStillComing \/ Stale => NodesStillComing' \/ Stale'

\* An excuse for a difference stays one, whatever happens but the end of a pass.
LEMMA KeptStep ==
    ASSUME TypeOK, ControlInv, [Next]_vars, ~FinishResync
    PROVE  Kept
<1>1. /\ state.resync_requested \in Nat /\ state.resync_completed \in Nat /\ target \in Nat
  BY Zenon DEF TypeOK, State
<1>2. ReportsKept
  BY Zenon, ReportsStep
<1>3. SameResync(state, state') \/ Requested(state, state', clock)
  BY Zenon, ResyncStep
<1>4. /\ Raised => ResyncOutstanding(state)'
      /\ ResyncOutstanding(state) => ResyncOutstanding(state)'
      /\ InPass /\ target' = target /\ (Raised \/ Stale) => Stale'
  BY <1>1, <1>3
  DEF SameResync, Requested, Raised, ResyncOutstanding, Stale, ControlInv
<1>5. InPass => ~TakeKeys /\ ~StartNodes
  BY Zenon DEF InPass, TakeKeys, StartNodes
<1> QED
  BY Zenon, <1>2, <1>4, <1>5 DEF Kept, ReportsKept

-----------------------------------------------------------------------------
(* Which steps write what *)

StepFrame ==
    /\ UNCHANGED world \/ \E s \in Service, found \in ServiceSpec \cup {NoService} :
                            ChangeService(s, found)
    /\ UNCHANGED swarm_nodes \/ \E n \in NodeSet : ChangeNodes(n)
    /\ UNCHANGED nodes \/ FinishNodes \/ ResyncApplyNodes
    /\ \/ \A s \in Service : metadata'[s].spec = metadata[s].spec
       \/ pc = "resync_apply" /\ pc' = pc
       \/ FinishInspect
    /\ \/ UNCHANGED <<taken, inspected>> /\ pc \notin {"inspect", "inspected"}
          /\ pc' \notin {"inspect", "inspected"}
       \/ UNCHANGED <<taken, inspected, pc>>
       \/ TakeKeys \/ FinishKeys \/ FinishInspect
       \/ \E s \in Service : AnswerInspect(s) \/ FailInspect(s)
    /\ \/ pc' \notin {"list_resync_nodes", "resync_nodes_listed", "resync_apply"}
       \/ UNCHANGED <<pc, target, listed, listed_nodes, todo, metadata, nodes>>
       \/ AnswerServices \/ AnswerResyncNodes \/ ResyncApplyNodes
       \/ \E s \in Service : ResyncApplyService(s) \/ ResyncRemoveService(s)
    /\ \/ pc' \notin {"inspected", "nodes_listed"}
       \/ UNCHANGED <<pc, inspected, listed_nodes>>
       \/ AnswerNodes \/ \E s \in Service : AnswerInspect(s)
    /\ pc \in {"list_nodes", "nodes_listed"} =>
         \/ pc' \in {"list_nodes", "nodes_listed"}
         \/ FailNodes \/ FinishNodes \/ AbandonCall

\* The daemon changes by its own steps only, and a cache, a local of the pass or
\* of the batch by the reconciler's steps that are for it.
LEMMA FrameStep ==
    ASSUME TypeOK, [Next]_vars
    PROVE  StepFrame
<1> USE DEF events, env, daemon, caches, locals, shared
<1>1. ASSUME NEW s \in Service, NEW found \in ServiceSpec \cup {NoService}, ChangeService(s, found)
      PROVE  StepFrame
  BY Zenon, <1>1 DEF StepFrame, ChangeService
<1>2. ASSUME NEW n \in NodeSet, ChangeNodes(n)
      PROVE  StepFrame
  BY Zenon, <1>2 DEF StepFrame, ChangeNodes
<1>3. CASE Tick
  BY Zenon, <1>3 DEF StepFrame, Tick
<1>4. CASE Cancel
  BY Zenon, <1>4 DEF StepFrame, Cancel
<1>5. ASSUME NEW s \in Service, ElapseKey(s)
      PROVE  StepFrame
  BY Zenon, <1>5 DEF StepFrame, ElapseKey
<1>6. ASSUME NEW t \in Timer, ElapseTimer(t)
      PROVE  StepFrame
  BY Zenon, <1>6 DEF StepFrame, ElapseTimer
<1>7. CASE Connect
  BY Zenon, <1>7 DEF StepFrame, Connect
<1>8. CASE LoseStream
  BY Zenon, <1>8 DEF StepFrame, LoseStream
<1>9. CASE DispatchEvent
  BY Zenon, <1>9 DEF StepFrame, DispatchEvent
<1>10. CASE Signal
  BY Zenon, <1>10 DEF StepFrame, Signal
<1>11. CASE StopListener
  BY Zenon, <1>11 DEF StepFrame, StopListener
<1>12. CASE BeginCycle
  BY Zenon, <1>12 DEF StepFrame, BeginCycle
<1>13. CASE StartNodes
  BY Zenon, <1>13 DEF StepFrame, StartNodes
<1>14. CASE AnswerNodes
  BY Zenon, <1>14 DEF StepFrame, AnswerNodes
<1>15. CASE FailNodes
  BY Zenon, <1>15 DEF StepFrame, FailNodes
<1>16. CASE FinishNodes
  <2>1. \A s \in Service : metadata'[s].spec = metadata[s].spec
    BY Zenon, <1>16 DEF FinishNodes, ApplyNodes, TypeOK, Counts, Cached, NoCounts
  <2> QED BY Zenon, <1>16, <2>1 DEF StepFrame, FinishNodes
<1>17. CASE StartResync
  BY Zenon, <1>17 DEF StepFrame, StartResync
<1>18. CASE AnswerServices
  BY Zenon, <1>18 DEF StepFrame, AnswerServices
<1>19. CASE AnswerResyncNodes
  BY Zenon, <1>19 DEF StepFrame, AnswerResyncNodes
<1>20. CASE FailResync
  BY Zenon, <1>20 DEF StepFrame, FailResync, ForgetPass
<1>21. CASE ResyncApplyNodes
  <2>1. \A s \in Service : metadata'[s].spec = metadata[s].spec
    BY Zenon, <1>21 DEF ResyncApplyNodes, ApplyNodes, TypeOK, Counts, Cached, NoCounts
  <2> QED BY Zenon, <1>21, <2>1 DEF StepFrame, ResyncApplyNodes
<1>22. CASE FinishResync
  BY Zenon, <1>22 DEF StepFrame, FinishResync, ForgetPass
<1>23. ASSUME NEW s \in Service, ResyncApplyService(s)
      PROVE  StepFrame
  BY Zenon, <1>23 DEF StepFrame, ResyncApplyService, ApplyService
<1>24. ASSUME NEW s \in Service, ResyncPanics(s)
      PROVE  StepFrame
  BY Zenon, <1>24 DEF StepFrame, ResyncPanics, ForgetPass
<1>25. ASSUME NEW s \in Service, ResyncRemoveService(s)
      PROVE  StepFrame
  BY Zenon, <1>25 DEF StepFrame, ResyncRemoveService, RemoveService
<1>26. CASE TakeKeys
  BY Zenon, <1>26 DEF StepFrame, TakeKeys
<1>27. CASE FinishKeys
  BY Zenon, <1>27 DEF StepFrame, FinishKeys
<1>28. CASE FinishInspect
  <2>1. UNCHANGED nodes
    BY Zenon, <1>28 DEF FinishInspect, ApplyService, RemoveService
  <2> QED BY Zenon, <1>28, <2>1 DEF StepFrame, FinishInspect
<1>29. CASE AbandonCall
  BY Zenon, <1>29 DEF StepFrame, AbandonCall, ForgetPass
<1>30. ASSUME NEW s \in Service, AnswerInspect(s)
      PROVE  StepFrame
  BY Zenon, <1>30 DEF StepFrame, AnswerInspect
<1>31. ASSUME NEW s \in Service, FailInspect(s)
      PROVE  StepFrame
  BY Zenon, <1>31 DEF StepFrame, FailInspect
<1>32. CASE Wait
  BY Zenon, <1>32 DEF StepFrame, Wait
<1>33. CASE TakePermit
  BY Zenon, <1>33 DEF StepFrame, TakePermit
<1>34. CASE TimerFires
  BY Zenon, <1>34 DEF StepFrame, TimerFires
<1>35. CASE Stop
  BY Zenon, <1>35 DEF StepFrame, Stop
<1>36. CASE Rest
  BY Zenon, <1>36 DEF StepFrame, Rest, vars
<1>37. CASE UNCHANGED vars
  BY Zenon, <1>37 DEF vars, StepFrame
<1> QED
  BY Zenon, <1>1, <1>2, <1>3, <1>4, <1>5, <1>6, <1>7, <1>8, <1>9, <1>10, <1>11, <1>12,
     <1>13, <1>14, <1>15, <1>16, <1>17, <1>18, <1>19, <1>20, <1>21, <1>22, <1>23,
     <1>24, <1>25, <1>26, <1>27, <1>28, <1>29, <1>30, <1>31, <1>32, <1>33, <1>34,
     <1>35, <1>36, <1>37
  DEF Next, Daemon, Elapse, Listener, Step

-----------------------------------------------------------------------------
(* The inductive invariant *)

\* At the start everything is still to be resynced.
LEMMA CoverInvInit ==
    Init => CoverInv
<1> SUFFICES ASSUME Init PROVE CoverInv
  BY Zenon
<1>1. StateInv
  BY Zenon, StateInvInit
<1>2. ResyncOutstanding(state)
  BY DEF Init, InitialState, ResyncOutstanding
<1>3. PassInv /\ AnswerInv
  BY Zenon DEF Init, PassInv, AnswerInv
<1>4. BatchInv
  BY DEF Init, BatchInv, Taken, NoKey
<1> QED
  BY Zenon, <1>1, <1>2, <1>3, <1>4 DEF CoverInv, NoLostServiceChange, NoLostNodeChange

\* The batch ends with no key taken and no answer held.
LEMMA BatchStep ==
    ASSUME TypeOK, BatchInv, StepFrame
    PROVE  BatchInv'
<1>1. CASE /\ UNCHANGED <<taken, inspected>>
           /\ pc' = pc \/ {pc, pc'} \cap {"inspect", "inspected"} = {}
  BY Zenon, <1>1 DEF BatchInv, Taken
<1>2. CASE TakeKeys
  BY Zenon, <1>2 DEF TakeKeys, BatchInv
<1>3. CASE FinishKeys
  BY <1>3 DEF FinishKeys, BatchInv, Taken
<1>4. CASE FinishInspect
  BY Zenon, <1>4 DEF FinishInspect, BatchInv, NoKey
<1>5. ASSUME NEW s \in Service, AnswerInspect(s)
      PROVE  BatchInv'
  BY Zenon, <1>5 DEF AnswerInspect, BatchInv
<1>6. ASSUME NEW s \in Service, FailInspect(s)
      PROVE  BatchInv'
  BY Zenon, <1>6 DEF FailInspect, BatchInv
<1> QED
  BY Zenon, <1>1, <1>2, <1>3, <1>4, <1>5, <1>6 DEF StepFrame

\* A service that changed is still to be reported.
LEMMA WorldChanges ==
    ASSUME TypeOK, StepFrame
    PROVE  \A s \in Service : world'[s] = world[s] \/ StillComing(s)'
<1>1. ASSUME NEW t \in Service, NEW found, ChangeService(t, found), NEW s \in Service
      PROVE  world'[s] = world[s] \/ StillComing(s)'
  <2>1. InFlight(t)'
    BY Zenon, <1>1, InFlightSent DEF ChangeService, TypeOK, Event
  <2> QED BY Zenon, <1>1, <2>1 DEF ChangeService, TypeOK, StillComing
<1> QED BY Zenon, <1>1 DEF StepFrame

\* So are nodes that changed.
LEMMA NodesChange ==
    ASSUME TypeOK, StepFrame
    PROVE  swarm_nodes' = swarm_nodes \/ NodesStillComing'
<1>1. ASSUME NEW n \in NodeSet, ChangeNodes(n)
      PROVE  NodesStillComing'
  <2>1. InFlight(NodeEvent)'
    BY Zenon, <1>1, InFlightSent DEF ChangeNodes, TypeOK, Event
  <2> QED BY Zenon, <2>1 DEF NodesStillComing
<1> QED BY Zenon, <1>1 DEF StepFrame

\* What a pass listed stays true, still to come, or overtaken by a request.
LEMMA PassStep ==
    ASSUME TypeOK, PassInv, StepFrame, Kept, [Next]_vars
    PROVE  PassInv'
<1>1. CASE pc' \notin {"list_resync_nodes", "resync_nodes_listed", "resync_apply"}
  BY Zenon, <1>1 DEF PassInv
<1>2. CASE /\ UNCHANGED <<pc, target, listed, listed_nodes, todo, metadata, nodes>>
           /\ pc \in {"list_resync_nodes", "resync_nodes_listed", "resync_apply"}
  <2>1. /\ \A s \in Service : StillComing(s) \/ Stale => StillComing(s)' \/ Stale'
        /\ NodesStillComing \/ Stale => NodesStillComing' \/ Stale'
    BY Zenon, <1>2 DEF Kept, InPass
  <2>2. \A s \in Service : world'[s] = world[s] \/ StillComing(s)'
    BY Zenon, WorldChanges
  <2>3. swarm_nodes' = swarm_nodes \/ NodesStillComing'
    BY Zenon, NodesChange
  <2> QED BY Zenon, <1>2, <2>1, <2>2, <2>3 DEF PassInv
<1>3. CASE AnswerServices
  <2>1. pc' = "list_resync_nodes" /\ UNCHANGED world
    BY Zenon, <1>3 DEF AnswerServices, daemon
  <2>2. \A s \in Service : listed'[s] \in {world[s], Malformed}
    BY Zenon, <1>3 DEF AnswerServices, TypeOK
  <2> QED BY Zenon, <2>1, <2>2 DEF PassInv
<1>4. CASE AnswerResyncNodes
  <2>1. /\ pc = "list_resync_nodes" /\ pc' = "resync_nodes_listed" /\ target' = target
        /\ listed_nodes' = swarm_nodes /\ UNCHANGED <<world, swarm_nodes, listed>>
    BY Zenon, <1>4 DEF AnswerResyncNodes, daemon
  <2>2. \A s \in Service : StillComing(s) \/ Stale => StillComing(s)' \/ Stale'
    BY Zenon, <2>1 DEF Kept, InPass
  <2> QED BY Zenon, <2>1, <2>2 DEF PassInv
<1>5. CASE ResyncApplyNodes
  <2>1. /\ pc = "resync_nodes_listed" /\ pc' = "resync_apply" /\ target' = target
        /\ nodes' = listed_nodes /\ todo' = {s \in Service : listed[s] # NoService}
        /\ UNCHANGED <<world, swarm_nodes, listed, listed_nodes>>
    BY Zenon, <1>5 DEF ResyncApplyNodes, ApplyNodes, daemon
  <2>2. /\ \A s \in Service : StillComing(s) \/ Stale => StillComing(s)' \/ Stale'
        /\ NodesStillComing \/ Stale => NodesStillComing' \/ Stale'
    BY Zenon, <2>1 DEF Kept, InPass
  <2> QED BY Zenon, <2>1, <2>2 DEF PassInv
<1>6. ASSUME NEW s \in Service, ResyncApplyService(s) \/ ResyncRemoveService(s)
      PROVE  PassInv'
  <2>1. /\ pc = "resync_apply" /\ pc' = pc /\ target' = target
        /\ UNCHANGED <<world, swarm_nodes, listed, listed_nodes, nodes>>
    BY Zenon, <1>6 DEF ResyncApplyService, ResyncRemoveService, ApplyService, RemoveService,
                daemon, locals
  <2>2. /\ \A t \in Service : StillComing(t) \/ Stale => StillComing(t)' \/ Stale'
        /\ NodesStillComing \/ Stale => NodesStillComing' \/ Stale'
    BY Zenon, <2>1 DEF Kept, InPass
  <2>3. \A t \in Service \ todo' : listed[t] \in {metadata'[t].spec, NoService}
    <3>1. CASE ResyncApplyService(s)
      <4>1. /\ todo' = todo \ {s} /\ metadata'[s].spec = listed[s]
            /\ \A t \in Service \ {s} : metadata'[t] = metadata[t]
        BY Zenon, <3>1 DEF ResyncApplyService, ApplyService, TypeOK
      <4> QED BY Zenon, <2>1, <4>1 DEF PassInv
    <3>2. CASE ResyncRemoveService(s)
      <4>1. /\ todo' = todo /\ listed[s] = NoService
            /\ \A t \in Service \ {s} : metadata'[t] = metadata[t]
        BY Zenon, <3>2 DEF ResyncRemoveService, RemoveService, Unlisted, TypeOK, locals
      <4> QED BY Zenon, <2>1, <4>1 DEF PassInv
    <3> QED BY Zenon, <1>6, <3>1, <3>2
  <2> QED BY Zenon, <2>1, <2>2, <2>3 DEF PassInv
<1> QED
  BY Zenon, <1>1, <1>2, <1>3, <1>4, <1>5, <1>6 DEF StepFrame

\* An answered inspect is what the daemon has, or cannot be read.
LEMMA InspectAnswers ==
    ASSUME NEW s \in Service, AnswerInspect(s)
    PROVE  /\ pc = "inspect" /\ pc' = "inspected" /\ world' = world
           /\ taken' = [taken EXCEPT ![s] = 0] /\ inspected'.service = s
           /\ inspected'.found \in {world[s], Malformed}
<1>1. PICK found \in {world[s], Malformed} :
        inspected' = [service |-> s, attempts |-> taken[s] - 1, found |-> found]
  BY Zenon DEF AnswerInspect
<1>2. inspected'.service = s /\ inspected'.found = found
  BY Zenon, <1>1
<1>3. /\ pc = "inspect" /\ pc' = "inspected" /\ world' = world
      /\ taken' = [taken EXCEPT ![s] = 0]
  BY Zenon DEF AnswerInspect, daemon
<1> QED
  BY Zenon, <1>2, <1>3

\* An answer to an inspect or a node list stays true, or covered.
LEMMA AnswerStep ==
    ASSUME TypeOK, ControlInv, AnswerInv, StepFrame, Kept, [Next]_vars
    PROVE  AnswerInv'
<1>1. CASE pc' \notin {"inspected", "nodes_listed"}
  BY Zenon, <1>1 DEF AnswerInv
<1>2. CASE UNCHANGED <<pc, inspected, listed_nodes>> /\ pc = "inspected"
  <2>1. inspected.service \in Service /\ ~TakeKeys
    BY Zenon, <1>2 DEF ControlInv, TakeKeys
  <2>2. \A s \in Service : world'[s] = world[s] \/ StillComing(s)'
    BY Zenon, WorldChanges
  <2> QED BY Zenon, <1>2, <2>1, <2>2 DEF AnswerInv, Kept
<1>3. CASE UNCHANGED <<pc, inspected, listed_nodes>> /\ pc = "nodes_listed"
  <2>1. ~StartNodes
    BY Zenon, <1>3 DEF StartNodes
  <2>2. swarm_nodes' = swarm_nodes \/ NodesStillComing'
    BY Zenon, NodesChange
  <2> QED BY Zenon, <1>3, <2>1, <2>2 DEF AnswerInv, Kept
<1>4. CASE AnswerNodes
  BY Zenon, <1>4 DEF AnswerNodes, AnswerInv, daemon
<1>5. ASSUME NEW s \in Service, AnswerInspect(s)
      PROVE  AnswerInv'
  BY Zenon, <1>5, InspectAnswers DEF AnswerInv
<1> QED
  BY Zenon, <1>1, <1>2, <1>3, <1>4, <1>5 DEF StepFrame

\* A resync is outstanding during a pass.
LEMMA PassIsOutstanding ==
    ASSUME TypeOK', ControlInv', InPass'
    PROVE  ResyncOutstanding(state')
<1>1. /\ state'.resync_requested \in Nat /\ state'.resync_completed \in Nat /\ target' \in Nat
  BY Zenon DEF TypeOK, State
<1>2. state'.resync_completed < target' /\ target' <= state'.resync_requested
  BY Zenon DEF ControlInv
<1> QED
  BY <1>1, <1>2 DEF ResyncOutstanding

\* A resync is outstanding once it was requested.
LEMMA RequestedIsOutstanding ==
    ASSUME TypeOK, ControlInv, Requested(state, state', clock)
    PROVE  ResyncOutstanding(state')
<1>1. /\ state.resync_requested \in Nat /\ state.resync_completed \in Nat
      /\ state.resync_completed <= state.resync_requested
  BY Zenon DEF TypeOK, State, ControlInv
<1> QED
  BY <1>1 DEF Requested, ResyncOutstanding

\* An answer is cached for its service alone, and a malformed one not at all.
LEMMA InspectWrites ==
    ASSUME TypeOK, FinishInspect, NEW s \in Service
    PROVE  /\ \/ metadata'[s].spec = metadata[s].spec
              \/ s = inspected.service /\ inspected.found # Malformed
           /\ s = inspected.service /\ inspected.found # Malformed =>
                metadata'[s].spec = inspected.found
<1>1. metadata \in [Service -> Counts]
  BY Zenon DEF TypeOK
<1>2. CASE inspected.found \in ServiceSpec
  <2>1. metadata' = [metadata EXCEPT ![inspected.service] =
                       [spec |-> inspected.found, nodes |-> nodes]]
    BY Zenon, <1>2, ConstantsAssumption DEF FinishInspect, ApplyService
  <2>2. inspected.found # Malformed
    BY Zenon, <1>2, ConstantsAssumption
  <2> QED BY Zenon, <1>1, <2>1, <2>2
<1>3. CASE inspected.found = NoService
  <2>1. metadata' = [metadata EXCEPT ![inspected.service] = NoCounts]
    BY Zenon, <1>3, ConstantsAssumption DEF FinishInspect, RemoveService
  <2>2. inspected.found # Malformed /\ NoCounts.spec = inspected.found
    BY Zenon, <1>3, ConstantsAssumption DEF NoCounts
  <2> QED BY Zenon, <1>1, <2>1, <2>2
<1>4. CASE inspected.found = Malformed
  <2>1. metadata'[s].spec = metadata[s].spec
    BY Zenon, <1>4, ConstantsAssumption DEF FinishInspect, caches
  <2> QED BY Zenon, <1>4, <2>1
<1> QED
  BY Zenon, <1>2, <1>3, <1>4 DEF FinishInspect

\* No step but the end of a pass loses a change of a service.
LEMMA ServiceStep ==
    ASSUME TypeOK, ControlInv, ControlInv', TypeOK', AnswerInv, BatchInv,
           NoLostServiceChange, StepFrame, Kept, [Next]_vars
    PROVE  NoLostServiceChange'
<1>1. CASE pc = "resync_apply" /\ pc' = pc
  <2>1. ResyncOutstanding(state)'
    BY Zenon, <1>1, PassIsOutstanding DEF InPass
  <2> QED BY Zenon, <2>1 DEF NoLostServiceChange
<1> DEFINE Excused(s) == StillComing(s) \/ s \in Taken \/ inspected.service = s
                         \/ ResyncOutstanding(state)
<1>2. ASSUME NEW s \in Service, world'[s] = world[s], metadata'[s].spec = metadata[s].spec,
             metadata'[s].spec # world'[s]
      PROVE  Excused(s)'
  <2>1. Excused(s)
    BY Zenon, <1>2 DEF NoLostServiceChange
  <2>2. CASE UNCHANGED <<taken, inspected>> /\ ~TakeKeys
    BY Zenon, <2>1, <2>2 DEF Kept, Taken
  <2>3. CASE TakeKeys
    <3>1. /\ taken' = [t \in Service |-> IF t \in KeysToTake(state)
                                         THEN state.pending_set[t].attempts + 1 ELSE 0]
          /\ state' = TakeDueKeys(state) /\ state \in State /\ Taken = {}
          /\ UNCHANGED <<in_flight, listener, reconnect, cancelled>>
          /\ inspected.service # s
      BY Zenon, <2>3, ConstantsAssumption DEF TakeKeys, TypeOK, BatchInv, events, env
    <3>2. Pending(state') = Pending(state) \ KeysToTake(state) /\ SameResync(state, state')
      BY Zenon, <3>1, TakeFacts
    <3>3. s \in KeysToTake(state) => s \in Taken'
      BY <3>1 DEF Taken, State, PendingKey
    <3>4. InFlight(s)' = InFlight(s)
      BY Zenon, <3>1 DEF InFlight
    <3> QED
      BY Zenon, <2>1, <3>1, <3>2, <3>3, <3>4
      DEF StillComing, Reconnecting, SameResync, ResyncOutstanding
  <2>4. CASE FinishKeys
    <3>1. ~TakeKeys /\ (Taken = {} \/ cancelled) /\ inspected' = inspected /\ UNCHANGED cancelled
      BY Zenon, <2>4 DEF FinishKeys, TakeKeys, env
    <3>2. cancelled => StillComing(s)'
      BY Zenon, <3>1 DEF StillComing
    <3> QED BY Zenon, <2>1, <3>1, <3>2 DEF Kept
  <2>5. CASE FinishInspect
    <3>1. pc = "inspected" /\ ~TakeKeys /\ UNCHANGED <<taken, world>>
      BY Zenon, <2>5 DEF FinishInspect, TakeKeys, daemon
    <3>2. CASE inspected.service # s
      BY Zenon, <2>1, <3>1, <3>2 DEF Kept, Taken
    <3>3. CASE inspected.service = s /\ inspected.found = Malformed
      <4>1. Requested(state, state', clock)
        BY Zenon, <2>5, <3>3, RequestFacts, ConstantsAssumption
        DEF FinishInspect, RequestResyncAfterPanic, TypeOK
      <4>2. ResyncOutstanding(state)'
        BY Zenon, <4>1, RequestedIsOutstanding
      <4> QED BY Zenon, <4>2
    <3>4. CASE inspected.service = s /\ inspected.found # Malformed
      <4>1. metadata'[s].spec = inspected.found
        BY Zenon, <2>5, <3>4, InspectWrites
      <4> QED BY Zenon, <1>2, <3>1, <3>4, <4>1 DEF AnswerInv, Kept
    <3> QED BY Zenon, <3>2, <3>3, <3>4
  <2>6. ASSUME NEW t \in Service, AnswerInspect(t)
        PROVE  Excused(s)'
    <3>1. /\ pc = "inspect" /\ ~TakeKeys /\ taken' = [taken EXCEPT ![t] = 0]
          /\ inspected'.service = t
      BY Zenon, <2>6, InspectAnswers DEF TakeKeys
    <3>2. inspected.service # s
      BY Zenon, <3>1, ConstantsAssumption DEF BatchInv
    <3> QED BY Zenon, <2>1, <3>1, <3>2 DEF Kept, Taken, TypeOK
  <2>7. ASSUME NEW t \in Service, FailInspect(t)
        PROVE  Excused(s)'
    <3>1. /\ pc = "inspect" /\ ~TakeKeys /\ taken' = [taken EXCEPT ![t] = 0]
          /\ inspected' = inspected /\ t \in Taken
          /\ state' = RetryService(state, t, taken[t] - 1, clock)
      BY Zenon, <2>7 DEF FailInspect, TakeKeys
    <3>2. t \in Pending(state') \/ Requested(state, state', clock)
      <4>1. taken \in [Service -> Nat] /\ state \in State /\ clock \in Nat
        BY Zenon DEF TypeOK
      <4>2. taken[t] - 1 \in Nat
        BY <3>1, <4>1 DEF Taken
      <4> QED BY ZenonT(60), <3>1, <4>1, <4>2, RetryFacts
    <3>3. t \in Pending(state') \/ ResyncOutstanding(state)'
      BY Zenon, <3>2, RequestedIsOutstanding
    <3> QED BY Zenon, <2>1, <3>1, <3>3 DEF Kept, Taken, TypeOK, StillComing
  <2> QED BY Zenon, <2>2, <2>3, <2>4, <2>5, <2>6, <2>7 DEF StepFrame
<1>3. ASSUME FinishInspect, NEW s \in Service, metadata'[s].spec # metadata[s].spec,
             metadata'[s].spec # world'[s]
      PROVE  Excused(s)'
  <2>1. /\ inspected.service = s /\ metadata'[s].spec = inspected.found
        /\ inspected.found # Malformed
    BY Zenon, <1>3, InspectWrites
  <2>2. pc = "inspected" /\ ~TakeKeys /\ UNCHANGED world
    BY Zenon, <1>3 DEF FinishInspect, TakeKeys, daemon
  <2> QED BY Zenon, <1>3, <2>1, <2>2 DEF AnswerInv, Kept
<1>4. \A s \in Service : world'[s] = world[s] \/ StillComing(s)'
  BY Zenon, WorldChanges
<1> QED
  BY Zenon, <1>1, <1>2, <1>3, <1>4 DEF StepFrame, NoLostServiceChange

\* No step but the end of a pass loses a change of the nodes.
LEMMA NodesStep ==
    ASSUME TypeOK, ControlInv, ControlInv', TypeOK', AnswerInv, PassInv,
           NoLostNodeChange, StepFrame, Kept, [Next]_vars
    PROVE  NoLostNodeChange'
<1>1. CASE UNCHANGED <<nodes, swarm_nodes>>
  <2>1. CASE StartNodes
    <3>1. \/ pc' = "list_nodes"
          \/ pc = "nodes" /\ UNCHANGED <<state, in_flight, listener, reconnect, cancelled>>
      BY Zenon, <2>1 DEF StartNodes, events, env
    <3>2. CASE UNCHANGED <<state, in_flight, listener, reconnect, cancelled>>
      BY Zenon, <1>1, <3>1, <3>2
      DEF NoLostNodeChange, NodesStillComing, InFlight, Reconnecting
    <3> QED BY Zenon, <3>1, <3>2 DEF NoLostNodeChange
  <2>2. CASE FailNodes
    <3>1. state'.nodes_dirty = TRUE
      BY Zenon, <2>2, SetNodesDirtyFacts DEF FailNodes, TypeOK
    <3> QED BY Zenon, <3>1 DEF NoLostNodeChange, NodesStillComing
  <2>3. CASE AbandonCall
    BY Zenon, <2>3 DEF AbandonCall, NoLostNodeChange, NodesStillComing, env
  <2>4. CASE FinishNodes
    BY Zenon, <1>1, <2>4 DEF FinishNodes, ApplyNodes, AnswerInv, Kept, NoLostNodeChange, StartNodes
  <2> QED BY Zenon, <1>1, <2>1, <2>2, <2>3, <2>4 DEF StepFrame, NoLostNodeChange, Kept
<1>2. CASE UNCHANGED swarm_nodes /\ FinishNodes
  <2>1. nodes' = listed_nodes /\ pc = "nodes_listed" /\ ~StartNodes
    BY Zenon, <1>2 DEF FinishNodes, ApplyNodes, StartNodes
  <2> QED BY Zenon, <1>2, <2>1 DEF AnswerInv, Kept, NoLostNodeChange
<1>3. CASE ResyncApplyNodes
  <2>1. pc' = "resync_apply"
    BY Zenon, <1>3 DEF ResyncApplyNodes
  <2>2. ResyncOutstanding(state)'
    BY Zenon, <2>1, PassIsOutstanding DEF InPass
  <2> QED BY Zenon, <2>2 DEF NoLostNodeChange
<1>4. swarm_nodes' = swarm_nodes \/ NodesStillComing'
  BY Zenon, NodesChange
<1> QED
  BY Zenon, <1>1, <1>2, <1>3, <1>4 DEF StepFrame, NoLostNodeChange

\* The end of a pass: the caches are what the pass listed, so what differs from
\* the daemon is still to come, or was requested since and stays outstanding.
LEMMA FinishResyncStep ==
    ASSUME CoverInv, FinishResync, [Next]_vars
    PROVE  /\ PassInv' /\ AnswerInv' /\ BatchInv'
           /\ NoLostServiceChange' /\ NoLostNodeChange'
<1>1. /\ TypeOK /\ ControlInv /\ PassInv /\ BatchInv
      /\ state \in State /\ target \in Nat /\ pass_start \in Nat
      /\ metadata \in [Service -> Counts] /\ listed \in [Service -> Found]
  BY Zenon DEF CoverInv, StateInv, TypeOK
<1>2. /\ pc = "resync_apply" /\ todo = {} /\ Unlisted = {} /\ pc' = "keys"
      /\ UNCHANGED <<world, swarm_nodes, metadata, nodes, taken, inspected>>
      /\ state' = CompleteResync(PruneServiceGenerations(state), target, pass_start)
  BY Zenon DEF FinishResync, daemon, caches
<1>3. PassInv' /\ AnswerInv'
  BY Zenon, <1>2 DEF PassInv, AnswerInv
<1>4. BatchInv'
  BY Zenon, <1>1, <1>2 DEF BatchInv, Taken
<1>5. /\ state'.resync_requested = state.resync_requested
      /\ state'.resync_completed = target
      /\ state.resync_requested \in Nat
  <2>1. PruneServiceGenerations(state) \in State /\ SameResync(state, PruneServiceGenerations(state))
    BY Zenon, <1>1, PruneFacts
  <2>2. state.resync_completed < target
    BY Zenon, <1>1, <1>2 DEF ControlInv, InPass
  <2>3. state.resync_completed \in Nat /\ state.resync_requested \in Nat
    BY Zenon, <1>1 DEF State
  <2>4. /\ state'.resync_requested = PruneServiceGenerations(state).resync_requested
        /\ state'.resync_completed = IF target > PruneServiceGenerations(state).resync_completed
                                     THEN target
                                     ELSE PruneServiceGenerations(state).resync_completed
    BY <1>1, <1>2, <2>1, CompleteFacts
  <2> QED BY Zenon, <1>1, <2>1, <2>2, <2>3, <2>4 DEF SameResync
<1>6. Stale => ResyncOutstanding(state')
  BY Zenon, <1>1, <1>5 DEF Stale, ResyncOutstanding
<1>7. /\ \A s \in Service : StillComing(s) => StillComing(s)'
      /\ NodesStillComing => NodesStillComing'
  <2>1. ReportsKept
    BY Zenon, <1>1, ReportsStep
  <2>2. ~Raised
    BY <1>5 DEF Raised
  <2>3. ~TakeKeys /\ ~StartNodes
    BY Zenon, <1>2 DEF TakeKeys, StartNodes
  <2> QED BY Zenon, <2>1, <2>2, <2>3 DEF ReportsKept
<1>8. \A s \in Service : metadata[s].spec = listed[s] /\ listed[s] # Malformed
  <2> SUFFICES ASSUME NEW s \in Service
               PROVE  metadata[s].spec = listed[s] /\ listed[s] # Malformed
    BY Zenon
  <2>1. listed[s] \in {metadata[s].spec, NoService}
    BY Zenon, <1>1, <1>2 DEF PassInv
  <2>2. listed[s] = NoService => metadata[s].spec = NoService
    BY Zenon, <1>2 DEF Unlisted, Cached
  <2>3. metadata[s].spec # Malformed
    BY Zenon, <1>1, ConstantsAssumption DEF Counts
  <2> QED BY Zenon, <2>1, <2>2, <2>3
<1>9. NoLostServiceChange'
  <2> SUFFICES ASSUME NEW s \in Service, metadata'[s].spec # world'[s]
               PROVE  StillComing(s)' \/ ResyncOutstanding(state')
    BY Zenon DEF NoLostServiceChange
  <2>1. StillComing(s) \/ Stale
    BY Zenon, <1>1, <1>2, <1>8 DEF PassInv
  <2> QED BY Zenon, <1>6, <1>7, <2>1
<1>10. NoLostNodeChange'
  <2> SUFFICES ASSUME nodes' # swarm_nodes'
               PROVE  NodesStillComing' \/ ResyncOutstanding(state')
    BY Zenon DEF NoLostNodeChange
  <2>1. NodesStillComing \/ Stale
    BY Zenon, <1>1, <1>2 DEF PassInv
  <2> QED BY Zenon, <1>6, <1>7, <2>1
<1> QED
  BY Zenon, <1>3, <1>4, <1>9, <1>10

\* CoverInv is inductive.
LEMMA CoverInvStep ==
    CoverInv /\ [Next]_vars => CoverInv'
<1> SUFFICES ASSUME CoverInv, [Next]_vars PROVE CoverInv'
  BY Zenon
<1>1. StateInv /\ TypeOK /\ ControlInv
  BY Zenon DEF CoverInv, StateInv
<1>2. StateInv' /\ TypeOK' /\ ControlInv'
  <2>1. StateInv'
    BY Zenon, <1>1, StateInvStep
  <2> QED BY Zenon, <2>1 DEF StateInv
<1>3. CASE FinishResync
  BY Zenon, <1>2, <1>3, FinishResyncStep DEF CoverInv
<1>4. CASE ~FinishResync
  <2>1. /\ PassInv /\ AnswerInv /\ BatchInv
        /\ NoLostServiceChange /\ NoLostNodeChange
    BY Zenon DEF CoverInv
  <2>2. StepFrame
    BY Zenon, <1>1, FrameStep
  <2>3. Kept
    BY Zenon, <1>1, <1>4, KeptStep
  <2>4. PassInv'
    BY Zenon, <1>1, <2>1, <2>2, <2>3, PassStep
  <2>5. AnswerInv'
    BY Zenon, <1>1, <2>1, <2>2, <2>3, AnswerStep
  <2>6. BatchInv'
    BY Zenon, <1>1, <2>1, <2>2, BatchStep
  <2>7. NoLostServiceChange'
    BY Zenon, <1>1, <1>2, <2>1, <2>2, <2>3, ServiceStep
  <2>8. NoLostNodeChange'
    BY Zenon, <1>1, <1>2, <2>1, <2>2, <2>3, NodesStep
  <2> QED BY Zenon, <1>2, <2>4, <2>5, <2>6, <2>7, <2>8 DEF CoverInv
<1> QED
  BY Zenon, <1>3, <1>4

\* CoverInv holds in every reachable state.
LEMMA CoverInvHolds ==
    Spec => []CoverInv
  BY CoverInvInit, CoverInvStep, PTL DEF Spec

\* No change of a service is lost, for any number of services, any queue bound
\* and any sequence of overflows, failures, panics and lost streams: the cache
\* differs from the daemon only while something will still correct it.
THEOREM NoServiceChangeLost ==
    Spec => []NoLostServiceChange
<1>1. CoverInv => NoLostServiceChange
  BY Zenon DEF CoverInv
<1> QED
  BY <1>1, CoverInvHolds, PTL

\* The same for the nodes, although their flag is cleared before they are
\* listed.
THEOREM NoNodeChangeLost ==
    Spec => []NoLostNodeChange
<1>1. CoverInv => NoLostNodeChange
  BY Zenon DEF CoverInv
<1> QED
  BY <1>1, CoverInvHolds, PTL

-----------------------------------------------------------------------------
(* The caches and what is made of them *)

ReadyInv ==
    /\ pc \in {"nodes_listed", "resync_nodes_listed"} => listed_nodes \in NodeSet
    /\ pc = "resync_apply" => nodes \in NodeSet /\ \A s \in todo : listed[s] # NoService
    /\ state.resync_completed > 0 => nodes \in NodeSet
    /\ Taken # {} \/ pc = "inspected" => nodes \in NodeSet

\* The critical sections that come without a write to the caches.
PlainSteps ==
    \/ state' = state
    \/ \E s \in Pending(state) : state' = KeyElapses(state, s)
    \/ state' = RequestResync(state, clock)
    \/ state' = MarkNodesDirty(state)
    \/ \E s \in Service, when \in {"due", "fresh"} :
         state' = MarkServiceDirty(state, s, when, clock)
    \/ state' = AdvanceKeys(state)
    \/ state' = RequestResync(AdvanceKeys(state), clock)
    \/ state' = SetNodesDirty(state, FALSE)
    \/ state' = SetNodesDirty(state, TRUE)
    \/ FinishResync
    \/ TakeKeys
    \/ \E s \in Service, attempts \in Nat : state' = RetryService(state, s, attempts, clock)

CacheSteps ==
    \/ UNCHANGED caches /\ PlainSteps
    \/ nodes \in NodeSet /\ \E s \in Service, spec \in ServiceSpec : ApplyService(s, spec)
    \/ \E s \in Service : RemoveService(s)
    \/ \E n \in NodeSet : ApplyNodes(n)

-----------------------------------------------------------------------------
(* Steps *)

\* No service is applied, and no key taken, before a node list was applied.
LEMMA ReadyStep ==
    ASSUME TypeOK, ControlInv, ReadyInv, [Next]_vars
    PROVE  ReadyInv'
<1>1. StepFrame /\ swarm_nodes \in NodeSet /\ state \in State
  BY Zenon, FrameStep DEF TypeOK
<1>2. nodes \in NodeSet => nodes' \in NodeSet
  BY Zenon, <1>1 DEF StepFrame, FinishNodes, ResyncApplyNodes, ApplyNodes, ReadyInv
<1>3. pc' = "nodes_listed" => listed_nodes' \in NodeSet
  BY Zenon, <1>1 DEF StepFrame, AnswerNodes, AnswerInspect, ReadyInv
<1>4. pc' = "resync_nodes_listed" => listed_nodes' \in NodeSet
  BY Zenon, <1>1 DEF StepFrame, AnswerServices, AnswerResyncNodes, ResyncApplyNodes,
              ResyncApplyService, ResyncRemoveService, ReadyInv
<1>5. ASSUME pc' = "resync_apply"
      PROVE  nodes' \in NodeSet /\ \A s \in todo' : listed'[s] # NoService
  <2>1. CASE UNCHANGED <<pc, target, listed, listed_nodes, todo, metadata, nodes>>
    BY Zenon, <1>5, <2>1 DEF ReadyInv
  <2>2. CASE ResyncApplyNodes
    BY Zenon, <2>2 DEF ResyncApplyNodes, ApplyNodes, ReadyInv
  <2>3. ASSUME NEW s \in Service, ResyncApplyService(s)
        PROVE  nodes' \in NodeSet /\ \A t \in todo' : listed'[t] # NoService
    BY Zenon, <2>3 DEF ResyncApplyService, ApplyService, ReadyInv
  <2>4. ASSUME NEW s \in Service, ResyncRemoveService(s)
        PROVE  nodes' \in NodeSet /\ \A t \in todo' : listed'[t] # NoService
    BY Zenon, <2>4 DEF ResyncRemoveService, RemoveService, ReadyInv, locals
  <2>5. ~AnswerServices /\ ~AnswerResyncNodes
    BY Zenon, <1>5 DEF AnswerServices, AnswerResyncNodes
  <2> QED BY Zenon, <1>1, <1>5, <2>1, <2>2, <2>3, <2>4, <2>5 DEF StepFrame
<1>6. state'.resync_completed > 0 => nodes' \in NodeSet
  <2>1. CASE SameResync(state, state') \/ Requested(state, state', clock)
    BY Zenon, <1>2, <2>1 DEF SameResync, Requested, ReadyInv
  <2>2. CASE FinishResync
    BY Zenon, <1>2, <2>2 DEF FinishResync, ReadyInv
  <2> QED BY Zenon, <2>1, <2>2, ResyncStep
<1>7. ASSUME Taken' # {} \/ pc' = "inspected"
      PROVE  nodes' \in NodeSet
  <2>1. CASE UNCHANGED <<taken, inspected>> /\ (pc' = "inspected" => pc = "inspected")
    BY Zenon, <1>2, <1>7, <2>1 DEF ReadyInv, Taken
  <2>2. CASE TakeKeys
    <3>1. PICK s \in Service : taken'[s] > 0
      BY Zenon, <1>7, <2>2 DEF TakeKeys, Taken
    <3>2. KeysToTake(state) # {}
      BY <2>2, <3>1 DEF TakeKeys
    <3>3. state.resync_completed # 0
      BY Zenon, <3>2 DEF KeysToTake
    <3>4. state.resync_completed > 0
      BY <1>1, <3>3 DEF State
    <3> QED BY Zenon, <1>2, <3>4 DEF ReadyInv
  <2>3. CASE FinishKeys
    BY <1>7, <2>3 DEF FinishKeys, Taken
  <2>4. CASE FinishInspect
    BY Zenon, <1>2, <2>4 DEF FinishInspect, ReadyInv
  <2>5. ASSUME NEW s \in Service, AnswerInspect(s) \/ FailInspect(s)
        PROVE  nodes' \in NodeSet
    BY Zenon, <1>2, <2>5 DEF AnswerInspect, FailInspect, ReadyInv
  <2> QED BY Zenon, <1>1, <2>1, <2>2, <2>3, <2>4, <2>5 DEF StepFrame
<1> QED
  BY Zenon, <1>3, <1>4, <1>5, <1>6, <1>7 DEF ReadyInv

\* A write to the caches comes with its own critical section, and every other
\* critical section leaves the caches alone.
LEMMA CacheStep ==
    ASSUME TypeOK, ControlInv, ReadyInv, [Next]_vars
    PROVE  CacheSteps
<1> USE DEF shared
<1>1. ASSUME NEW s \in Service, NEW found \in ServiceSpec \cup {NoService}, ChangeService(s, found)
      PROVE  CacheSteps
  BY Zenon, <1>1 DEF ChangeService, CacheSteps, PlainSteps
<1>2. ASSUME NEW n \in NodeSet, ChangeNodes(n)
      PROVE  CacheSteps
  BY Zenon, <1>2 DEF ChangeNodes, CacheSteps, PlainSteps
<1>3. CASE Tick
  BY Zenon, <1>3 DEF Tick, CacheSteps, PlainSteps
<1>4. CASE Cancel
  BY Zenon, <1>4 DEF Cancel, CacheSteps, PlainSteps
<1>5. ASSUME NEW s \in Service, ElapseKey(s)
      PROVE  CacheSteps
  BY Zenon, <1>5 DEF ElapseKey, Pending, CacheSteps, PlainSteps
<1>6. ASSUME NEW t \in Timer, ElapseTimer(t)
      PROVE  CacheSteps
  BY Zenon, <1>6 DEF ElapseTimer, CacheSteps, PlainSteps
<1>7. CASE Connect
  BY Zenon, <1>7 DEF Connect, CacheSteps, PlainSteps
<1>8. CASE LoseStream
  BY Zenon, <1>8 DEF LoseStream, CacheSteps, PlainSteps
<1>9. CASE DispatchEvent
  <2>1. CASE Head(in_flight) = NodeEvent
    BY Zenon, <1>9, <2>1 DEF DispatchEvent, CacheSteps, PlainSteps
  <2>2. CASE Head(in_flight) # NodeEvent
    <3>1. Head(in_flight) \in Service
      BY <1>9, <2>2 DEF DispatchEvent, TypeOK, Event
    <3> QED BY Zenon, <1>9, <2>2, <3>1 DEF DispatchEvent, MarkTimes, CacheSteps, PlainSteps
  <2> QED BY Zenon, <2>1, <2>2
<1>10. CASE Signal
  BY Zenon, <1>10 DEF Signal, CacheSteps, PlainSteps
<1>11. CASE StopListener
  BY Zenon, <1>11 DEF StopListener, CacheSteps, PlainSteps
<1>12. CASE BeginCycle
  BY Zenon, <1>12 DEF BeginCycle, CacheSteps, PlainSteps
<1>13. CASE StartNodes
  BY Zenon, <1>13 DEF StartNodes, CacheSteps, PlainSteps
<1>14. CASE AnswerNodes
  BY Zenon, <1>14 DEF AnswerNodes, CacheSteps, PlainSteps
<1>15. CASE FailNodes
  BY Zenon, <1>15 DEF FailNodes, CacheSteps, PlainSteps
<1>16. CASE FinishNodes
  BY Zenon, <1>16 DEF FinishNodes, ReadyInv, CacheSteps
<1>17. CASE StartResync
  BY Zenon, <1>17 DEF StartResync, CacheSteps, PlainSteps
<1>18. CASE AnswerServices
  BY Zenon, <1>18 DEF AnswerServices, CacheSteps, PlainSteps
<1>19. CASE AnswerResyncNodes
  BY Zenon, <1>19 DEF AnswerResyncNodes, CacheSteps, PlainSteps
<1>20. CASE FailResync
  BY Zenon, <1>20 DEF FailResync, CacheSteps, PlainSteps
<1>21. CASE ResyncApplyNodes
  BY Zenon, <1>21 DEF ResyncApplyNodes, ReadyInv, CacheSteps
<1>22. CASE FinishResync
  BY Zenon, <1>22 DEF FinishResync, CacheSteps, PlainSteps
<1>23. ASSUME NEW s \in Service, ResyncApplyService(s)
      PROVE  CacheSteps
  <2>1. listed[s] \in ServiceSpec
    BY Zenon, <1>23 DEF ResyncApplyService, ReadyInv, TypeOK, Found
  <2>2. nodes \in NodeSet /\ ApplyService(s, listed[s])
    BY Zenon, <1>23 DEF ResyncApplyService, ReadyInv
  <2> QED BY Zenon, <2>1, <2>2 DEF CacheSteps
<1>24. ASSUME NEW s \in Service, ResyncPanics(s)
      PROVE  CacheSteps
  BY Zenon, <1>24 DEF ResyncPanics, RequestResyncAfterPanic, CacheSteps, PlainSteps
<1>25. ASSUME NEW s \in Service, ResyncRemoveService(s)
      PROVE  CacheSteps
  BY Zenon, <1>25 DEF ResyncRemoveService, CacheSteps
<1>26. CASE TakeKeys
  BY Zenon, <1>26 DEF TakeKeys, CacheSteps, PlainSteps
<1>27. CASE FinishKeys
  BY Zenon, <1>27 DEF FinishKeys, CacheSteps, PlainSteps
<1>28. CASE FinishInspect
  <2>1. inspected.service \in Service /\ nodes \in NodeSet
    BY Zenon, <1>28 DEF FinishInspect, ControlInv, ReadyInv
  <2> QED BY Zenon, <1>28, <2>1 DEF FinishInspect, RequestResyncAfterPanic, CacheSteps, PlainSteps
<1>29. CASE AbandonCall
  BY Zenon, <1>29 DEF AbandonCall, CacheSteps, PlainSteps
<1>30. ASSUME NEW s \in Service, AnswerInspect(s)
      PROVE  CacheSteps
  BY Zenon, <1>30 DEF AnswerInspect, CacheSteps, PlainSteps
<1>31. ASSUME NEW s \in Service, FailInspect(s)
      PROVE  CacheSteps
  <2>1. taken[s] - 1 \in Nat
    BY <1>31 DEF FailInspect, Taken, TypeOK
  <2> QED BY Zenon, <1>31, <2>1 DEF FailInspect, CacheSteps, PlainSteps
<1>32. CASE Wait
  BY Zenon, <1>32 DEF Wait, CacheSteps, PlainSteps
<1>33. CASE TakePermit
  BY Zenon, <1>33 DEF TakePermit, CacheSteps, PlainSteps
<1>34. CASE TimerFires
  BY Zenon, <1>34 DEF TimerFires, CacheSteps, PlainSteps
<1>35. CASE Stop
  BY Zenon, <1>35 DEF Stop, CacheSteps, PlainSteps
<1>36. CASE Rest
  BY Zenon, <1>36 DEF Rest, vars, CacheSteps, PlainSteps
<1>37. CASE UNCHANGED vars
  BY Zenon, <1>37 DEF vars, CacheSteps, PlainSteps
<1> QED
  BY Zenon, <1>1, <1>2, <1>3, <1>4, <1>5, <1>6, <1>7, <1>8, <1>9, <1>10, <1>11, <1>12,
     <1>13, <1>14, <1>15, <1>16, <1>17, <1>18, <1>19, <1>20, <1>21, <1>22, <1>23, <1>24,
     <1>25, <1>26, <1>27, <1>28, <1>29, <1>30, <1>31, <1>32, <1>33, <1>34, <1>35, <1>36, <1>37
  DEF Next, Daemon, Elapse, Listener, Step

-----------------------------------------------------------------------------
(* Series *)

\* What SeriesMirrorCache says of one service.
SeriesOK(s) ==
    /\ Cached(s) =>
         /\ metadata[s].nodes = nodes /\ nodes # NoNodes
         /\ replica_series[LabelOf(s, metadata[s].spec)] = metadata[s]
         /\ update_series[LabelOf(s, metadata[s].spec)] = metadata[s].spec
    /\ \A spec \in ServiceSpec :
         LabelOf(s, spec) \notin LabelsOf(s, metadata[s].spec) =>
           /\ replica_series[LabelOf(s, spec)] = NoCounts
           /\ update_series[LabelOf(s, spec)] = NoService

\* SeriesMirrorCache is SeriesOK of every service.
LEMMA SeriesMeaning ==
    ASSUME TypeOK
    PROVE  SeriesMirrorCache <=> \A s \in Service : SeriesOK(s)
<1>1. ASSUME NEW s \in Service, NEW spec \in ServiceSpec,
             LabelOf(s, spec) \notin LabelsOf(s, metadata[s].spec)
      PROVE  spec # metadata[s].spec
  BY Zenon, <1>1, ConstantsAssumption DEF LabelsOf
<1> QED
  BY Zenon, <1>1 DEF SeriesMirrorCache, SeriesOK

\* apply_service moves the series of its service to the new identity and leaves
\* those of every other.
LEMMA ApplyServiceSeries ==
    ASSUME TypeOK, UniqueLabels, \A t \in Service : SeriesOK(t), nodes \in NodeSet,
           NEW s \in Service, NEW spec \in ServiceSpec, ApplyService(s, spec)
    PROVE  \A t \in Service : SeriesOK(t)'
<1> DEFINE counts == [spec |-> spec, nodes |-> nodes]
           label == LabelOf(s, spec)
           gone == LabelsOf(s, metadata[s].spec) \ {label}
<1>1. /\ metadata \in [Service -> Counts]
      /\ \A t \in Service, sp \in ServiceSpec : LabelOf(t, sp) \in Label
      /\ nodes # NoNodes /\ spec # NoService
  BY Zenon, ConstantsAssumption DEF TypeOK
<1>2. /\ metadata' = [metadata EXCEPT ![s] = counts] /\ nodes' = nodes
      /\ \A l \in Label : replica_series'[l] = IF l = label THEN counts
                                               ELSE IF l \in gone THEN NoCounts
                                               ELSE replica_series[l]
      /\ \A l \in Label : update_series'[l] = IF l = label THEN spec
                                              ELSE IF l \in gone THEN NoService
                                              ELSE update_series[l]
  BY Zenon DEF ApplyService
<1>3. counts.spec = spec /\ counts.nodes = nodes
  BY Zenon
<1>4. \A t \in Service : metadata[t].spec \in ServiceSpec \cup {NoService}
  BY Zenon, <1>1 DEF Counts
<1>5. ASSUME NEW t \in Service, t # s PROVE SeriesOK(t)'
  <2>1. metadata'[t] = metadata[t]
    BY Zenon, <1>1, <1>2, <1>5
  <2>2. ASSUME NEW sp \in ServiceSpec
        PROVE  LabelOf(t, sp) # label /\ LabelOf(t, sp) \notin gone
    BY Zenon, <1>4, <1>5, <2>2 DEF UniqueLabels, LabelsOf
  <2>3. ASSUME NEW sp \in ServiceSpec
        PROVE  /\ replica_series'[LabelOf(t, sp)] = replica_series[LabelOf(t, sp)]
               /\ update_series'[LabelOf(t, sp)] = update_series[LabelOf(t, sp)]
    <3> HIDE DEF counts, label, gone
    <3> QED BY Zenon, <1>1, <1>2, <2>2
  <2>4. /\ SeriesOK(t) /\ nodes' = nodes
        /\ Cached(t) => metadata[t].spec \in ServiceSpec
    BY Zenon, <1>2, <1>4 DEF Cached
  <2>5. LabelsOf(t, metadata'[t].spec) = LabelsOf(t, metadata[t].spec)
    BY Zenon, <2>1
  <2> HIDE DEF counts, label, gone
  <2> QED
    BY Zenon, <2>1, <2>3, <2>4, <2>5 DEF SeriesOK, Cached
<1>6. SeriesOK(s)'
  <2>1. metadata'[s] = counts
    BY Zenon, <1>1, <1>2
  <2>2. replica_series'[label] = counts /\ update_series'[label] = spec
    <3> HIDE DEF counts, gone
    <3> QED BY Zenon, <1>1, <1>2
  <2>3. ASSUME NEW sp \in ServiceSpec, LabelOf(s, sp) # label
        PROVE  /\ replica_series'[LabelOf(s, sp)] = NoCounts
               /\ update_series'[LabelOf(s, sp)] = NoService
    <3>1. CASE LabelOf(s, sp) \in LabelsOf(s, metadata[s].spec)
      <4>1. LabelOf(s, sp) \in gone
        BY Zenon, <2>3, <3>1
      <4> HIDE DEF counts, label, gone
      <4> QED BY Zenon, <1>1, <1>2, <2>3, <4>1
    <3>2. CASE LabelOf(s, sp) \notin LabelsOf(s, metadata[s].spec)
      <4>1. LabelOf(s, sp) \notin gone
        BY Zenon, <3>2
      <4>2. /\ replica_series[LabelOf(s, sp)] = NoCounts
            /\ update_series[LabelOf(s, sp)] = NoService
        BY Zenon, <3>2 DEF SeriesOK
      <4> HIDE DEF counts, label, gone
      <4> QED BY Zenon, <1>1, <1>2, <2>3, <4>1, <4>2
    <3> QED BY Zenon, <3>1, <3>2
  <2>4. LabelOf(s, metadata'[s].spec) = label
    BY Zenon, <1>3, <2>1
  <2>5. LabelsOf(s, metadata'[s].spec) = {label}
    BY Zenon, <1>1, <1>3, <2>1 DEF LabelsOf
  <2> HIDE DEF counts, label, gone
  <2> QED
    BY Zenon, <1>1, <1>2, <1>3, <2>1, <2>2, <2>3, <2>4, <2>5 DEF SeriesOK, Cached
<1> QED
  BY Zenon, <1>5, <1>6

\* remove_service deletes the series of its service and no other.
LEMMA RemoveServiceSeries ==
    ASSUME TypeOK, UniqueLabels, \A t \in Service : SeriesOK(t),
           NEW s \in Service, RemoveService(s)
    PROVE  \A t \in Service : SeriesOK(t)'
<1> DEFINE gone == LabelsOf(s, metadata[s].spec)
<1>1. /\ metadata \in [Service -> Counts]
      /\ \A t \in Service, sp \in ServiceSpec : LabelOf(t, sp) \in Label
  BY Zenon, ConstantsAssumption DEF TypeOK
<1>2. /\ metadata' = [metadata EXCEPT ![s] = NoCounts] /\ nodes' = nodes
      /\ \A l \in Label : replica_series'[l] = IF l \in gone THEN NoCounts
                                               ELSE replica_series[l]
      /\ \A l \in Label : update_series'[l] = IF l \in gone THEN NoService
                                              ELSE update_series[l]
  BY Zenon DEF RemoveService
<1>3. \A t \in Service : metadata[t].spec \in ServiceSpec \cup {NoService}
  BY Zenon, <1>1 DEF Counts
<1>4. ASSUME NEW t \in Service, t # s PROVE SeriesOK(t)'
  <2>1. metadata'[t] = metadata[t]
    BY Zenon, <1>1, <1>2, <1>4
  <2>2. ASSUME NEW sp \in ServiceSpec PROVE LabelOf(t, sp) \notin gone
    BY Zenon, <1>3, <1>4, <2>2 DEF UniqueLabels, LabelsOf
  <2>3. ASSUME NEW sp \in ServiceSpec
        PROVE  /\ replica_series'[LabelOf(t, sp)] = replica_series[LabelOf(t, sp)]
               /\ update_series'[LabelOf(t, sp)] = update_series[LabelOf(t, sp)]
    <3> HIDE DEF gone
    <3> QED BY Zenon, <1>1, <1>2, <2>2
  <2>4. /\ SeriesOK(t) /\ nodes' = nodes
        /\ Cached(t) => metadata[t].spec \in ServiceSpec
    BY Zenon, <1>2, <1>3 DEF Cached
  <2>5. LabelsOf(t, metadata'[t].spec) = LabelsOf(t, metadata[t].spec)
    BY Zenon, <2>1
  <2> HIDE DEF gone
  <2> QED
    BY Zenon, <2>1, <2>3, <2>4, <2>5 DEF SeriesOK, Cached
<1>5. SeriesOK(s)'
  <2>1. metadata'[s].spec = NoService
    BY Zenon, <1>1, <1>2 DEF NoCounts
  <2>2. ASSUME NEW sp \in ServiceSpec
        PROVE  /\ replica_series'[LabelOf(s, sp)] = NoCounts
               /\ update_series'[LabelOf(s, sp)] = NoService
    <3>1. LabelOf(s, sp) \notin gone => /\ replica_series[LabelOf(s, sp)] = NoCounts
                                        /\ update_series[LabelOf(s, sp)] = NoService
      BY Zenon DEF SeriesOK
    <3> HIDE DEF gone
    <3> QED BY Zenon, <1>1, <1>2, <3>1
  <2> QED
    BY Zenon, <2>1, <2>2 DEF SeriesOK, Cached
<1> QED
  BY Zenon, <1>4, <1>5

\* apply_nodes recomputes the series of every cached service; with identities
\* that are not shared it does not matter in which order.
LEMMA ApplyNodesSeries ==
    ASSUME TypeOK, UniqueLabels, \A t \in Service : SeriesOK(t),
           NEW n \in NodeSet, ApplyNodes(n)
    PROVE  \A t \in Service : SeriesOK(t)'
<1> DEFINE held == UNION {LabelsOf(t, metadata[t].spec) : t \in Service}
<1>1. /\ metadata \in [Service -> Counts] /\ n # NoNodes
      /\ \A t \in Service, sp \in ServiceSpec : LabelOf(t, sp) \in Label
  BY Zenon, ConstantsAssumption DEF TypeOK
<1>2. \A t \in Service : metadata[t].spec \in ServiceSpec \cup {NoService}
  BY Zenon, <1>1 DEF Counts
<1>3. PICK last \in LastWriters :
        replica_series' = [l \in Label |-> IF l \in DOMAIN last
                                           THEN [spec |-> metadata[last[l]].spec, nodes |-> n]
                                           ELSE replica_series[l]]
  BY Zenon DEF ApplyNodes
<1>4. /\ last \in [held -> Service]
      /\ \A l \in held : l \in LabelsOf(last[l], metadata[last[l]].spec)
  BY Zenon, <1>3 DEF LastWriters
<1>5. /\ nodes' = n /\ update_series' = update_series
      /\ metadata' = [t \in Service |-> IF Cached(t) THEN [metadata[t] EXCEPT !.nodes = n]
                                        ELSE NoCounts]
  BY Zenon DEF ApplyNodes
<1>6. SUFFICES ASSUME NEW t \in Service PROVE SeriesOK(t)'
  BY Zenon
<1>7. metadata'[t].spec = metadata[t].spec
  BY Zenon, <1>1, <1>5 DEF Counts, Cached, NoCounts
<1>8. ASSUME NEW sp \in ServiceSpec, LabelOf(t, sp) \notin LabelsOf(t, metadata[t].spec)
      PROVE  /\ replica_series'[LabelOf(t, sp)] = NoCounts
             /\ update_series'[LabelOf(t, sp)] = NoService
  <2>1. LabelOf(t, sp) \notin held
    BY <1>2, <1>8 DEF UniqueLabels, LabelsOf
  <2>2. LabelOf(t, sp) \notin DOMAIN last
    BY Zenon, <1>4, <2>1
  <2>3. replica_series'[LabelOf(t, sp)] = replica_series[LabelOf(t, sp)]
    BY Zenon, <1>1, <1>3, <2>2
  <2> QED BY Zenon, <1>5, <1>8, <2>3 DEF SeriesOK
<1>9. ASSUME Cached(t)
      PROVE  /\ metadata'[t].nodes = n
             /\ replica_series'[LabelOf(t, metadata[t].spec)] = metadata'[t]
             /\ update_series'[LabelOf(t, metadata[t].spec)] = metadata[t].spec
  <2> DEFINE label == LabelOf(t, metadata[t].spec)
  <2>1. metadata[t].spec \in ServiceSpec /\ label \in Label
    BY Zenon, <1>1, <1>2, <1>9 DEF Cached
  <2>2. label \in held
    BY Zenon, <1>9 DEF LabelsOf, Cached
  <2>3. last[label] \in Service /\ label \in LabelsOf(last[label], metadata[last[label]].spec)
    BY Zenon, <1>4, <2>2
  <2>4. last[label] = t
    BY <1>2, <2>1, <2>3 DEF UniqueLabels, LabelsOf
  <2>5. metadata'[t] = [spec |-> metadata[t].spec, nodes |-> n]
    BY Zenon, <1>1, <1>5, <1>9 DEF Counts
  <2>6. label \in DOMAIN last
    BY Zenon, <1>4, <2>2
  <2>7. update_series[label] = metadata[t].spec
    BY Zenon, <1>9 DEF SeriesOK
  <2> HIDE DEF label
  <2>8. replica_series'[label] = [spec |-> metadata[t].spec, nodes |-> n]
    BY Zenon, <1>3, <2>1, <2>4, <2>6
  <2> QED
    BY <1>5, <2>5, <2>7, <2>8 DEF label
<1> QED
  BY Zenon, <1>1, <1>5, <1>7, <1>8, <1>9 DEF SeriesOK, Cached

SeriesInv == StateInv /\ ReadyInv /\ SeriesMirrorCache

\* A new reconciler has an empty cache and no series.
LEMMA SeriesInvInit ==
    Init => SeriesInv
<1> SUFFICES ASSUME Init PROVE SeriesInv
  BY Zenon
<1>1. StateInv /\ TypeOK
  BY Zenon, StateInvInit DEF StateInv
<1>2. /\ pc = "top" /\ taken = [s \in Service |-> 0] /\ state.resync_completed = 0
  BY Zenon DEF Init, InitialState
<1>3. ReadyInv
  BY <1>2 DEF ReadyInv, Taken
<1>4. /\ \A s \in Service : metadata[s] = NoCounts
      /\ \A l \in Label : replica_series[l] = NoCounts /\ update_series[l] = NoService
  BY Zenon DEF Init
<1>5. \A s \in Service : SeriesOK(s)
  BY <1>4, ConstantsAssumption DEF SeriesOK, Cached, NoCounts
<1> QED
  BY Zenon, <1>1, <1>3, <1>5, SeriesMeaning DEF SeriesInv

\* SeriesInv is inductive.
LEMMA SeriesInvStep ==
    ASSUME UniqueLabels, SeriesInv, [Next]_vars
    PROVE  SeriesInv'
<1>1. StateInv /\ TypeOK /\ ControlInv /\ ReadyInv /\ \A s \in Service : SeriesOK(s)
  BY Zenon, SeriesMeaning DEF SeriesInv, StateInv
<1>2. StateInv' /\ TypeOK'
  <2>1. StateInv'
    BY Zenon, <1>1, StateInvStep
  <2> QED BY Zenon, <2>1 DEF StateInv
<1>3. ReadyInv' /\ CacheSteps
  BY Zenon, <1>1, ReadyStep, CacheStep
<1>4. \A s \in Service : SeriesOK(s)'
  <2>1. CASE UNCHANGED caches
    BY Zenon, <1>1, <2>1 DEF caches, SeriesOK, Cached
  <2> QED BY Zenon, <1>1, <1>3, <2>1, ApplyServiceSeries, RemoveServiceSeries, ApplyNodesSeries
          DEF CacheSteps
<1>5. SeriesMirrorCache'
  <2>1. ASSUME NEW s \in Service, NEW spec \in ServiceSpec,
               LabelOf(s, spec) \notin LabelsOf(s, metadata'[s].spec)
        PROVE  spec # metadata'[s].spec
    BY Zenon, <2>1, ConstantsAssumption DEF LabelsOf
  <2> QED BY Zenon, <1>4, <2>1 DEF SeriesMirrorCache, SeriesOK
<1> QED
  BY Zenon, <1>2, <1>3, <1>5 DEF SeriesInv

\* For any number of services whose label identities are their own, in any
\* interleaving of renames, removals, node changes, panics and resyncs: every
\* cached service has its series, computed from the cached nodes, and no series
\* is left of an identity that is gone.
THEOREM SeriesCorrect ==
    ASSUME UniqueLabels
    PROVE  Spec => []SeriesMirrorCache
<1>1. SeriesInv /\ [Next]_vars => SeriesInv'
  BY Zenon, SeriesInvStep
<1>2. SeriesInv => SeriesMirrorCache
  BY Zenon DEF SeriesInv
<1> QED
  BY <1>1, <1>2, SeriesInvInit, PTL DEF Spec

-----------------------------------------------------------------------------
(* Generations *)

\* What GenerationsMirrorCache lets a generation be kept for.
Reported(s) ==
    \/ Cached(s) \/ s \in Pending(state) \/ s \in Taken \/ inspected.service = s
    \/ ResyncOutstanding(state) \/ cancelled

\* No flag moves, and a generation appears with its key or with a resync only.
GenerationMoves(a, b) ==
    /\ SameCached(a, b)
    /\ \A s \in Service : b.service_generation[s].value > 0 =>
         a.service_generation[s].value > 0 \/ s \in Pending(b) \/ ResyncOutstanding(b)

\* remove_service keeps the generation of a queued key only.
LEMMA ForgetValues ==
    ASSUME NEW st \in State, NEW s \in Service, NEW b, b = ForgetGeneration(st, s)
    PROVE  /\ \A t \in Service \ {s} : b.service_generation[t] = st.service_generation[t]
           /\ b.service_generation[s].value > 0 => s \in Pending(st)
<1> DEFINE value == IF s \in Pending(st) THEN st.service_generation[s].value ELSE 0
           gen == [value |-> value, cached |-> FALSE]
           gens == [st.service_generation EXCEPT ![s] = gen]
<1>1. st.service_generation \in [Service -> Generation]
  BY Zenon DEF State
<1>2. value \in Nat /\ (value > 0 => s \in Pending(st))
  BY <1>1 DEF Generation
<1>3. b = SetGenerations(st, gens)
  BY Zenon DEF ForgetGeneration
<1> HIDE DEF value
<1>4. gen \in Generation /\ gen.value = value
  BY Zenon, <1>2 DEF Generation
<1> HIDE DEF gen
<1>5. gens \in [Service -> Generation] /\ gens[s] = gen
      /\ \A t \in Service \ {s} : gens[t] = st.service_generation[t]
  BY Zenon, <1>1, <1>4
<1> HIDE DEF gens
<1>6. b.service_generation = gens
  BY <1>3, <1>5, SetGenerationsFacts
<1> QED
  BY Zenon, <1>2, <1>4, <1>5, <1>6

\* mark_service_dirty without an overflow bumps its own service only.
LEMMA MarkOthers ==
    ASSUME NEW st \in State, NEW s \in Service, NEW when \in {"due", "fresh"},
           NEW now \in Nat, NEW b, b = MarkServiceDirty(st, s, when, now),
           SameResync(st, b)
    PROVE  \A t \in Service \ {s} : b.service_generation[t] = st.service_generation[t]
<1> DEFINE cached == st.service_generation[s].cached
           bumped == BumpServiceGeneration(st, s, cached)
           key == MarkedKey(when)
           set == [st.pending_set EXCEPT ![s] = key]
<1>1. cached \in BOOLEAN /\ st.pending_set \in [Service -> PendingKey]
      /\ st.resync_requested \in Nat
  BY Zenon DEF State, Generation
<1>2. key \in PendingKey
  BY Zenon DEF MarkedKey, PendingKey, When
<1>3. \/ b = SetKeys(bumped, set) \/ b = Overflow(bumped, now) \/ b = Enqueue(bumped, s, key)
  BY Zenon DEF MarkServiceDirty
<1> HIDE DEF cached, key
<1>4. set \in [Service -> PendingKey]
  BY Zenon, <1>1, <1>2
<1> HIDE DEF set
<1>5. /\ bumped \in State /\ SameResync(st, bumped)
      /\ \A t \in Service \ {s} : bumped.service_generation[t] = st.service_generation[t]
  BY <1>1, BumpFacts
<1> HIDE DEF bumped
<1>6. b # Overflow(bumped, now)
  <2>1. SUFFICES ASSUME b = Overflow(bumped, now) PROVE FALSE
    BY Zenon
  <2>2. Requested(bumped, b, now)
    BY Zenon, <1>5, <2>1, OverflowFacts
  <2>3. b.resync_requested = bumped.resync_requested + 1
    BY Zenon, <2>2 DEF Requested
  <2>4. bumped.resync_requested = st.resync_requested /\ b.resync_requested = st.resync_requested
    BY Zenon, <1>5 DEF SameResync
  <2>5. st.resync_requested \in Nat
    BY Zenon, <1>1
  <2> QED BY <2>3, <2>4, <2>5
<1>7. CASE b = SetKeys(bumped, set)
  <2>1. SameGenerations(bumped, b)
    BY Zenon, <1>4, <1>5, <1>7, SetKeysFacts
  <2> QED BY Zenon, <1>5, <2>1 DEF SameGenerations
<1>8. CASE b = Enqueue(bumped, s, key)
  <2>1. SameGenerations(bumped, b)
    BY <1>2, <1>5, <1>8, EnqueueFacts
  <2> QED BY Zenon, <1>5, <2>1 DEF SameGenerations
<1> QED
  BY Zenon, <1>3, <1>6, <1>7, <1>8

\* retry_service bumps nothing.
LEMMA RetryOthers ==
    ASSUME NEW st \in State, NEW s \in Service, NEW attempts \in Nat,
           NEW now \in Nat, NEW b, b = RetryService(st, s, attempts, now),
           SameResync(st, b)
    PROVE  SameGenerations(st, b)
<1> DEFINE key == [when |-> "later", attempts |-> attempts + 1]
<1>1. key \in PendingKey /\ st.resync_requested \in Nat
  BY DEF PendingKey, When, State
<1>2. \/ b = st \/ b = RequestResync(st, now) \/ b = Overflow(st, now) \/ b = Enqueue(st, s, key)
  BY Zenon DEF RetryService
<1> HIDE DEF key
<1>3. b # RequestResync(st, now) /\ b # Overflow(st, now)
  <2>1. SUFFICES ASSUME b = RequestResync(st, now) \/ b = Overflow(st, now) PROVE FALSE
    BY Zenon
  <2>2. Requested(st, b, now)
    BY Zenon, <2>1, RequestFacts, OverflowFacts
  <2> QED BY <1>1, <2>2 DEF SameResync, Requested
<1>4. CASE b = Enqueue(st, s, key)
  BY ZenonT(60), <1>1, <1>4, EnqueueFacts
<1> QED
  BY Zenon, <1>2, <1>3, <1>4 DEF SameGenerations

\* The critical sections that leave the caches alone, but for the end of a pass.
LEMMA PlainMoves ==
    ASSUME TypeOK, ControlInv, PlainSteps, ~FinishResync
    PROVE  GenerationMoves(state, state')
<1>1. state \in State /\ clock \in Nat
  BY Zenon DEF TypeOK
<1>2. ASSUME SameGenerations(state, state') PROVE GenerationMoves(state, state')
  BY Zenon, <1>2 DEF GenerationMoves, SameGenerations, SameCached
<1>3. ASSUME SameCached(state, state'), Requested(state, state', clock)
      PROVE  GenerationMoves(state, state')
  BY Zenon, <1>3, RequestedIsOutstanding DEF GenerationMoves
<1>4. CASE state' = state
  BY Zenon, <1>2, <1>4 DEF SameGenerations
<1>5. ASSUME NEW s \in Pending(state), state' = KeyElapses(state, s)
      PROVE  GenerationMoves(state, state')
  <2>1. s \in Service
    BY Zenon DEF Pending
  <2> QED BY Zenon, <1>1, <1>2, <1>5, <2>1, KeyElapsesFacts
<1>6. CASE state' = RequestResync(state, clock)
  BY Zenon, <1>1, <1>2, <1>6, RequestFacts
<1>7. CASE state' = MarkNodesDirty(state)
  BY Zenon, <1>1, <1>2, <1>7, MarkNodesFacts
<1>8. ASSUME NEW s \in Service, NEW when \in {"due", "fresh"},
             state' = MarkServiceDirty(state, s, when, clock)
      PROVE  GenerationMoves(state, state')
  <2>1. /\ SameCached(state, state')
        /\ \/ SameResync(state, state') /\ Pending(state') = Pending(state) \cup {s}
           \/ Requested(state, state', clock)
    BY Zenon, <1>1, <1>8, MarkServiceFacts
  <2>2. CASE Requested(state, state', clock)
    BY Zenon, <1>3, <2>1, <2>2
  <2>3. CASE SameResync(state, state') /\ Pending(state') = Pending(state) \cup {s}
    <3>1. \A t \in Service \ {s} : state'.service_generation[t] = state.service_generation[t]
      BY <1>1, <1>8, <2>3, MarkOthers
    <3> QED BY Zenon, <2>1, <2>3, <3>1 DEF GenerationMoves
  <2> QED BY Zenon, <2>1, <2>2, <2>3
<1>9. CASE state' = AdvanceKeys(state)
  BY Zenon, <1>1, <1>2, <1>9, AdvanceFacts
<1>10. CASE state' = RequestResync(AdvanceKeys(state), clock)
  <2>1. AdvanceKeys(state) \in State /\ SameGenerations(state, AdvanceKeys(state))
    BY Zenon, <1>1, AdvanceFacts
  <2>2. SameGenerations(AdvanceKeys(state), state')
    BY Zenon, <1>1, <1>10, <2>1, RequestFacts
  <2> QED BY Zenon, <1>2, <2>1, <2>2 DEF SameGenerations
<1>11. ASSUME NEW flag \in BOOLEAN, state' = SetNodesDirty(state, flag)
       PROVE  GenerationMoves(state, state')
  BY Zenon, <1>1, <1>2, <1>11, SetNodesDirtyFacts
<1>12. CASE TakeKeys
  BY Zenon, <1>1, <1>2, <1>12, TakeFacts DEF TakeKeys
<1>13. ASSUME NEW s \in Service, NEW attempts \in Nat,
              state' = RetryService(state, s, attempts, clock)
       PROVE  GenerationMoves(state, state')
  <2>1. /\ SameCached(state, state')
        /\ SameResync(state, state') \/ Requested(state, state', clock)
    BY Zenon, <1>1, <1>13, RetryFacts
  <2>2. CASE SameResync(state, state')
    BY Zenon, <1>1, <1>2, <1>13, <2>2, RetryOthers
  <2> QED BY Zenon, <1>3, <2>1, <2>2
<1> QED
  BY Zenon, <1>4, <1>5, <1>6, <1>7, <1>8, <1>9, <1>10, <1>11, <1>12, <1>13 DEF PlainSteps

\* A shutdown is not taken back.
LEMMA CancelStays ==
    ASSUME [Next]_vars
    PROVE  cancelled => cancelled'
<1>1. ASSUME NEW s \in Service, NEW found, ChangeService(s, found)
      PROVE  cancelled => cancelled'
  BY Zenon, <1>1 DEF ChangeService
<1>2. ASSUME NEW n \in NodeSet, ChangeNodes(n)
      PROVE  cancelled => cancelled'
  BY Zenon, <1>2 DEF ChangeNodes
<1>3. CASE Tick \/ Cancel
  BY Zenon, <1>3 DEF Tick, Cancel
<1>4. CASE Connect
  BY Zenon, <1>4 DEF Connect, env
<1>5. CASE LoseStream
  BY Zenon, <1>5 DEF LoseStream
<1>6. CASE DispatchEvent
  BY Zenon, <1>6 DEF DispatchEvent, env
<1>7. CASE Signal \/ StopListener
  BY Zenon, <1>7 DEF Signal, StopListener, env
<1>8. CASE Elapse \/ BeginCycle \/ Step \/ Rest \/ UNCHANGED vars
  BY Zenon, <1>8, EventFrame
<1> QED
  BY Zenon, <1>1, <1>2, <1>3, <1>4, <1>5, <1>6, <1>7, <1>8 DEF Next, Daemon, Listener

\* A service leaves the cache by remove_service only.
LEMMA CachedStays ==
    ASSUME TypeOK, CacheSteps, NEW s \in Service, Cached(s)
    PROVE  Cached(s)' \/ RemoveService(s)
<1>1. metadata \in [Service -> Counts]
  BY Zenon DEF TypeOK
<1>2. CASE UNCHANGED caches
  BY Zenon, <1>2 DEF caches, Cached
<1>3. ASSUME NEW t \in Service, NEW spec \in ServiceSpec, ApplyService(t, spec)
      PROVE  Cached(s)'
  <2>1. metadata' = [metadata EXCEPT ![t] = [spec |-> spec, nodes |-> nodes]]
    BY Zenon, <1>3 DEF ApplyService
  <2> QED BY Zenon, <1>1, <2>1, ConstantsAssumption DEF Cached
<1>4. ASSUME NEW t \in Service, RemoveService(t)
      PROVE  Cached(s)' \/ RemoveService(s)
  <2>1. CASE t = s
    BY Zenon, <1>4, <2>1
  <2>2. CASE t # s
    <3>1. metadata' = [metadata EXCEPT ![t] = NoCounts]
      BY Zenon, <1>4 DEF RemoveService
    <3> QED BY Zenon, <1>1, <2>2, <3>1 DEF Cached
  <2> QED BY Zenon, <2>1, <2>2
<1>5. ASSUME NEW n \in NodeSet, ApplyNodes(n)
      PROVE  Cached(s)'
  <2>1. metadata'[s] = [metadata[s] EXCEPT !.nodes = n]
    BY Zenon, <1>5 DEF ApplyNodes
  <2> QED BY Zenon, <1>1, <2>1 DEF Cached, Counts
<1> QED
  BY Zenon, <1>2, <1>3, <1>4, <1>5 DEF CacheSteps

\* What a generation is kept for stays so until the service is removed or a pass
\* ends.
LEMMA ReportedKept ==
    ASSUME StateInv, BatchInv, CacheSteps, [Next]_vars, ~FinishResync,
           NEW s \in Service, Reported(s)
    PROVE  Reported(s)' \/ RemoveService(s)
<1>1. TypeOK /\ ControlInv /\ StepFrame /\ PendingKept
  BY Zenon, FrameStep, PendingStep DEF StateInv
<1>2. /\ state \in State /\ clock \in Nat /\ taken \in [Service -> Nat]
      /\ metadata \in [Service -> Counts] /\ s # NodeEvent
  BY Zenon, <1>1, ConstantsAssumption DEF TypeOK
<1>3. /\ Raised => ResyncOutstanding(state')
      /\ ResyncOutstanding(state) => ResyncOutstanding(state')
  <2>1. SameResync(state, state') \/ Requested(state, state', clock)
    BY Zenon, <1>1, ResyncStep
  <2> QED BY <1>1, <1>2, <2>1, RequestedIsOutstanding
          DEF State, SameResync, Requested, Raised, ResyncOutstanding
<1>4. CASE Cached(s)
  BY Zenon, <1>1, <1>4, CachedStays DEF Reported
<1>5. CASE cancelled
  BY Zenon, <1>5, CancelStays DEF Reported
<1>6. CASE ResyncOutstanding(state)
  BY Zenon, <1>3, <1>6 DEF Reported
<1>7. CASE s \in Pending(state)
  <2>1. CASE TakeKeys
    <3>1. CASE s \in KeysToTake(state)
      <4>1. taken'[s] = state.pending_set[s].attempts + 1
        BY Zenon, <2>1, <3>1 DEF TakeKeys
      <4>2. state.pending_set[s].attempts \in Nat
        BY Zenon, <1>2 DEF State, PendingKey
      <4>3. s \in Taken'
        BY <4>1, <4>2 DEF Taken
      <4> QED BY Zenon, <4>3 DEF Reported
    <3>2. CASE s \notin KeysToTake(state)
      <4>1. s \in Pending(state')
        BY Zenon, <1>2, <1>7, <2>1, <3>2, TakeFacts DEF TakeKeys
      <4> QED BY Zenon, <4>1 DEF Reported
    <3> QED BY Zenon, <3>1, <3>2
  <2>2. CASE ~TakeKeys
    BY Zenon, <1>1, <1>3, <1>7, <2>2 DEF PendingKept, Reported
  <2> QED BY Zenon, <2>1, <2>2
<1>8. CASE s \in Taken
  <2>1. CASE UNCHANGED taken
    BY Zenon, <1>8, <2>1 DEF Taken, Reported
  <2>2. ~TakeKeys
    BY Zenon, <1>8 DEF TakeKeys, BatchInv
  <2>3. CASE FinishKeys
    BY Zenon, <1>5, <1>8, <2>3 DEF FinishKeys
  <2>4. CASE FinishInspect
    BY Zenon, <2>1, <2>4 DEF FinishInspect
  <2>5. ASSUME NEW t \in Service, AnswerInspect(t)
        PROVE  Reported(s)'
    <3>1. taken' = [taken EXCEPT ![t] = 0] /\ inspected'.service = t
      BY Zenon, <2>5, InspectAnswers
    <3> QED BY Zenon, <1>2, <1>8, <3>1 DEF Taken, Reported
  <2>6. ASSUME NEW t \in Service, FailInspect(t)
        PROVE  Reported(s)'
    <3>1. /\ taken' = [taken EXCEPT ![t] = 0] /\ t \in Taken
          /\ state' = RetryService(state, t, taken[t] - 1, clock)
      BY Zenon, <2>6 DEF FailInspect
    <3>2. CASE t = s
      <4>1. taken[t] - 1 \in Nat
        BY <1>2, <3>1 DEF Taken
      <4>2. t \in Pending(state') \/ Requested(state, state', clock)
        BY <1>2, <3>1, <4>1, RetryFacts
      <4> QED BY Zenon, <1>1, <3>2, <4>2, RequestedIsOutstanding DEF Reported
    <3>3. CASE t # s
      BY Zenon, <1>2, <1>8, <3>1, <3>3 DEF Taken, Reported
    <3> QED BY Zenon, <3>2, <3>3
  <2> QED BY Zenon, <1>1, <2>1, <2>2, <2>3, <2>4, <2>5, <2>6 DEF StepFrame
<1>9. CASE inspected.service = s
  <2>1. pc = "inspected"
    BY Zenon, <1>2, <1>9 DEF BatchInv
  <2>2. CASE UNCHANGED inspected
    BY Zenon, <1>9, <2>2 DEF Reported
  <2>3. CASE FinishInspect
    <3>1. CASE inspected.found \in ServiceSpec /\ ApplyService(s, inspected.found)
      <4>1. metadata' = [metadata EXCEPT ![s] = [spec |-> inspected.found, nodes |-> nodes]]
        BY Zenon, <3>1 DEF ApplyService
      <4>2. Cached(s)'
        BY Zenon, <1>2, <3>1, <4>1, ConstantsAssumption DEF Cached
      <4> QED BY Zenon, <4>2 DEF Reported
    <3>2. CASE state' = RequestResync(state, clock)
      <4>1. Requested(state, state', clock)
        BY Zenon, <1>2, <3>2, RequestFacts
      <4> QED BY Zenon, <1>1, <4>1, RequestedIsOutstanding DEF Reported
    <3> QED BY Zenon, <1>9, <2>3, <3>1, <3>2 DEF FinishInspect, RequestResyncAfterPanic
  <2>4. /\ ~TakeKeys /\ ~FinishKeys
        /\ \A t \in Service : ~AnswerInspect(t) /\ ~FailInspect(t)
    BY Zenon, <2>1 DEF TakeKeys, FinishKeys, AnswerInspect, FailInspect
  <2> QED BY Zenon, <1>1, <2>2, <2>3, <2>4 DEF StepFrame
<1> QED
  BY Zenon, <1>4, <1>5, <1>6, <1>7, <1>8, <1>9 DEF Reported

\* GenerationsMirrorCache is kept by the end of a pass, which prunes.
LEMMA PruneStep ==
    ASSUME TypeOK, FinishResync, GenerationsMirrorCache, NEW s \in Service
    PROVE  /\ state'.service_generation[s].cached <=> Cached(s)'
           /\ state'.service_generation[s].value > 0 => Reported(s)'
<1> DEFINE pruned == PruneServiceGenerations(state)
<1>1. /\ state \in State /\ target \in Nat /\ pass_start \in Nat
      /\ state.service_generation[s].cached \in BOOLEAN
  BY Zenon DEF TypeOK, State, Generation
<1>2. state' = CompleteResync(pruned, target, pass_start) /\ UNCHANGED caches
  BY Zenon DEF FinishResync
<1>3. /\ pruned \in State /\ SameQueue(state, pruned)
      /\ pruned.service_generation[s] =
           IF state.service_generation[s].cached \/ s \in Pending(state)
           THEN state.service_generation[s] ELSE NoGeneration
  BY Zenon, <1>1, PruneFacts
<1> HIDE DEF pruned
<1>4. SameQueue(pruned, state') /\ SameGenerations(pruned, state')
  BY Zenon, <1>1, <1>2, <1>3, CompleteFacts
<1>5. Pending(state') = Pending(state)
  BY Zenon, <1>3, <1>4 DEF SameQueue, Pending
<1>6. state'.service_generation[s] = pruned.service_generation[s]
  BY Zenon, <1>4 DEF SameGenerations
<1>7. (state.service_generation[s].cached <=> Cached(s)) /\ (Cached(s)' <=> Cached(s))
  BY Zenon, <1>2 DEF GenerationsMirrorCache, caches, Cached
<1>8. CASE state.service_generation[s].cached \/ s \in Pending(state)
  <2>1. state'.service_generation[s] = state.service_generation[s]
    BY Zenon, <1>3, <1>6, <1>8
  <2> QED BY Zenon, <1>5, <1>7, <1>8, <2>1 DEF Reported
<1>9. CASE ~(state.service_generation[s].cached \/ s \in Pending(state))
  <2>1. state'.service_generation[s] = NoGeneration
    BY Zenon, <1>3, <1>6, <1>9
  <2>2. NoGeneration.cached = FALSE /\ NoGeneration.value = 0
    BY Zenon DEF NoGeneration
  <2>3. ~(0 > 0)
    OBVIOUS
  <2> QED BY Zenon, <1>7, <1>9, <2>1, <2>2, <2>3
<1> QED
  BY Zenon, <1>8, <1>9

GenerationInv == CoverInv /\ ReadyInv /\ GenerationsMirrorCache

\* GenerationInv is inductive.
LEMMA GenerationStep ==
    GenerationInv /\ [Next]_vars => GenerationInv'
<1> SUFFICES ASSUME GenerationInv, [Next]_vars PROVE GenerationInv'
  BY Zenon
<1>1. CoverInv /\ StateInv /\ TypeOK /\ ControlInv /\ BatchInv /\ ReadyInv
      /\ GenerationsMirrorCache
  BY Zenon DEF GenerationInv, CoverInv, StateInv
<1>2. CoverInv' /\ ReadyInv' /\ CacheSteps
  BY Zenon, <1>1, CoverInvStep, ReadyStep, CacheStep
<1>3. state \in State /\ metadata \in [Service -> Counts]
  BY Zenon, <1>1 DEF TypeOK
<1>4. SUFFICES ASSUME NEW s \in Service
               PROVE  /\ state'.service_generation[s].cached <=> Cached(s)'
                      /\ state'.service_generation[s].value > 0 => Reported(s)'
  BY Zenon, <1>2 DEF GenerationInv, GenerationsMirrorCache, Reported
<1>5. /\ state.service_generation[s].cached <=> Cached(s)
      /\ state.service_generation[s].value > 0 => Reported(s)
      /\ state.service_generation[s].cached \in BOOLEAN
  BY Zenon, <1>1, <1>3 DEF GenerationsMirrorCache, Reported, State, Generation
<1>6. CASE FinishResync
  BY Zenon, <1>1, <1>6, PruneStep
<1>7. CASE ~FinishResync /\ UNCHANGED caches /\ PlainSteps
  <2>1. GenerationMoves(state, state')
    BY Zenon, <1>1, <1>7, PlainMoves
  <2>2. Cached(s)' <=> Cached(s)
    BY Zenon, <1>7 DEF caches, Cached
  <2>3. state'.service_generation[s].cached = state.service_generation[s].cached
    BY Zenon, <2>1 DEF GenerationMoves, SameCached
  <2>4. Reported(s) => Reported(s)' \/ RemoveService(s)
    BY Zenon, <1>1, <1>2, <1>7, ReportedKept
  <2>5. RemoveService(s) /\ state'.service_generation[s].value > 0 => s \in Pending(state)
    BY Zenon, <1>3, ForgetValues DEF RemoveService
  <2>6. RemoveService(s) => Pending(state') = Pending(state)
    BY Zenon, <1>3, ForgetFacts DEF RemoveService, SameQueue, Pending
  <2> QED BY Zenon, <1>5, <2>1, <2>2, <2>3, <2>4, <2>5, <2>6 DEF GenerationMoves, Reported
<1>8. ASSUME ~FinishResync, NEW t \in Service, NEW spec \in ServiceSpec, ApplyService(t, spec)
      PROVE  /\ state'.service_generation[s].cached <=> Cached(s)'
             /\ state'.service_generation[s].value > 0 => Reported(s)'
  <2>1. /\ metadata' = [metadata EXCEPT ![t] = [spec |-> spec, nodes |-> nodes]]
        /\ state' = BumpServiceGeneration(state, t, TRUE)
    BY Zenon, <1>8 DEF ApplyService
  <2>2. /\ state'.service_generation[t].cached = TRUE
        /\ \A u \in Service \ {t} : state'.service_generation[u] = state.service_generation[u]
        /\ SameQueue(state, state')
    <3>1. ASSUME NEW flag \in BOOLEAN, state' = BumpServiceGeneration(state, t, flag)
          PROVE  /\ state'.service_generation[t].cached = flag
                 /\ \A u \in Service \ {t} :
                      state'.service_generation[u] = state.service_generation[u]
                 /\ SameQueue(state, state')
      BY <1>3, <3>1, BumpFacts
    <3> QED BY Zenon, <2>1, <3>1
  <2>3. CASE s = t
    <3>1. Cached(s)'
      BY Zenon, <1>3, <2>1, <2>3, ConstantsAssumption DEF Cached
    <3> QED BY Zenon, <2>2, <2>3, <3>1 DEF Reported
  <2>4. CASE s # t
    <3>1. metadata'[s] = metadata[s]
      BY Zenon, <1>3, <2>1, <2>4
    <3>2. state'.service_generation[s] = state.service_generation[s]
      BY Zenon, <2>2, <2>4
    <3>3. Cached(s)' <=> Cached(s)
      BY Zenon, <3>1 DEF Cached
    <3>4. Reported(s) => Reported(s)' \/ RemoveService(s)
      BY Zenon, <1>1, <1>2, <1>8, ReportedKept
    <3>5. RemoveService(s) /\ state'.service_generation[s].value > 0 => s \in Pending(state)
      BY Zenon, <1>3, ForgetValues DEF RemoveService
    <3>6. Pending(state') = Pending(state)
      BY Zenon, <2>2 DEF SameQueue, Pending
    <3> QED BY Zenon, <1>5, <3>2, <3>3, <3>4, <3>5, <3>6 DEF Reported
  <2> QED BY Zenon, <2>3, <2>4
<1>9. ASSUME ~FinishResync, NEW t \in Service, RemoveService(t)
      PROVE  /\ state'.service_generation[s].cached <=> Cached(s)'
             /\ state'.service_generation[s].value > 0 => Reported(s)'
  <2>1. /\ metadata' = [metadata EXCEPT ![t] = NoCounts]
        /\ state' = ForgetGeneration(state, t)
    BY Zenon, <1>9 DEF RemoveService
  <2>2. /\ state'.service_generation[s].cached = (s # t /\ state.service_generation[s].cached)
        /\ SameQueue(state, state')
    BY Zenon, <1>3, <2>1, ForgetFacts
  <2>3. /\ \A u \in Service \ {t} : state'.service_generation[u] = state.service_generation[u]
        /\ state'.service_generation[t].value > 0 => t \in Pending(state)
    BY <1>3, <2>1, ForgetValues
  <2>4. Pending(state') = Pending(state)
    BY Zenon, <2>2 DEF SameQueue, Pending
  <2>5. CASE s = t
    <3>1. ~Cached(s)'
      BY Zenon, <1>3, <2>1, <2>5 DEF Cached, NoCounts
    <3> QED BY Zenon, <2>2, <2>3, <2>4, <2>5, <3>1 DEF Reported
  <2>6. CASE s # t
    <3>1. metadata'[s] = metadata[s]
      BY Zenon, <1>3, <2>1, <2>6
    <3>2. state'.service_generation[s] = state.service_generation[s]
      BY Zenon, <2>3, <2>6
    <3>3. Cached(s)' <=> Cached(s)
      BY Zenon, <3>1 DEF Cached
    <3>4. Reported(s) => Reported(s)' \/ RemoveService(s)
      BY Zenon, <1>1, <1>2, <1>9, ReportedKept
    <3>5. RemoveService(s) /\ state'.service_generation[s].value > 0 => s \in Pending(state)
      BY Zenon, <1>3, ForgetValues DEF RemoveService
    <3> QED BY Zenon, <1>5, <2>4, <3>2, <3>3, <3>4, <3>5 DEF Reported
  <2> QED BY Zenon, <2>5, <2>6
<1>10. ASSUME ~FinishResync, NEW n \in NodeSet, ApplyNodes(n)
       PROVE  /\ state'.service_generation[s].cached <=> Cached(s)'
              /\ state'.service_generation[s].value > 0 => Reported(s)'
  <2>1. /\ metadata'[s] = IF Cached(s) THEN [metadata[s] EXCEPT !.nodes = n] ELSE NoCounts
        /\ state' = BumpNodeGeneration(state)
    BY Zenon, <1>10 DEF ApplyNodes
  <2>2. Cached(s)' <=> Cached(s)
    BY <1>3, <2>1 DEF Cached, NoCounts, Counts
  <2>3. SameGenerations(state, state') /\ SameQueue(state, state')
    BY Zenon, <1>3, <2>1, BumpNodeFacts
  <2>4. /\ state'.service_generation[s] = state.service_generation[s]
        /\ Pending(state') = Pending(state)
    BY Zenon, <2>3 DEF SameGenerations, SameQueue, Pending
  <2>5. Reported(s) => Reported(s)' \/ RemoveService(s)
    BY Zenon, <1>1, <1>2, <1>10, ReportedKept
  <2>6. RemoveService(s) /\ state'.service_generation[s].value > 0 => s \in Pending(state)
    BY Zenon, <1>3, ForgetValues DEF RemoveService
  <2> QED BY Zenon, <1>5, <2>2, <2>4, <2>5, <2>6 DEF Reported
<1> QED
  BY Zenon, <1>2, <1>6, <1>7, <1>8, <1>9, <1>10 DEF CacheSteps

\* GenerationInv holds initially.
LEMMA GenerationInvInit ==
    Init => GenerationInv
<1> SUFFICES ASSUME Init PROVE GenerationInv
  BY Zenon
<1>1. CoverInv /\ ReadyInv
  BY Zenon, CoverInvInit, SeriesInvInit DEF SeriesInv
<1>2. \A s \in Service : /\ state.service_generation[s] = NoGeneration
                         /\ metadata[s].spec = NoService
  BY Zenon DEF Init, InitialState, NoCounts
<1>3. NoGeneration.cached = FALSE /\ NoGeneration.value = 0 /\ ~(0 > 0)
  BY DEF NoGeneration
<1>4. GenerationsMirrorCache
  BY Zenon, <1>2, <1>3 DEF GenerationsMirrorCache, Cached
<1> QED
  BY Zenon, <1>1, <1>4 DEF GenerationInv

\* For any number of services and any interleaving of marks, inspects, removals,
\* overflows and resyncs: the flag the poller's snapshot relies on is the cache's,
\* and a generation that nothing else accounts for is not kept.
THEOREM GenerationsCorrect ==
    Spec => []GenerationsMirrorCache
<1>1. GenerationInv => GenerationsMirrorCache
  BY Zenon DEF GenerationInv
<1> QED
  BY <1>1, GenerationInvInit, GenerationStep, PTL DEF Spec

=============================================================================
