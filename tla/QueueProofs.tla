----------------------------- MODULE QueueProofs -----------------------------
(***************************************************************************)
(* The pending queue and the wake-ups, beside polls and without them, for  *)
(* every set of services, every cap and every bound: QueueWellFormed and   *)
(* NoLostWakeup of Reconciler; and that polls leave Resync implemented.    *)
(*                                                                         *)
(* NoLostWakeup speaks of work that has come, which timers and the passing *)
(* of time decide.  WakeInv does not: whatever is scheduled while the task *)
(* is parked is what the timer was armed for, unless a permit or the       *)
(* signal that leaves one is under way.                                    *)
(***************************************************************************)
EXTENDS PollProofs, FiniteSetTheorems

-----------------------------------------------------------------------------
(* The queue *)

\* The queued keys are finitely many.
LEMMA PendingFinite ==
    ASSUME NEW st
    PROVE  IsFiniteSet(Pending(st)) /\ Cardinality(Pending(st)) \in Nat
<1>1. Pending(st) \subseteq Service
  BY Zenon DEF Pending
<1> QED
  BY Zenon, <1>1, ServiceAssumption, FS_Subset, FS_CardinalityType

\* A step that lets at most one key in, and only under the cap, keeps the cap.
LEMMA CapKept ==
    ASSUME NEW a, NEW b, QueueMoves(a, b), Cardinality(Pending(a)) <= PendingCap
    PROVE  Cardinality(Pending(b)) <= PendingCap
<1>1. /\ IsFiniteSet(Pending(a)) /\ Cardinality(Pending(a)) \in Nat
      /\ IsFiniteSet(Pending(b)) /\ Cardinality(Pending(b)) \in Nat
  BY Zenon, PendingFinite
<1>2. CASE Pending(b) \subseteq Pending(a)
  <2>1. Cardinality(Pending(b)) <= Cardinality(Pending(a))
    BY Zenon, <1>1, <1>2, FS_Subset
  <2> QED BY <1>1, <2>1, BoundsAssumption
<1>3. ASSUME ~OverCap(a), NEW s \in Service \ Pending(a), Pending(b) = Pending(a) \cup {s}
      PROVE  Cardinality(Pending(b)) <= PendingCap
  <2>1. Cardinality(Pending(b)) = Cardinality(Pending(a)) + 1
    BY Zenon, <1>1, <1>3, FS_AddElement
  <2> QED BY <1>1, <1>3, <2>1, BoundsAssumption DEF OverCap
<1> QED
  BY Zenon, <1>2, <1>3 DEF QueueMoves

\* The two halves of the pending queue agree and stay under the cap, for any
\* number of services, any cap and any interleaving of marks, takes, retries and
\* overflows.
THEOREM QueueCorrect ==
    Spec => []QueueWellFormed
<1>1. Init => QueueWellFormed
  <2> SUFFICES ASSUME Init PROVE QueueWellFormed
    BY Zenon
  <2>1. QueueShape(state)
    BY Zenon, StateInvInit DEF StateInv
  <2>2. Pending(state) = {}
    BY Zenon, InitialFacts DEF Init
  <2>3. Cardinality(Pending(state)) = 0
    BY Zenon, <2>2, FS_EmptySet
  <2> QED BY <2>1, <2>3, BoundsAssumption DEF QueueWellFormed
<1>2. StateInv /\ QueueWellFormed /\ [Next]_vars => QueueWellFormed'
  BY Zenon, QueueStep, CapKept DEF StateInv, QueueWellFormed
<1> QED
  BY <1>1, <1>2, StateInvHolds, PTL DEF Spec

-----------------------------------------------------------------------------
(* Waking up *)

WakeInv ==
    pc = "parked" => wake \/ listener = "signal" \/ Scheduled \subseteq armed

\* What a step that leads to or leaves the task parked may do.
ParkedSteps ==
    pc' = "parked" =>
      \/ pc = "wait" /\ state' = state /\ armed' = Scheduled
      \/ /\ pc = "parked" /\ armed' = armed
         /\ wake => wake'
         /\ listener = "signal" => listener' = "signal" \/ wake'
         /\ \/ state' = state
            \/ \E s \in Pending(state) : state' = KeyElapses(state, s)
            \/ listener' = "signal"

\* The task parks with the timer armed for what is scheduled, and while it is
\* parked only the listener, who signals, and the passing of time touch the
\* shared state.
LEMMA ParkedStep ==
    ASSUME [Next]_vars
    PROVE  ParkedSteps
<1> USE DEF events, shared
<1>1. ASSUME NEW s \in Service, NEW found \in ServiceSpec \cup {NoService}, ChangeService(s, found)
      PROVE  ParkedSteps
  BY Zenon, <1>1 DEF ChangeService, ParkedSteps
<1>2. ASSUME NEW n \in NodeSet, ChangeNodes(n)
      PROVE  ParkedSteps
  BY Zenon, <1>2 DEF ChangeNodes, ParkedSteps
<1>3. CASE Tick
  BY Zenon, <1>3 DEF Tick, ParkedSteps
<1>4. CASE Cancel
  BY Zenon, <1>4 DEF Cancel, ParkedSteps
<1>5. ASSUME NEW s \in Service, ElapseKey(s)
      PROVE  ParkedSteps
  BY Zenon, <1>5 DEF ElapseKey, Pending, ParkedSteps
<1>6. ASSUME NEW t \in Timer, ElapseTimer(t)
      PROVE  ParkedSteps
  BY Zenon, <1>6 DEF ElapseTimer, ParkedSteps
<1>7. CASE Connect
  BY Zenon, <1>7 DEF Connect, ParkedSteps
<1>8. CASE LoseStream
  BY Zenon, <1>8 DEF LoseStream, ParkedSteps
<1>9. CASE DispatchEvent
  BY Zenon, <1>9 DEF DispatchEvent, ParkedSteps
<1>10. CASE Signal
  BY Zenon, <1>10 DEF Signal, ParkedSteps
<1>11. CASE StopListener
  BY Zenon, <1>11 DEF StopListener, ParkedSteps
<1>12. CASE BeginCycle
  BY Zenon, <1>12 DEF BeginCycle, ParkedSteps
<1>13. CASE StartNodes
  BY Zenon, <1>13 DEF StartNodes, ParkedSteps
<1>14. CASE AnswerNodes
  BY Zenon, <1>14 DEF AnswerNodes, ParkedSteps
<1>15. CASE FailNodes
  BY Zenon, <1>15 DEF FailNodes, ParkedSteps
<1>16. CASE FinishNodes
  BY Zenon, <1>16 DEF FinishNodes, ParkedSteps
<1>17. CASE StartResync
  BY Zenon, <1>17 DEF StartResync, ParkedSteps
<1>18. CASE AnswerServices
  BY Zenon, <1>18 DEF AnswerServices, ParkedSteps
<1>19. CASE AnswerResyncNodes
  BY Zenon, <1>19 DEF AnswerResyncNodes, ParkedSteps
<1>20. CASE FailResync
  BY Zenon, <1>20 DEF FailResync, ParkedSteps
<1>21. CASE ResyncApplyNodes
  BY Zenon, <1>21 DEF ResyncApplyNodes, ParkedSteps
<1>22. CASE FinishResync
  BY Zenon, <1>22 DEF FinishResync, ParkedSteps
<1>23. ASSUME NEW s \in Service, ResyncApplyService(s)
      PROVE  ParkedSteps
  BY Zenon, <1>23 DEF ResyncApplyService, ParkedSteps
<1>24. ASSUME NEW s \in Service, ResyncPanics(s)
      PROVE  ParkedSteps
  BY Zenon, <1>24 DEF ResyncPanics, ParkedSteps
<1>25. ASSUME NEW s \in Service, ResyncRemoveService(s)
      PROVE  ParkedSteps
  BY Zenon, <1>25 DEF ResyncRemoveService, ParkedSteps
<1>26. CASE TakeKeys
  BY Zenon, <1>26 DEF TakeKeys, ParkedSteps
<1>27. CASE FinishKeys
  BY Zenon, <1>27 DEF FinishKeys, ParkedSteps
<1>28. CASE FinishInspect
  BY Zenon, <1>28 DEF FinishInspect, ParkedSteps
<1>29. CASE AbandonCall
  BY Zenon, <1>29 DEF AbandonCall, ParkedSteps
<1>30. ASSUME NEW s \in Service, AnswerInspect(s)
      PROVE  ParkedSteps
  BY Zenon, <1>30 DEF AnswerInspect, ParkedSteps
<1>31. ASSUME NEW s \in Service, FailInspect(s)
      PROVE  ParkedSteps
  BY Zenon, <1>31 DEF FailInspect, ParkedSteps
<1>32. CASE Wait
  BY Zenon, <1>32 DEF Wait, ParkedSteps
<1>33. CASE TakePermit
  BY Zenon, <1>33 DEF TakePermit, ParkedSteps
<1>34. CASE TimerFires
  BY Zenon, <1>34 DEF TimerFires, ParkedSteps
<1>35. CASE Stop
  BY Zenon, <1>35 DEF Stop, ParkedSteps
<1>36. CASE Rest
  BY Zenon, <1>36 DEF Rest, ParkedSteps, vars
<1>37. CASE UNCHANGED vars
  BY Zenon, <1>37 DEF vars, ParkedSteps
<1> QED
  BY Zenon, <1>1, <1>2, <1>3, <1>4, <1>5, <1>6, <1>7, <1>8, <1>9, <1>10, <1>11, <1>12,
     <1>13, <1>14, <1>15, <1>16, <1>17, <1>18, <1>19, <1>20, <1>21, <1>22, <1>23, <1>24,
     <1>25, <1>26, <1>27, <1>28, <1>29, <1>30, <1>31, <1>32, <1>33, <1>34, <1>35, <1>36, <1>37
  DEF Next, Daemon, Elapse, Listener, Step

\* What is scheduled depends on the queue's keys, the node flag and the counters.
LEMMA ScheduledSame ==
    ASSUME state \in State,
           state' = state \/ \E s \in Pending(state) : state' = KeyElapses(state, s)
    PROVE  Scheduled' = Scheduled
<1>1. CASE state' = state
  BY Zenon, <1>1 DEF Scheduled
<1>2. ASSUME NEW s \in Pending(state), state' = KeyElapses(state, s)
      PROVE  Scheduled' = Scheduled
  <2>1. s \in Service
    BY Zenon DEF Pending
  <2>2. /\ Pending(state') = Pending(state)
        /\ SameNodes(state, state') /\ SameResync(state, state')
    BY Zenon, <1>2, <2>1, KeyElapsesFacts
  <2> QED BY Zenon, <2>2 DEF Scheduled, SameNodes, SameResync, ResyncOutstanding
<1> QED
  BY Zenon, <1>1, <1>2

\* WakeInv is inductive, with the type of the state.
LEMMA WakeStep ==
    TypeOK /\ WakeInv /\ [Next]_vars => WakeInv'
<1> SUFFICES ASSUME TypeOK, WakeInv, [Next]_vars, pc' = "parked"
             PROVE  wake' \/ listener' = "signal" \/ Scheduled' \subseteq armed'
  BY Zenon DEF WakeInv
<1>1. ParkedSteps /\ state \in State
  BY Zenon, ParkedStep DEF TypeOK
<1>2. CASE pc = "wait" /\ state' = state /\ armed' = Scheduled
  BY Zenon, <1>1, <1>2, ScheduledSame
<1>3. CASE /\ pc = "parked" /\ armed' = armed
           /\ wake => wake'
           /\ listener = "signal" => listener' = "signal" \/ wake'
           /\ state' = state \/ \E s \in Pending(state) : state' = KeyElapses(state, s)
  <2>1. Scheduled' = Scheduled
    BY Zenon, <1>1, <1>3, ScheduledSame
  <2> QED BY Zenon, <1>3, <2>1 DEF WakeInv
<1> QED
  BY Zenon, <1>1, <1>2, <1>3 DEF ParkedSteps

\* No wake-up is lost between the computation of the delay and the select, nor
\* while the task waits: work that has come finds a permit, a signal about to
\* leave one, or a timer armed for it.
THEOREM WakeupCorrect ==
    Spec => []NoLostWakeup
<1>1. Init => WakeInv
  BY Zenon DEF Init, WakeInv
<1>2. WakeInv => NoLostWakeup
  BY Zenon DEF WakeInv, NoLostWakeup
<1> QED
  BY <1>1, <1>2, WakeStep, TypeCorrect, PTL DEF Spec

-----------------------------------------------------------------------------
(* Beside polls *)

\* A poll request takes the task out of its wait and disarms the timer, and marks
\* services without a signal; no wake-up is lost by it.
THEOREM WakeupByPolls ==
    PSpec => []NoLostWakeup
<1>1. PInit => WakeInv
  BY Zenon DEF PInit, Init, WakeInv
<1>2. ASSUME PollInv, WakeInv, [PNext]_pvars
      PROVE  WakeInv'
  <2>1. TypeOK
    BY Zenon, <1>2 DEF PollInv, GenerationInv, CoverInv, StateInv
  <2>2. CASE [Next]_vars
    BY Zenon, <1>2, <2>1, <2>2, WakeStep
  <2>3. CASE ServeFrame
    <3>1. wake' = wake /\ listener' = listener
      BY Zenon, <2>3 DEF ServeFrame, events
    <3>2. pc' = "parked" => pc = "parked" /\ state' = state /\ armed' = armed
      BY Zenon, <2>3 DEF ServeFrame
    <3>3. state' = state => Scheduled' = Scheduled
      BY Zenon DEF Scheduled
    <3> QED BY Zenon, <1>2, <3>1, <3>2, <3>3 DEF WakeInv
  <2> QED BY Zenon, <1>2, <2>2, <2>3, PollSteps
<1>3. WakeInv => NoLostWakeup
  BY Zenon DEF WakeInv, NoLostWakeup
<1>4. PollInv /\ WakeInv /\ [PNext]_pvars => WakeInv'
  BY Zenon, <1>2
<1> QED
  BY <1>1, <1>3, <1>4, PollInvHolds, PTL DEF PSpec

\* What answering a poll does to the queue and the counters: a mark is one more way
\* in, under the cap, or one more way to overflow.
LEMMA ServedMoves ==
    ASSUME TypeOK, QueueShape(state), ServeFrame
    PROVE  /\ QueueShape(state') /\ QueueMoves(state, state')
           /\ SameResync(state, state') \/ Requested(state, state', clock)
           /\ UNCHANGED <<clock, target, pass_start>> /\ InPass' = InPass
<1>1. state \in State /\ clock \in Nat
  BY Zenon DEF TypeOK
<1>2. UNCHANGED <<clock, target, pass_start>>
  BY Zenon DEF ServeFrame, locals
<1>3. InPass' = InPass
  <2>1. pc' = pc \/ (pc \in {"top", "parked", "judge"} /\ pc' \in {"top", "judge"})
    BY Zenon DEF ServeFrame
  <2> QED BY <2>1 DEF InPass
<1>4. CASE state' = state
  <2>1. QueueMoves(state, state') /\ SameResync(state, state')
    BY Zenon, <1>4 DEF QueueMoves, SameResync
  <2> QED BY Zenon, <1>2, <1>3, <1>4, <2>1
<1>5. ASSUME NEW s \in Service, state' = MarkServiceDirty(state, s, "fresh", clock)
      PROVE  /\ QueueShape(state') /\ QueueMoves(state, state')
             /\ SameResync(state, state') \/ Requested(state, state', clock)
  <2>1. "fresh" \in {"due", "fresh"}
    OBVIOUS
  <2>2. QueueShape(state') /\ QueueMoves(state, state')
    BY Zenon, <1>1, <1>5, <2>1, MarkShape
  <2>3. SameResync(state, state') \/ Requested(state, state', clock)
    BY Zenon, <1>1, <1>5, <2>1, MarkServiceFacts
  <2> QED BY Zenon, <2>2, <2>3
<1> QED
  BY Zenon, <1>2, <1>3, <1>4, <1>5 DEF ServeFrame

\* Polls mark services too, from a list and without a signal: the queue stays one
\* bounded queue, and no key gets ahead of another.
THEOREM QueueByPolls ==
    PSpec => []QueueWellFormed /\ QueueIsFifo
<1>1. PInit => QueueWellFormed
  <2>1. Init => QueueShape(state) /\ Pending(state) = {}
    BY Zenon, StateInvInit, InitialFacts DEF StateInv, Init
  <2>2. ASSUME PInit PROVE QueueWellFormed
    <3>1. QueueShape(state) /\ Cardinality(Pending(state)) = 0
      BY Zenon, <2>1, <2>2, FS_EmptySet DEF PInit
    <3> QED BY <3>1, BoundsAssumption DEF QueueWellFormed
  <2> QED BY Zenon, <2>2
<1>2. ASSUME PollInv, [PNext]_pvars
      PROVE  QueueShape(state') /\ QueueMoves(state, state')
  <2>1. StateInv
    BY Zenon, <1>2 DEF PollInv, GenerationInv, CoverInv
  <2>2. CASE [Next]_vars
    BY Zenon, <2>1, <2>2, QueueStep DEF StateInv
  <2>3. CASE ServeFrame
    BY Zenon, <2>1, <2>3, ServedMoves DEF StateInv
  <2> QED BY Zenon, <1>2, <2>2, <2>3, PollSteps
<1>3. PollInv /\ QueueWellFormed /\ [PNext]_pvars => QueueWellFormed'
  BY Zenon, <1>2, CapKept DEF QueueWellFormed
<1>4. PollInv /\ [PNext]_pvars =>
        [\A s \in Pending(state) : s \in Pending(state') =>
           state'.pending_order[s] \subseteq state.pending_order[s]]_vars
  BY Zenon, <1>2 DEF QueueMoves
<1> QED
  BY <1>1, <1>3, <1>4, PollInvHolds, PTL DEF PSpec, QueueIsFifo

\* A mark made for a poll may overflow the queue and request a resync: the counters
\* still behave as Resync promises, and the outstanding time is set exactly while a
\* resync is outstanding.
THEOREM ResyncByPolls ==
    PSpec => ImplementsResync /\ []OutstandingSinceIsSet
<1>1. PInit => SinceInv /\ Resyncs!RInit
  BY Zenon, SinceInvInit, ResyncsInit DEF PInit
<1>2. ASSUME PollInv, SinceInv, ServeFrame
      PROVE  /\ OutstandingSinceIsSet' /\ (InPass' => 0 < pass_start' /\ pass_start' <= clock')
             /\ Resyncs!RNext \/ UNCHANGED Resyncs!rvars
  <2>1. /\ TypeOK /\ QueueShape(state)
        /\ OutstandingSinceIsSet /\ (InPass => 0 < pass_start /\ pass_start <= clock)
    BY Zenon, <1>2 DEF SinceInv, StateInv
  <2>2. /\ state.resync_requested \in Nat /\ state.resync_completed \in Nat
        /\ state.resync_outstanding_since \in Nat /\ target \in Nat /\ clock \in Nat /\ clock > 0
    BY <2>1 DEF TypeOK, State
  <2>3. /\ SameResync(state, state') \/ Requested(state, state', clock)
        /\ UNCHANGED <<clock, target, pass_start>> /\ InPass' = InPass
    BY Zenon, <1>2, <2>1, ServedMoves
  <2>4. OutstandingSinceIsSet'
    <3>1. CASE SameResync(state, state')
      BY Zenon, <2>1, <2>3, <3>1 DEF OutstandingSinceIsSet, SameResync, ResyncOutstanding
    <3>2. CASE Requested(state, state', clock)
      BY <2>1, <2>2, <2>3, <3>2 DEF OutstandingSinceIsSet, Requested, ResyncOutstanding, NoTime
    <3> QED BY Zenon, <2>3, <3>1, <3>2
  <2>5. CASE SameResync(state, state')
    <3>1. UNCHANGED Resyncs!rvars
      BY Zenon, <2>3, <2>5 DEF SameResync, Resyncs!rvars
    <3> QED BY Zenon, <2>1, <2>3, <2>4, <3>1
  <2>6. CASE Requested(state, state', clock)
    <3>1. Resyncs!RNext
      BY Zenon, <2>3, <2>6 DEF Requested, Resyncs!Requests, Resyncs!Request, Resyncs!RNext
    <3> QED BY Zenon, <2>1, <2>3, <2>4, <3>1
  <2> QED BY Zenon, <2>3, <2>5, <2>6
<1>3. PollInv /\ PollInv' /\ SinceInv /\ [PNext]_pvars =>
        SinceInv' /\ [Resyncs!RNext]_(Resyncs!rvars)
  <2> SUFFICES ASSUME PollInv, PollInv', SinceInv, [PNext]_pvars
               PROVE  SinceInv' /\ (Resyncs!RNext \/ UNCHANGED Resyncs!rvars)
    BY Zenon
  <2>1. CASE [Next]_vars
    BY Zenon, <2>1, SinceInvStep, ResyncsStep
  <2>2. CASE ServeFrame
    <3>1. StateInv'
      BY Zenon DEF PollInv, GenerationInv, CoverInv
    <3> QED BY Zenon, <1>2, <2>2, <3>1 DEF SinceInv
  <2> QED BY Zenon, <2>1, <2>2, PollSteps
<1>4. SinceInv => OutstandingSinceIsSet
  BY Zenon DEF SinceInv
<1> QED
  BY <1>1, <1>3, <1>4, PollInvHolds, PTL DEF PSpec, ImplementsResync, Resyncs!RSpec

=============================================================================
