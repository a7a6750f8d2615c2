--------------------------- MODULE EndpointProofs ----------------------------
(***************************************************************************)
(* What the two endpoints answer.                                          *)
(*                                                                         *)
(* /healthz (Health), for every window and every bound: an answer is never *)
(* better than the resyncs and polls that were served.                     *)
(*                                                                         *)
(* /metrics (Exposition), for every set of services, nodes and labels: a   *)
(* scrape shows whole families, and what the registry shows is what the    *)
(* caches want up to the writes that are still to do.                      *)
(***************************************************************************)
EXTENDS Health, Exposition, FiniteSetTheorems, SequenceTheorems, TLAPS

-----------------------------------------------------------------------------
(* /healthz *)

\* While a resync is outstanding, the time kept is no later than any request
\* that was not served and no earlier than the last moment nothing was left.
SinceOK ==
    requested > completed =>
        /\ 0 < behind_since /\ behind_since <= since
        /\ \A i \in 1 .. requested : i > completed => since <= request_times[i]

\* A pass serves requests that were counted before it started; the others came after.
PassOK ==
    target # 0 =>
        /\ completed < target
        /\ 0 < pass_start /\ behind_since <= pass_start
        /\ \A i \in 1 .. requested : i > target => pass_start <= request_times[i]

\* What an evaluation read may be old by now, but what it has not seen came
\* after the time it will judge by.
ReadOK ==
    probe = "state_read" /\ probe_state.completed > 0 =>
        /\ probe_state.completed <= completed /\ probe_state.requested <= requested
        /\ probe_state.requested > probe_state.completed =>
             0 < probe_behind /\ probe_behind <= probe_state.since
        /\ \A i \in 1 .. requested :
             /\ i > probe_state.requested => probe_now <= request_times[i]
             /\ i > probe_state.completed /\ i <= probe_state.requested =>
                  probe_state.since <= request_times[i]

PollOK == replied # 0 => poll_success <= replied

HealthInv ==
    /\ HealthTypeOK
    /\ SinceOK /\ PassOK /\ ReadOK /\ PollOK
    /\ HealthyHasServed /\ OutstandingIsUnbroken

-----------------------------------------------------------------------------
(* What the reconciler does to what an evaluation sees *)

\* The types, as the arithmetic below uses them.
Typed ==
    /\ requested \in Nat /\ completed \in Nat /\ target \in Nat /\ clock \in Nat
    /\ since \in Nat /\ pass_start \in Nat /\ behind_since \in Nat
    /\ since <= clock /\ pass_start <= clock /\ behind_since <= clock
    /\ requested > 0 /\ clock > 0 /\ completed <= requested /\ target <= requested
    /\ (since = 0 <=> requested = completed)
    /\ replied \in Nat /\ poll_success \in Nat /\ probe_now \in Nat /\ probe_behind \in Nat
    /\ replied <= clock /\ poll_success <= clock /\ probe_now <= clock /\ probe_behind <= clock
    /\ DOMAIN request_times = 1 .. requested
    /\ \A i \in 1 .. requested : request_times[i] \in Nat /\ request_times[i] <= clock
    /\ probe_state.requested \in Nat /\ probe_state.completed \in Nat
    /\ probe_state.since \in Nat
    /\ Window \in Nat

\* A window that starts no later ends no later.
LEMMA Later ==
    \A a, b, c, w \in Nat : a <= b /\ b + w < c => a + w < c /\ ~(c <= a + w)
  OBVIOUS

\* Typed follows from the type invariant.
LEMMA TypedFacts ==
    ASSUME HealthTypeOK
    PROVE  Typed
<1>1. /\ requested \in Nat /\ completed \in Nat /\ target \in Nat /\ clock \in Nat
      /\ since \in Nat /\ pass_start \in Nat /\ behind_since \in Nat
      /\ since <= clock /\ pass_start <= clock /\ behind_since <= clock
      /\ requested > 0 /\ clock > 0 /\ completed <= requested /\ target <= requested
      /\ (since = 0 <=> requested = completed)
  <2>1. /\ requested \in Nat \ {0} /\ clock \in Nat \ {0}
        /\ completed \in 0 .. requested /\ target \in 0 .. requested
        /\ since \in 0 .. clock /\ pass_start \in 0 .. clock /\ behind_since \in 0 .. clock
    BY Zenon DEF HealthTypeOK
  <2>2. since = 0 <=> requested = completed
    BY Zenon DEF HealthTypeOK
  <2> QED
    BY <2>1, <2>2
<1>2. /\ replied \in Nat /\ poll_success \in Nat /\ probe_now \in Nat /\ probe_behind \in Nat
      /\ replied <= clock /\ poll_success <= clock /\ probe_now <= clock /\ probe_behind <= clock
  <2>1. /\ replied \in 0 .. clock /\ poll_success \in 0 .. clock /\ probe_now \in 0 .. clock
        /\ probe_behind \in 0 .. clock
    BY Zenon DEF HealthTypeOK
  <2> QED
    BY <1>1, <2>1
<1>3. request_times \in [1 .. requested -> 1 .. clock]
  BY Zenon DEF HealthTypeOK
<1>4. \A i \in 1 .. requested : request_times[i] \in 1 .. clock
  BY Zenon, <1>3
<1>5. \A i \in 1 .. requested : request_times[i] \in Nat /\ request_times[i] <= clock
  BY <1>1, <1>4
<1>6. DOMAIN request_times = 1 .. requested
  BY Zenon, <1>3
<1>7. /\ probe_state.requested \in Nat /\ probe_state.completed \in Nat
      /\ probe_state.since \in Nat
  BY Zenon DEF HealthTypeOK
<1> QED
  BY Zenon, <1>1, <1>2, <1>5, <1>6, <1>7, HealthAssumption DEF Typed

\* The counters and the clock only grow, and a request is recorded at its time.
Grows ==
    /\ requested' \in Nat /\ requested' >= requested
    /\ completed' \in Nat /\ completed' >= completed /\ completed' <= requested'
    /\ clock' \in Nat /\ clock' >= clock
    /\ request_times' \in [1 .. requested' -> 1 .. clock']
    /\ \A i \in 1 .. requested : request_times'[i] = request_times[i]
    /\ \A i \in 1 .. requested' : i > requested => request_times'[i] = clock

\* The five steps of a reconciler, each as an assignment to the variables of Resync.
LEMMA ReconcileCases ==
    ASSUME HealthInv, Reconcile
    PROVE  /\ Recorded
           /\ UNCHANGED <<bound, replied, poll_success, evaluation>>
           /\ Request \/ BeginPass \/ FinishPass \/ AbandonPass \/ RTick
  BY Zenon DEF Reconcile

\* Every step of the reconciler is monotone in what the history records.
LEMMA ReconcileGrows ==
    ASSUME HealthInv, Reconcile
    PROVE  Grows
<1>1. /\ requested \in Nat /\ completed \in Nat /\ target \in Nat /\ clock \in Nat
      /\ requested > 0 /\ clock > 0 /\ completed <= requested /\ target <= requested
      /\ request_times \in [1 .. requested -> 1 .. clock]
  <2>1. HealthTypeOK /\ request_times \in [1 .. requested -> 1 .. clock]
    BY Zenon DEF HealthInv, HealthTypeOK
  <2> QED BY Zenon, <2>1, TypedFacts DEF Typed
<1>2. /\ requested' \in Nat /\ requested' >= requested
      /\ completed' \in Nat /\ completed' >= completed /\ completed' <= requested'
      /\ clock' \in Nat /\ clock' >= clock
  BY <1>1, ReconcileCases
  DEF Request, Requests, BeginPass, FinishPass, AbandonPass, RTick
<1>3. request_times' = [i \in 1 .. requested' |->
                          IF i \in 1 .. requested THEN request_times[i] ELSE clock]
  BY Zenon, ReconcileCases DEF Recorded
<1>4. \A i \in 1 .. requested : i \in 1 .. requested' /\ request_times[i] \in 1 .. clock'
  BY <1>1, <1>2
<1>5. clock \in 1 .. clock'
  BY <1>1, <1>2
<1>6. request_times' \in [1 .. requested' -> 1 .. clock']
  BY Zenon, <1>3, <1>4, <1>5
<1>7. \A i \in 1 .. requested : request_times'[i] = request_times[i]
  BY Zenon, <1>3, <1>4
<1>8. \A i \in 1 .. requested' : i > requested => request_times'[i] = clock
  BY <1>1, <1>3
<1> QED
  BY Zenon, <1>2, <1>6, <1>7, <1>8 DEF Grows

\* The time kept stays between the history's two times.
LEMMA ReconcileSince ==
    ASSUME HealthInv, Reconcile
    PROVE  SinceOK' /\ PassOK'
<1>1. Typed
  BY Zenon, TypedFacts DEF HealthInv
<1>2. Grows /\ SinceOK /\ PassOK
  BY Zenon, ReconcileGrows DEF HealthInv
<1>3. behind_since' = IF requested' = completed' THEN 0
                      ELSE IF requested = completed THEN clock ELSE behind_since
  BY Zenon, ReconcileCases DEF Recorded
<1>4. ASSUME Requests, UNCHANGED clock,
             \/ UNCHANGED <<target, pass_start>>
             \/ target' = 0
      PROVE  SinceOK' /\ PassOK'
  <2>1. /\ requested' = requested + 1 /\ completed' = completed
        /\ since' = IF requested = completed THEN clock ELSE since
        /\ behind_since' = IF requested = completed THEN clock ELSE behind_since
    BY <1>1, <1>3, <1>4 DEF Requests, Typed
  <2>2. \A i \in 1 .. requested' : i \in Nat /\ (i \in 1 .. requested \/ request_times'[i] = clock)
    BY <1>1, <1>2, <2>1 DEF Typed, Grows
  <2>3. /\ 0 < behind_since' /\ behind_since' <= since'
    BY <1>1, <1>2, <2>1 DEF Typed, SinceOK
  <2>4. ASSUME NEW i \in 1 .. requested', i > completed
        PROVE  since' <= request_times'[i]
    <3>1. CASE request_times'[i] = clock
      BY <1>1, <2>1, <3>1 DEF Typed
    <3>2. CASE i \in 1 .. requested
      BY <1>1, <1>2, <2>1, <2>4, <3>2 DEF Typed, Grows, SinceOK
    <3> QED BY Zenon, <2>2, <3>1, <3>2
  <2>5. SinceOK'
    BY Zenon, <2>1, <2>3, <2>4 DEF SinceOK
  <2>6. CASE target' = 0
    BY Zenon, <2>5, <2>6 DEF PassOK
  <2>7. CASE UNCHANGED <<target, pass_start>> /\ target # 0
    <3>1. /\ completed < target /\ 0 < pass_start /\ behind_since <= pass_start
          /\ \A i \in 1 .. requested : i > target => pass_start <= request_times[i]
      BY Zenon, <1>2, <2>7 DEF PassOK
    <3>2. ASSUME NEW i \in 1 .. requested', i > target
          PROVE  pass_start <= request_times'[i]
      BY Zenon, <1>1, <1>2, <2>2, <3>1, <3>2 DEF Typed, Grows
    <3>3. behind_since' = behind_since
      BY <1>1, <2>1, <3>1 DEF Typed
    <3> QED BY Zenon, <2>1, <2>5, <2>7, <3>1, <3>2, <3>3 DEF PassOK
  <2> QED BY Zenon, <1>4, <2>6, <2>7
<1>5. CASE BeginPass
  BY <1>1, <1>2, <1>3, <1>5 DEF Typed, BeginPass, SinceOK, PassOK, Grows
<1>6. CASE FinishPass
  BY <1>1, <1>2, <1>3, <1>6 DEF Typed, FinishPass, SinceOK, PassOK, Grows
<1>7. CASE AbandonPass
  <2>1. CASE UNCHANGED <<requested, completed, since>>
    BY <1>1, <1>2, <1>3, <1>7, <2>1 DEF Typed, AbandonPass, SinceOK, PassOK, Grows
  <2>2. CASE Requests
    BY Zenon, <1>4, <1>7, <2>2 DEF AbandonPass
  <2> QED BY Zenon, <1>7, <2>1, <2>2 DEF AbandonPass
<1>8. CASE RTick
  BY <1>1, <1>2, <1>3, <1>8 DEF Typed, RTick, SinceOK, PassOK, Grows
<1> QED
  BY Zenon, ReconcileCases, <1>4, <1>5, <1>6, <1>7, <1>8 DEF Request

\* The reconciler keeps every variable in its type.
LEMMA ReconcileType ==
    ASSUME HealthInv, Reconcile
    PROVE  HealthTypeOK'
<1>1. Typed
  BY Zenon, TypedFacts DEF HealthInv
<1>2. Grows /\ PassOK
  BY Zenon, ReconcileGrows DEF HealthInv
<1>3. behind_since' = IF requested' = completed' THEN 0
                      ELSE IF requested = completed THEN clock ELSE behind_since
  BY Zenon, ReconcileCases DEF Recorded
<1>4. /\ target' \in 0 .. requested'
      /\ since' \in 0 .. clock' /\ pass_start' \in 0 .. clock'
      /\ (since' = 0 <=> requested' = completed')
  <2>1. CASE Request
    BY <1>1, <2>1 DEF Typed, Request, Requests
  <2>2. CASE BeginPass
    BY <1>1, <2>2 DEF Typed, BeginPass
  <2>3. CASE FinishPass
    BY <1>1, <1>2, <2>3 DEF Typed, FinishPass, PassOK
  <2>4. CASE AbandonPass
    BY <1>1, <2>4 DEF Typed, AbandonPass, Requests
  <2>5. CASE RTick
    BY <1>1, <2>5 DEF Typed, RTick
  <2> QED BY Zenon, ReconcileCases, <2>1, <2>2, <2>3, <2>4, <2>5
<1>5. behind_since' \in 0 .. clock'
  BY <1>1, <1>2, <1>3 DEF Typed, Grows
<1>6. /\ requested' \in Nat \ {0} /\ clock' \in Nat \ {0} /\ completed' \in 0 .. requested'
      /\ request_times' \in [1 .. requested' -> 1 .. clock']
  <2>1. /\ requested \in Nat /\ requested > 0 /\ requested' \in Nat /\ requested' >= requested
        /\ clock \in Nat /\ clock > 0 /\ clock' \in Nat /\ clock' >= clock
        /\ completed' \in Nat /\ completed' <= requested'
        /\ request_times' \in [1 .. requested' -> 1 .. clock']
    BY Zenon, <1>1, <1>2 DEF Typed, Grows
  <2>2. requested' \in Nat \ {0} /\ clock' \in Nat \ {0} /\ completed' \in 0 .. requested'
    BY <2>1
  <2> QED BY Zenon, <2>1, <2>2
<1>7. /\ bound' = bound /\ probe' = probe /\ probe_state' = probe_state /\ answer' = answer
      /\ replied' = replied /\ poll_success' = poll_success /\ probe_now' = probe_now
      /\ probe_behind' = probe_behind
  BY Zenon, ReconcileCases DEF evaluation
<1>8. {replied', poll_success', probe_now', probe_behind'} \subseteq 0 .. clock'
  <2>1. {replied, poll_success, probe_now, probe_behind} \subseteq 0 .. clock
    BY Zenon DEF HealthInv, HealthTypeOK
  <2> QED BY <1>1, <1>2, <1>7, <2>1 DEF Typed, Grows
<1>9. /\ bound' \in BOOLEAN /\ probe' \in {"idle", "now_read", "state_read"}
      /\ probe_state' \in [requested : Nat, completed : Nat, since : Nat]
      /\ answer' \in Reasons \cup {"ok", "none"}
  BY Zenon, <1>7 DEF HealthInv, HealthTypeOK
<1> QED
  BY Zenon, <1>4, <1>5, <1>6, <1>8, <1>9 DEF HealthTypeOK

\* What an evaluation has read, or has answered, stays true while the reconciler goes on.
LEMMA ReconcileRead ==
    ASSUME HealthInv, Reconcile
    PROVE  ReadOK' /\ PollOK' /\ HealthyHasServed' /\ OutstandingIsUnbroken'
<1>1. Typed
  BY Zenon, TypedFacts DEF HealthInv
<1>2. Grows /\ ReadOK /\ PollOK /\ HealthyHasServed /\ OutstandingIsUnbroken
  BY Zenon, ReconcileGrows DEF HealthInv
<1>3. /\ probe' = probe /\ probe_state' = probe_state /\ answer' = answer
      /\ replied' = replied /\ poll_success' = poll_success /\ probe_now' = probe_now
      /\ probe_behind' = probe_behind
  BY Zenon, ReconcileCases DEF evaluation
<1>4. \A i \in 1 .. requested' : i > requested => probe_now <= request_times'[i]
  BY Zenon, <1>1, <1>2 DEF Typed, Grows
<1>5. \A i \in 1 .. requested' :
        i \in Nat /\ (i \in 1 .. requested \/ i > requested)
  BY <1>1, <1>2 DEF Typed, Grows
<1>6. ReadOK'
  <2> SUFFICES ASSUME probe = "state_read", probe_state.completed > 0
               PROVE  ReadOK'
    BY Zenon, <1>3 DEF ReadOK
  <2>1. /\ probe_state.completed <= completed /\ probe_state.requested <= requested
        /\ probe_state.requested > probe_state.completed =>
             0 < probe_behind /\ probe_behind <= probe_state.since
    BY Zenon, <1>2 DEF ReadOK
  <2>2. probe_state.completed <= completed' /\ probe_state.requested <= requested'
    <3>1. /\ {probe_state.completed, completed, completed'} \subseteq Nat
          /\ {probe_state.requested, requested, requested'} \subseteq Nat
          /\ completed' >= completed /\ requested' >= requested
      BY Zenon, <1>1, <1>2 DEF Typed, Grows
    <3> QED BY <2>1, <3>1
  <2>3. ASSUME NEW i \in 1 .. requested'
        PROVE  /\ i > probe_state.requested => probe_now <= request_times'[i]
               /\ i > probe_state.completed /\ i <= probe_state.requested =>
                    probe_state.since <= request_times'[i]
    <3>1. CASE i \in 1 .. requested
      BY Zenon, <1>2, <3>1 DEF ReadOK, Grows
    <3>2. CASE i > requested
      BY <1>1, <1>4, <1>5, <2>1, <2>3, <3>2 DEF Typed
    <3> QED BY Zenon, <1>5, <3>1, <3>2
  <2> QED BY Zenon, <1>3, <2>1, <2>2, <2>3 DEF ReadOK
<1>7. PollOK' /\ OutstandingIsUnbroken'
  BY Zenon, <1>2, <1>3 DEF PollOK, OutstandingIsUnbroken, Answered
<1>8. HealthyHasServed'
  <2>1. DOMAIN request_times' = 1 .. requested'
    BY Zenon, <1>2 DEF Grows
  <2>2. ASSUME Answered("ok"), NEW i \in 1 .. requested', request_times'[i] + Window < probe_now
        PROVE  i <= completed'
    <3>1. CASE i \in 1 .. requested
      <4>1. i <= completed
        BY Zenon, <1>1, <1>2, <2>2, <3>1 DEF Typed, HealthyHasServed, Grows
      <4>2. i \in Nat /\ completed \in Nat /\ completed' \in Nat /\ completed <= completed'
        BY Zenon, <1>1, <1>2, <1>5 DEF Typed, Grows
      <4> QED BY <4>1, <4>2
    <3>2. CASE i > requested
      BY <1>1, <1>2, <1>4, <2>2, <3>2 DEF Typed, Grows
    <3> QED BY Zenon, <1>5, <3>1, <3>2
  <2> QED
    BY <1>1, <1>2, <1>3, <2>1, <2>2 DEF Typed, HealthyHasServed, Answered, Grows
<1> QED
  BY Zenon, <1>6, <1>7, <1>8

-----------------------------------------------------------------------------
(* The evaluation *)

\* An evaluation that answers "ok" missed no request older than the window, and
\* one that answers "resync outstanding" read counters that were behind for longer.
LEMMA HealthzStep ==
    ASSUME HealthInv, healthz
    PROVE  HealthyHasServed' /\ OutstandingIsUnbroken'
<1>1. Typed
  BY Zenon, TypedFacts DEF HealthInv
<1>2. /\ probe = "state_read"
      /\ answer' = Verdict(probe_now, probe_state, poll_success)
      /\ completed' = completed /\ request_times' = request_times /\ probe_now' = probe_now
      /\ poll_success' = poll_success /\ probe_behind' = probe_behind
  BY Zenon DEF healthz, rvars, history
<1>3. ReadOK
  BY Zenon DEF HealthInv
<1>4. ASSUME answer' = "ok"
      PROVE  /\ probe_state.completed > 0
             /\ 0 < poll_success /\ probe_now <= poll_success + Window
             /\ probe_state.requested > probe_state.completed =>
                  probe_now <= probe_state.since + Window
  BY <1>1, <1>2, <1>4 DEF Typed, Verdict
<1>5. ASSUME answer' = "resync outstanding"
      PROVE  /\ probe_state.completed > 0 /\ probe_state.requested > probe_state.completed
             /\ probe_now > probe_state.since + Window
  <2>1. /\ probe_state.completed # 0 /\ probe_state.requested > probe_state.completed
        /\ probe_now > probe_state.since + Window
    BY Zenon, <1>2, <1>5 DEF Verdict
  <2> QED BY <1>1, <2>1 DEF Typed
<1>6. ASSUME answer' = "ok", NEW i \in 1 .. requested, request_times[i] + Window < probe_now
      PROVE  i <= completed
  <2>1. /\ probe_state.completed <= completed
        /\ i > probe_state.requested => probe_now <= request_times[i]
        /\ i > probe_state.completed /\ i <= probe_state.requested =>
             probe_state.since <= request_times[i]
    BY Zenon, <1>2, <1>3, <1>4, <1>6 DEF ReadOK
  <2>2. i \in Nat /\ request_times[i] \in Nat
    BY <1>1 DEF Typed
  <2>3. ~(probe_now <= request_times[i])
    BY <1>1, <1>6, <2>2 DEF Typed
  <2>4. CASE i > probe_state.completed /\ i <= probe_state.requested
    <3>1. probe_state.requested > probe_state.completed
      BY <1>1, <2>2, <2>4 DEF Typed
    <3>2. probe_now <= probe_state.since + Window /\ probe_state.since <= request_times[i]
      BY Zenon, <1>4, <1>6, <2>1, <2>4, <3>1
    <3> QED BY Zenon, <1>1, <1>6, <2>2, <3>2, Later DEF Typed
  <2>5. CASE i <= probe_state.completed
    BY <1>1, <2>1, <2>2, <2>5 DEF Typed
  <2> QED BY <1>1, <2>1, <2>2, <2>3, <2>4, <2>5 DEF Typed
<1>7. HealthyHasServed'
  BY <1>1, <1>2, <1>3, <1>4, <1>6 DEF Typed, HealthyHasServed, Answered, ReadOK
<1>8. OutstandingIsUnbroken'
  <2>1. ASSUME answer' = "resync outstanding"
        PROVE  0 < probe_behind /\ probe_behind + Window < probe_now
    <3>1. 0 < probe_behind /\ probe_behind <= probe_state.since
      BY Zenon, <1>2, <1>3, <1>5, <2>1 DEF ReadOK
    <3>2. probe_state.since + Window < probe_now
      BY Zenon, <1>1, <1>5, <2>1 DEF Typed
    <3> QED BY Zenon, <1>1, <3>1, <3>2, Later DEF Typed
  <2> QED BY Zenon, <1>2, <2>1 DEF OutstandingIsUnbroken, Answered
<1> QED
  BY Zenon, <1>7, <1>8

\* An evaluation reads the counters of one moment, under the lock.
LEMMA ReadStep ==
    ASSUME HealthInv, ReadResyncState
    PROVE  ReadOK'
<1>1. Typed /\ SinceOK
  BY Zenon, TypedFacts DEF HealthInv
<1>2. /\ probe_behind' = behind_since /\ requested' = requested /\ completed' = completed
      /\ request_times' = request_times
  BY Zenon DEF ReadResyncState, rvars, history
<1>3. \/ probe_state' = NoState
      \/ probe_state' = [requested |-> requested, completed |-> completed, since |-> since]
  BY Zenon DEF ReadResyncState
<1>4. CASE probe_state' = NoState
  BY <1>4 DEF NoState, ReadOK
<1>5. CASE probe_state' = [requested |-> requested, completed |-> completed, since |-> since]
  <2>1. /\ probe_state'.requested = requested /\ probe_state'.completed = completed
        /\ probe_state'.since = since
    BY Zenon, <1>5
  <2> QED BY <1>1, <1>2, <2>1 DEF Typed, SinceOK, ReadOK
<1> QED
  BY Zenon, <1>3, <1>4, <1>5

-----------------------------------------------------------------------------
(* Theorems *)

\* The exporter starts with one resync requested and nothing answered.
LEMMA HealthInvInit ==
    HInit => HealthInv
<1> SUFFICES ASSUME HInit PROVE HealthInv
  BY Zenon
<1>1. /\ requested = 1 /\ completed = 0 /\ since = 1 /\ target = 0 /\ pass_start = 0 /\ clock = 1
      /\ bound = FALSE /\ replied = 0 /\ poll_success = 0
      /\ probe = "idle" /\ probe_now = 0 /\ probe_state = NoState /\ answer = "none"
      /\ request_times = [i \in 1 .. 1 |-> 1] /\ behind_since = 1 /\ probe_behind = 0
  BY Zenon DEF HInit, RInit
<1>2. HealthTypeOK
  <2>1. probe_state \in [requested : Nat, completed : Nat, since : Nat]
    BY Zenon, <1>1 DEF NoState
  <2>2. request_times \in [1 .. requested -> 1 .. clock]
    BY <1>1
  <2>3. /\ bound \in BOOLEAN /\ probe \in {"idle", "now_read", "state_read"}
        /\ answer \in Reasons \cup {"ok", "none"}
    BY Zenon, <1>1
  <2> QED BY <1>1, <2>1, <2>2, <2>3 DEF HealthTypeOK
<1>3. SinceOK /\ PassOK /\ ReadOK /\ PollOK
  BY <1>1 DEF SinceOK, PassOK, ReadOK, PollOK
<1>4. HealthyHasServed /\ OutstandingIsUnbroken
  BY Zenon, <1>1 DEF HealthyHasServed, OutstandingIsUnbroken, Answered
<1> QED
  BY Zenon, <1>2, <1>3, <1>4 DEF HealthInv

\* Every step of the reconciler, the poller and an evaluation preserves it.
LEMMA HealthInvStep ==
    HealthInv /\ [HNext]_hvars => HealthInv'
<1> SUFFICES ASSUME HealthInv, [HNext]_hvars PROVE HealthInv'
  BY Zenon
<1>1. CASE Reconcile
  BY Zenon, <1>1, ReconcileType, ReconcileSince, ReconcileRead DEF HealthInv
<1> DEFINE Kept == UNCHANGED <<requested, completed, since, target, pass_start, clock>>
                   /\ UNCHANGED <<request_times, behind_since>>
<1>2. CASE Bind
  <2>1. Kept /\ UNCHANGED <<replied, poll_success, probe, probe_now, probe_state, answer,
                            probe_behind>> /\ bound' = TRUE
    BY Zenon, <1>2 DEF Bind, rvars, evaluation, history
  <2> QED
    BY ZenonT(60), <2>1 DEF HealthInv, HealthTypeOK, SinceOK, PassOK, ReadOK, PollOK,
                            HealthyHasServed, OutstandingIsUnbroken, Answered
<1>3. CASE PollReplied
  <2>1. Kept /\ UNCHANGED <<bound, poll_success, probe, probe_now, probe_state, answer,
                            probe_behind>> /\ replied' = clock
    BY Zenon, <1>3 DEF PollReplied, rvars, evaluation, history
  <2>2. clock \in 0 .. clock /\ poll_success <= clock
    BY TypedFacts DEF HealthInv, Typed
  <2>3. HealthTypeOK'
    BY Zenon, <2>1, <2>2 DEF HealthInv, HealthTypeOK
  <2> QED
    BY Zenon, <2>1, <2>2, <2>3 DEF HealthInv, SinceOK, PassOK, ReadOK, PollOK, HealthyHasServed,
                            OutstandingIsUnbroken, Answered
<1>4. CASE mark_poll_ok
  <2>1. Kept /\ UNCHANGED <<bound, probe, probe_now, probe_state, answer, probe_behind>>
        /\ replied # 0 /\ poll_success' = replied /\ replied' = 0
    BY Zenon, <1>4 DEF mark_poll_ok, rvars, evaluation, history
  <2>2. poll_success \in Nat /\ replied \in Nat /\ probe_now \in Nat /\ Window \in Nat
        /\ poll_success <= replied
    BY <2>1, HealthAssumption DEF HealthInv, HealthTypeOK, PollOK
  <2>3. HealthyHasServed'
    BY <2>1, <2>2 DEF HealthInv, HealthyHasServed, Answered
  <2>4. HealthTypeOK'
    BY <2>1 DEF HealthInv, HealthTypeOK
  <2> QED
    BY Zenon, <2>1, <2>3, <2>4 DEF HealthInv, SinceOK, PassOK, ReadOK, PollOK,
                            OutstandingIsUnbroken, Answered
<1>5. CASE snapshot_now
  <2>1. Kept /\ UNCHANGED <<bound, replied, poll_success, probe_state, answer, probe_behind>>
        /\ probe' = "now_read" /\ probe_now' = clock
    BY Zenon, <1>5 DEF snapshot_now, rvars, history
  <2>2. clock \in 0 .. clock
    BY TypedFacts DEF HealthInv, Typed
  <2>3. HealthTypeOK'
    BY Zenon, <2>1, <2>2 DEF HealthInv, HealthTypeOK
  <2> QED
    BY Zenon, <2>1, <2>3 DEF HealthInv, SinceOK, PassOK, ReadOK, PollOK, HealthyHasServed,
                      OutstandingIsUnbroken, Answered
<1>6. CASE ReadResyncState
  <2>1. Kept /\ UNCHANGED <<bound, replied, poll_success, probe_now, answer>>
        /\ probe' = "state_read" /\ probe_behind' = behind_since
    BY Zenon, <1>6 DEF ReadResyncState, rvars, history
  <2>2. probe_state' \in [requested : Nat, completed : Nat, since : Nat]
    BY <1>6 DEF ReadResyncState, NoState, HealthInv, HealthTypeOK
  <2>3. HealthTypeOK'
    BY Zenon, <2>1, <2>2 DEF HealthInv, HealthTypeOK
  <2> QED
    BY Zenon, <1>6, <2>1, <2>3, ReadStep
    DEF HealthInv, SinceOK, PassOK, PollOK, HealthyHasServed, OutstandingIsUnbroken, Answered
<1>7. CASE healthz
  <2>1. Kept /\ UNCHANGED <<bound, replied, poll_success, probe_now, probe_state, probe_behind>>
        /\ probe' = "idle" /\ answer' = Verdict(probe_now, probe_state, poll_success)
    BY Zenon, <1>7 DEF healthz, rvars, history
  <2>2. answer' \in Reasons \cup {"ok", "none"}
    BY Zenon, <2>1 DEF Verdict, Reasons
  <2>3. HealthTypeOK'
    BY Zenon, <2>1, <2>2 DEF HealthInv, HealthTypeOK
  <2> QED
    BY Zenon, <1>7, <2>1, <2>3, HealthzStep DEF HealthInv, SinceOK, PassOK, ReadOK, PollOK
<1>8. CASE UNCHANGED hvars
  <2>1. Kept /\ UNCHANGED <<bound, replied, poll_success, probe, probe_now, probe_state, answer,
                            probe_behind>>
    BY Zenon, <1>8 DEF hvars, rvars, evaluation, history
  <2> QED
    BY ZenonT(60), <2>1 DEF HealthInv, HealthTypeOK, SinceOK, PassOK, ReadOK, PollOK,
                            HealthyHasServed, OutstandingIsUnbroken, Answered
<1> QED
  BY Zenon, <1>1, <1>2, <1>3, <1>4, <1>5, <1>6, <1>7, <1>8 DEF HNext

\* Hence it holds in every reachable state.
LEMMA HealthInvHolds ==
    HSpec => []HealthInv
  BY HealthInvInit, HealthInvStep, PTL DEF HSpec

\* For every window: an answer "ok" means that every resync requested longer ago
\* than the window was served and that a poll was published within it.
THEOREM HealthyCorrect ==
    HSpec => []HealthyHasServed
<1>1. HealthInv => HealthyHasServed
  BY Zenon DEF HealthInv
<1> QED
  BY <1>1, HealthInvHolds, PTL

\* For every window: an answer "resync outstanding" means that the counters had
\* been behind without a break for longer than the window.
THEOREM OutstandingCorrect ==
    HSpec => []OutstandingIsUnbroken
<1>1. HealthInv => OutstandingIsUnbroken
  BY Zenon DEF HealthInv
<1> QED
  BY <1>1, HealthInvHolds, PTL

-----------------------------------------------------------------------------
(* /metrics *)

-----------------------------------------------------------------------------
(* Sequences of registry operations, as the sets of their operations *)

\* A sequence is one over its own elements.
LEMMA SeqRange ==
    ASSUME NEW S, NEW s \in Seq(S)
    PROVE  s \in Seq(Range(s))
<1>1. Len(s) \in Nat /\ s \in [1 .. Len(s) -> S] /\ DOMAIN s = 1 .. Len(s)
  BY LenProperties
<1>2. \A i \in 1 .. Len(s) : s[i] \in Range(s)
  BY Zenon, <1>1 DEF Range
<1>3. s = [i \in 1 .. Len(s) |-> s[i]]
  BY Zenon, <1>1
<1>4. [i \in 1 .. Len(s) |-> s[i]] \in Seq(Range(s))
  BY <1>1, <1>2
<1> QED
  BY Zenon, <1>3, <1>4

\* The operations of a concatenation.
LEMMA ConcatRange ==
    ASSUME NEW s, NEW t, s \in Seq(Range(s)), t \in Seq(Range(t))
    PROVE  s \o t \in Seq(Range(s \o t)) /\ Range(s \o t) = Range(s) \cup Range(t)
<1> DEFINE S == Range(s) \cup Range(t)
<1>1. s \in Seq(S) /\ t \in Seq(S)
  BY Zenon, SeqMonotonic
<1> HIDE DEF S
<1>2. s \o t \in Seq(S)
  BY Zenon, <1>1, ConcatProperties
<1>3. Range(s \o t) = Range(s) \cup Range(t)
  <2>1. /\ Len(s) \in Nat /\ DOMAIN s = 1 .. Len(s)
        /\ Len(t) \in Nat /\ DOMAIN t = 1 .. Len(t)
        /\ DOMAIN (s \o t) = 1 .. Len(s \o t)
    BY <1>1, <1>2, LenProperties
  <2>2. /\ Len(s \o t) = Len(s) + Len(t)
        /\ \A i \in 1 .. Len(s) + Len(t) :
             (s \o t)[i] = IF i <= Len(s) THEN s[i] ELSE t[i - Len(s)]
    BY Zenon, <1>1, ConcatProperties
  <2>3. ASSUME NEW i \in DOMAIN (s \o t)
        PROVE  \/ i \in DOMAIN s /\ (s \o t)[i] = s[i]
               \/ i - Len(s) \in DOMAIN t /\ (s \o t)[i] = t[i - Len(s)]
    <3>1. i \in 1 .. Len(s) + Len(t)
      BY Zenon, <2>1, <2>2
    <3>2. CASE i <= Len(s)
      <4>1. i \in 1 .. Len(s)
        BY <2>1, <3>1, <3>2
      <4> QED
        BY Zenon, <2>1, <2>2, <3>1, <3>2, <4>1
    <3>3. CASE ~(i <= Len(s))
      <4>1. i - Len(s) \in 1 .. Len(t)
        BY <2>1, <3>1, <3>3
      <4> QED
        BY Zenon, <2>1, <2>2, <3>1, <3>3, <4>1
    <3> QED
      BY Zenon, <3>2, <3>3
  <2>4. /\ \A i \in DOMAIN s : i \in DOMAIN (s \o t) /\ (s \o t)[i] = s[i]
        /\ \A i \in DOMAIN t :
             i + Len(s) \in DOMAIN (s \o t) /\ (s \o t)[i + Len(s)] = t[i]
    BY <2>1, <2>2
  <2>5. \A i \in DOMAIN (s \o t) : (s \o t)[i] \in Range(s) \cup Range(t)
    BY Zenon, <2>3 DEF Range
  <2>6. /\ \A i \in DOMAIN s : s[i] \in Range(s \o t)
        /\ \A i \in DOMAIN t : t[i] \in Range(s \o t)
    BY Zenon, <2>4 DEF Range
  <2>7. Range(s \o t) \subseteq Range(s) \cup Range(t)
    BY Zenon, <2>5 DEF Range
  <2>8. Range(s) \subseteq Range(s \o t) /\ Range(t) \subseteq Range(s \o t)
    BY Zenon, <2>6 DEF Range
  <2> QED
    BY Zenon, <2>7, <2>8
<1> QED
  BY Zenon, <1>2, <1>3, SeqRange

\* The operations left when the first one is done.
LEMMA TailRange ==
    ASSUME NEW S, NEW s \in Seq(S), s # <<>>
    PROVE  /\ Tail(s) \in Seq(Range(Tail(s)))
           /\ Range(s) = {Head(s)} \cup Range(Tail(s))
<1>1. /\ Tail(s) \in Seq(S) /\ Len(Tail(s)) = Len(s) - 1 /\ Head(s) = s[1]
      /\ \A i \in 1 .. Len(Tail(s)) : Tail(s)[i] = s[i + 1]
  OBVIOUS
<1>2. Tail(s) \in Seq(Range(Tail(s)))
  BY Zenon, <1>1, SeqRange
<1>3. /\ Len(s) \in Nat /\ DOMAIN s = 1 .. Len(s)
      /\ Len(Tail(s)) \in Nat /\ DOMAIN Tail(s) = 1 .. Len(Tail(s))
  BY <1>1, LenProperties
<1>4. Len(s) # 0
  BY EmptySeq
<1>5. \A i \in DOMAIN s : i = 1 \/ (i - 1 \in DOMAIN Tail(s) /\ Tail(s)[i - 1] = s[i])
  BY <1>1, <1>3
<1>6. 1 \in DOMAIN s /\ \A i \in DOMAIN Tail(s) : i + 1 \in DOMAIN s /\ Tail(s)[i] = s[i + 1]
  BY <1>1, <1>3, <1>4
<1>7. Range(s) \subseteq {Head(s)} \cup Range(Tail(s))
  <2>1. ASSUME NEW i \in DOMAIN s PROVE s[i] \in {Head(s)} \cup Range(Tail(s))
    <3>1. CASE i = 1
      BY Zenon, <1>1, <3>1
    <3>2. CASE i - 1 \in DOMAIN Tail(s) /\ Tail(s)[i - 1] = s[i]
      BY Zenon, <3>2 DEF Range
    <3> QED
      BY Zenon, <1>5, <3>1, <3>2
  <2> QED
    BY Zenon, <2>1 DEF Range
<1>8. {Head(s)} \cup Range(Tail(s)) \subseteq Range(s)
  <2>1. ASSUME NEW i \in DOMAIN Tail(s) PROVE Tail(s)[i] \in Range(s)
    BY Zenon, <1>6 DEF Range
  <2>2. Head(s) \in Range(s)
    BY Zenon, <1>1, <1>6 DEF Range
  <2> QED
    BY Zenon, <2>1, <2>2 DEF Range
<1> QED
  BY Zenon, <1>2, <1>7, <1>8

\* Two operations in a row.
LEMMA PairRange ==
    ASSUME NEW a, NEW b
    PROVE  <<a, b>> \in Seq(Range(<<a, b>>)) /\ Range(<<a, b>>) = {a, b}
<1>1. <<a, b>> \in Seq({a, b}) /\ DOMAIN <<a, b>> = {1, 2}
  OBVIOUS
<1>2. <<a, b>>[1] = a /\ <<a, b>>[2] = b
  OBVIOUS
<1>3. Range(<<a, b>>) = {a, b}
  BY Zenon, <1>1, <1>2 DEF Range
<1> QED
  BY Zenon, <1>1, <1>3

-----------------------------------------------------------------------------
(* The operations of an apply *)

\* The series an operation is about, and the series of a label identity.
Slot(op) == <<op.family, op.key>>
SlotsOf(l) ==
    {<<f, l>> : f \in Vecs \ {"state"}} \cup {<<"state", <<l, st>>>> : st \in Range(KNOWN_STATES)}

Current(m) == update_state_from_swarm({u.state : u \in m.update})

\* The operations that write the series of one service.
Ops(m, list) == Range(SetGauges(m, list)) \cup Range(update_for_service(m))

\* The states that are exported.
LEMMA KnownStates ==
    /\ Len(KNOWN_STATES) = 5 /\ DOMAIN KNOWN_STATES = 1 .. 5
    /\ "completed" \in Range(KNOWN_STATES) /\ "paused" \in Range(KNOWN_STATES)
    /\ \A m : Current(m) \in Range(KNOWN_STATES)
<1>1. Len(KNOWN_STATES) = 5 /\ DOMAIN KNOWN_STATES = 1 .. 5
  BY DEF KNOWN_STATES
<1>2. KNOWN_STATES[2] = "completed" /\ KNOWN_STATES[3] = "paused"
  BY DEF KNOWN_STATES
<1>3. 2 \in 1 .. 5 /\ 3 \in 1 .. 5
  OBVIOUS
<1>4. "completed" \in Range(KNOWN_STATES) /\ "paused" \in Range(KNOWN_STATES)
  BY Zenon, <1>1, <1>2, <1>3 DEF Range
<1> QED
  BY Zenon, <1>1, <1>4 DEF Current, update_state_from_swarm

\* update_for_service writes every state and the two times.
LEMMA UpdateOps ==
    ASSUME NEW m
    PROVE  /\ update_for_service(m) \in Seq(Range(update_for_service(m)))
           /\ Range(update_for_service(m)) =
                {SetSeries("state", <<m.labels, st>>, IF st = Current(m) THEN 1 ELSE 0) :
                    st \in Range(KNOWN_STATES)}
                \cup {SetSeries("started", m.labels, seconds(UNION {u.started_at : u \in m.update})),
                      SetSeries("completed", m.labels,
                                seconds(UNION {u.completed_at : u \in m.update}))}
<1> DEFINE E(st) == SetSeries("state", <<m.labels, st>>, IF st = Current(m) THEN 1 ELSE 0)
           a == [i \in 1 .. Len(KNOWN_STATES) |-> E(KNOWN_STATES[i])]
           b == SetSeries("started", m.labels, seconds(UNION {u.started_at : u \in m.update}))
           c == SetSeries("completed", m.labels, seconds(UNION {u.completed_at : u \in m.update}))
<1>1. update_for_service(m) = a \o <<b, c>>
  BY Zenon DEF update_for_service, Current
<1>2. Range(a) = {E(st) : st \in Range(KNOWN_STATES)}
  <2>1. DOMAIN a = DOMAIN KNOWN_STATES /\ \A i \in DOMAIN a : a[i] = E(KNOWN_STATES[i])
    BY Zenon, KnownStates
  <2> HIDE DEF a, E
  <2> QED
    BY Zenon, <2>1 DEF Range
<1>3. a \in Seq(Range(a))
  <2>1. \A i \in 1 .. 5 : a[i] \in Range(a)
    BY Zenon, KnownStates DEF Range
  <2>2. a = [i \in 1 .. 5 |-> a[i]]
    BY Zenon, KnownStates
  <2> HIDE DEF a
  <2>3. [i \in 1 .. 5 |-> a[i]] \in Seq(Range(a))
    BY <2>1
  <2> QED
    BY Zenon, <2>2, <2>3
<1>4. <<b, c>> \in Seq(Range(<<b, c>>)) /\ Range(<<b, c>>) = {b, c}
  BY Zenon, PairRange
<1> HIDE DEF a, b, c, E
<1>5. a \o <<b, c>> \in Seq(Range(a \o <<b, c>>)) /\ Range(a \o <<b, c>>) = Range(a) \cup {b, c}
  BY Zenon, <1>3, <1>4, ConcatRange
<1> QED
  BY Zenon, <1>1, <1>2, <1>5 DEF b, c, E

\* delete_service_series deletes every series of an identity.
LEMMA DeleteOps ==
    ASSUME NEW l
    PROVE  /\ delete_service_series(l) \in Seq(Range(delete_service_series(l)))
           /\ Range(delete_service_series(l)) =
                {DeleteSeries("state", <<l, st>>) : st \in Range(KNOWN_STATES)}
                \cup {DeleteSeries(f, l) : f \in Vecs \ {"state"}}
<1> DEFINE E(st) == DeleteSeries("state", <<l, st>>)
           a == [i \in 1 .. Len(KNOWN_STATES) |-> E(KNOWN_STATES[i])]
           p == <<DeleteSeries("started", l), DeleteSeries("completed", l)>>
           q == <<DeleteSeries("desired", l), DeleteSeries("schedulable", l)>>
<1>1. delete_service_series(l) = q \o (a \o p)
  BY Zenon DEF delete_service_series, clear
<1>2. Range(a) = {E(st) : st \in Range(KNOWN_STATES)}
  <2>1. DOMAIN a = DOMAIN KNOWN_STATES /\ \A i \in DOMAIN a : a[i] = E(KNOWN_STATES[i])
    BY Zenon, KnownStates
  <2> HIDE DEF a, E
  <2> QED
    BY Zenon, <2>1 DEF Range
<1>3. a \in Seq(Range(a))
  <2>1. \A i \in 1 .. 5 : a[i] \in Range(a)
    BY Zenon, KnownStates DEF Range
  <2>2. a = [i \in 1 .. 5 |-> a[i]]
    BY Zenon, KnownStates
  <2> HIDE DEF a
  <2>3. [i \in 1 .. 5 |-> a[i]] \in Seq(Range(a))
    BY <2>1
  <2> QED
    BY Zenon, <2>2, <2>3
<1>4. /\ p \in Seq(Range(p)) /\ Range(p) = {DeleteSeries("started", l), DeleteSeries("completed", l)}
      /\ q \in Seq(Range(q)) /\ Range(q) = {DeleteSeries("desired", l), DeleteSeries("schedulable", l)}
  BY Zenon, PairRange
<1> HIDE DEF a, p, q, E
<1>5. a \o p \in Seq(Range(a \o p)) /\ Range(a \o p) = Range(a) \cup Range(p)
  BY Zenon, <1>3, <1>4, ConcatRange
<1> DEFINE r == a \o p
<1>6. r \in Seq(Range(r)) /\ Range(r) = Range(a) \cup Range(p)
  BY Zenon, <1>5
<1>7. delete_service_series(l) = q \o r
  BY Zenon, <1>1
<1> HIDE DEF r
<1>8. q \o r \in Seq(Range(q \o r)) /\ Range(q \o r) = Range(q) \cup Range(r)
  BY Zenon, <1>4, <1>6, ConcatRange
<1>9. Vecs \ {"state"} = {"desired", "schedulable", "started", "completed"}
  BY DEF Vecs
<1>10. Range(q) \cup Range(p) = {DeleteSeries(f, l) : f \in Vecs \ {"state"}}
  BY Zenon, <1>4, <1>9
<1>11. Range(q \o r) = {E(st) : st \in Range(KNOWN_STATES)}
                         \cup {DeleteSeries(f, l) : f \in Vecs \ {"state"}}
  BY Zenon, <1>2, <1>6, <1>8, <1>10
<1> QED
  BY Zenon, <1>7, <1>8, <1>11 DEF E

\* An operation of the right form.
SetOp(op) == op.family \in Vecs /\ \E v \in op.value : op = SetSeries(op.family, op.key, v)
DeleteOp(op) == op.family \in Vecs /\ op = DeleteSeries(op.family, op.key)

\* The series of different identities are different.
LEMMA SlotsDisjoint ==
    ASSUME NEW l, NEW k, NEW slot, slot \in SlotsOf(l), slot \in SlotsOf(k)
    PROVE  l = k
  BY DEF SlotsOf, Vecs

\* The operations of a service in one list.
LEMMA OpsList ==
    ASSUME NEW m, NEW list
    PROVE  Ops(m, list) =
             {SetSeries("desired", m.labels, [of |-> m, nodes |-> list]),
              SetSeries("schedulable", m.labels, [of |-> m, nodes |-> list]),
              SetSeries("started", m.labels, seconds(UNION {u.started_at : u \in m.update})),
              SetSeries("completed", m.labels, seconds(UNION {u.completed_at : u \in m.update}))}
             \cup {SetSeries("state", <<m.labels, st>>, IF st = Current(m) THEN 1 ELSE 0) :
                      st \in Range(KNOWN_STATES)}
<1>1. Range(SetGauges(m, list)) =
        {SetSeries("desired", m.labels, [of |-> m, nodes |-> list]),
         SetSeries("schedulable", m.labels, [of |-> m, nodes |-> list])}
  BY Zenon, PairRange DEF SetGauges
<1>2. Range(update_for_service(m)) =
        {SetSeries("state", <<m.labels, st>>, IF st = Current(m) THEN 1 ELSE 0) :
            st \in Range(KNOWN_STATES)}
        \cup {SetSeries("started", m.labels, seconds(UNION {u.started_at : u \in m.update})),
              SetSeries("completed", m.labels, seconds(UNION {u.completed_at : u \in m.update}))}
  BY Zenon, UpdateOps
<1>3. Ops(m, list) = Range(SetGauges(m, list)) \cup Range(update_for_service(m))
  BY Zenon DEF Ops
<1> QED
  BY Zenon, <1>1, <1>2, <1>3

\* A service writes each of its series, and each once.
LEMMA OpsFacts ==
    ASSUME NEW m, NEW list
    PROVE  /\ \A o \in Ops(m, list) : SetOp(o) /\ Slot(o) \in SlotsOf(m.labels)
           /\ \A slot \in SlotsOf(m.labels) : \E o \in Ops(m, list) : Slot(o) = slot
           /\ \A o, p \in Ops(m, list) : Slot(o) = Slot(p) => o = p
<1> DEFINE d == [of |-> m, nodes |-> list]
           t1 == seconds(UNION {u.started_at : u \in m.update})
           t2 == seconds(UNION {u.completed_at : u \in m.update})
           x(st) == IF st = Current(m) THEN 1 ELSE 0
           l == m.labels
<1>1. Ops(m, list) = {SetSeries("desired", l, d), SetSeries("schedulable", l, d),
                      SetSeries("started", l, t1), SetSeries("completed", l, t2)}
                     \cup {SetSeries("state", <<l, st>>, x(st)) : st \in Range(KNOWN_STATES)}
  BY Zenon, OpsList
<1> HIDE DEF d, t1, t2, x, l
<1>2. /\ Vecs = {"desired", "schedulable", "started", "completed", "state"}
      /\ Vecs \ {"state"} = {"desired", "schedulable", "started", "completed"}
  BY DEF Vecs
<1>3. ASSUME NEW o \in Ops(m, list)
      PROVE  \/ \E f \in Vecs \ {"state"} : \E v : o = SetSeries(f, l, v)
             \/ \E st \in Range(KNOWN_STATES) : o = SetSeries("state", <<l, st>>, x(st))
  BY Zenon, <1>1, <1>2
<1>4. ASSUME NEW o \in Ops(m, list) PROVE SetOp(o) /\ Slot(o) \in SlotsOf(l)
  <2>1. CASE \E f \in Vecs \ {"state"} : \E v : o = SetSeries(f, l, v)
    <3>1. PICK f \in Vecs \ {"state"} : \E v : o = SetSeries(f, l, v)
      BY Zenon, <2>1
    <3>2. PICK v : o = SetSeries(f, l, v)
      BY Zenon, <3>1
    <3>3. o.family = f /\ o.key = l /\ v \in o.value /\ Slot(o) = <<f, l>>
      BY Zenon, <3>2 DEF SetSeries, Slot
    <3> QED
      BY Zenon, <3>2, <3>3 DEF SetOp, SlotsOf
  <2>2. CASE \E st \in Range(KNOWN_STATES) : o = SetSeries("state", <<l, st>>, x(st))
    <3>1. PICK st \in Range(KNOWN_STATES) : o = SetSeries("state", <<l, st>>, x(st))
      BY Zenon, <2>2
    <3>2. /\ o.family = "state" /\ o.key = <<l, st>> /\ x(st) \in o.value
          /\ Slot(o) = <<"state", <<l, st>>>>
      BY Zenon, <3>1 DEF SetSeries, Slot
    <3> QED
      BY Zenon, <1>2, <3>1, <3>2 DEF SetOp, SlotsOf
  <2> QED
    BY Zenon, <1>3, <1>4, <2>1, <2>2
<1>5. ASSUME NEW slot \in SlotsOf(l) PROVE \E o \in Ops(m, list) : Slot(o) = slot
  <2>1. CASE \E f \in Vecs \ {"state"} : slot = <<f, l>>
    <3>1. PICK f \in Vecs \ {"state"} : slot = <<f, l>>
      BY Zenon, <2>1
    <3>2. PICK v : SetSeries(f, l, v) \in Ops(m, list)
      BY Zenon, <1>1, <1>2
    <3> QED
      BY Zenon, <3>1, <3>2 DEF SetSeries, Slot
  <2>2. CASE \E st \in Range(KNOWN_STATES) : slot = <<"state", <<l, st>>>>
    <3>1. PICK st \in Range(KNOWN_STATES) : slot = <<"state", <<l, st>>>>
      BY Zenon, <2>2
    <3>2. SetSeries("state", <<l, st>>, x(st)) \in Ops(m, list)
      BY Zenon, <1>1
    <3> QED
      BY Zenon, <3>1, <3>2 DEF SetSeries, Slot
  <2> QED
    BY Zenon, <1>5, <2>1, <2>2 DEF SlotsOf
<1>6. ASSUME NEW o \in Ops(m, list), NEW p \in Ops(m, list), Slot(o) = Slot(p) PROVE o = p
  <2>1. o.family = p.family /\ o.key = p.key
    BY Zenon, <1>6 DEF Slot
  <2>2. ASSUME NEW r \in Ops(m, list)
        PROVE  IF r.family = "state"
               THEN \E st \in Range(KNOWN_STATES) :
                      r = SetSeries("state", <<l, st>>, x(st)) /\ r.key = <<l, st>>
               ELSE r \in {SetSeries("desired", l, d), SetSeries("schedulable", l, d),
                           SetSeries("started", l, t1), SetSeries("completed", l, t2)}
    <3>1. CASE r \in {SetSeries("desired", l, d), SetSeries("schedulable", l, d),
                      SetSeries("started", l, t1), SetSeries("completed", l, t2)}
      BY <3>1 DEF SetSeries
    <3>2. CASE \E st \in Range(KNOWN_STATES) : r = SetSeries("state", <<l, st>>, x(st))
      <4>1. PICK st \in Range(KNOWN_STATES) : r = SetSeries("state", <<l, st>>, x(st))
        BY Zenon, <3>2
      <4>2. r.family = "state" /\ r.key = <<l, st>>
        BY Zenon, <4>1 DEF SetSeries, Slot
      <4> QED
        BY Zenon, <4>1, <4>2
    <3> QED
      BY Zenon, <1>1, <2>2, <3>1, <3>2
  <2>3. CASE o.family = "state"
    <3>1. PICK st : o = SetSeries("state", <<l, st>>, x(st)) /\ o.key = <<l, st>>
      BY Zenon, <2>2, <2>3
    <3>2. PICK tt : p = SetSeries("state", <<l, tt>>, x(tt)) /\ p.key = <<l, tt>>
      BY Zenon, <2>1, <2>2, <2>3
    <3>3. st = tt
      BY <2>1, <3>1, <3>2
    <3> QED
      BY Zenon, <3>1, <3>2, <3>3
  <2>4. CASE o.family # "state"
    <3>1. /\ o \in {SetSeries("desired", l, d), SetSeries("schedulable", l, d),
                    SetSeries("started", l, t1), SetSeries("completed", l, t2)}
          /\ p \in {SetSeries("desired", l, d), SetSeries("schedulable", l, d),
                    SetSeries("started", l, t1), SetSeries("completed", l, t2)}
      BY Zenon, <2>1, <2>2, <2>4
    <3> QED
      BY <2>1, <3>1 DEF SetSeries
  <2> QED
    BY Zenon, <2>3, <2>4
<1> QED
  BY Zenon, <1>4, <1>5, <1>6 DEF l

\* The deletions of an identity are those of its series.
LEMMA DeleteFacts ==
    ASSUME NEW l
    PROVE  /\ \A o \in Range(delete_service_series(l)) : DeleteOp(o) /\ Slot(o) \in SlotsOf(l)
           /\ \A slot \in SlotsOf(l) : \E o \in Range(delete_service_series(l)) : Slot(o) = slot
<1> DEFINE D == Range(delete_service_series(l))
<1>1. D = {DeleteSeries("state", <<l, st>>) : st \in Range(KNOWN_STATES)}
            \cup {DeleteSeries(f, l) : f \in Vecs \ {"state"}}
  BY Zenon, DeleteOps
<1> HIDE DEF D
<1>2. "state" \in Vecs
  BY DEF Vecs
<1>3. ASSUME NEW o \in D PROVE DeleteOp(o) /\ Slot(o) \in SlotsOf(l)
  <2>1. CASE \E st \in Range(KNOWN_STATES) : o = DeleteSeries("state", <<l, st>>)
    <3>1. PICK st \in Range(KNOWN_STATES) : o = DeleteSeries("state", <<l, st>>)
      BY Zenon, <2>1
    <3>2. o.family = "state" /\ o.key = <<l, st>> /\ Slot(o) = <<"state", <<l, st>>>>
      BY Zenon, <3>1 DEF DeleteSeries, Slot
    <3> QED
      BY Zenon, <1>2, <3>1, <3>2 DEF DeleteOp, SlotsOf
  <2>2. CASE \E f \in Vecs \ {"state"} : o = DeleteSeries(f, l)
    <3>1. PICK f \in Vecs \ {"state"} : o = DeleteSeries(f, l)
      BY Zenon, <2>2
    <3>2. o.family = f /\ o.key = l /\ Slot(o) = <<f, l>>
      BY Zenon, <3>1 DEF DeleteSeries, Slot
    <3> QED
      BY Zenon, <3>1, <3>2 DEF DeleteOp, SlotsOf
  <2> QED
    BY Zenon, <1>1, <1>3, <2>1, <2>2
<1>4. ASSUME NEW slot \in SlotsOf(l) PROVE \E o \in D : Slot(o) = slot
  <2>1. CASE \E f \in Vecs \ {"state"} : slot = <<f, l>>
    <3>1. PICK f \in Vecs \ {"state"} : slot = <<f, l>>
      BY Zenon, <2>1
    <3>2. DeleteSeries(f, l) \in D
      BY Zenon, <1>1
    <3> QED
      BY Zenon, <3>1, <3>2 DEF DeleteSeries, Slot
  <2>2. CASE \E st \in Range(KNOWN_STATES) : slot = <<"state", <<l, st>>>>
    <3>1. PICK st \in Range(KNOWN_STATES) : slot = <<"state", <<l, st>>>>
      BY Zenon, <2>2
    <3>2. DeleteSeries("state", <<l, st>>) \in D
      BY Zenon, <1>1
    <3> QED
      BY Zenon, <3>1, <3>2 DEF DeleteSeries, Slot
  <2> QED
    BY Zenon, <1>4, <2>1, <2>2 DEF SlotsOf
<1> QED
  BY Zenon, <1>3, <1>4 DEF D

-----------------------------------------------------------------------------
(* The invariant: what is shown is what is wanted, up to what is left to do *)

\* The operations that would write every series of the cached services, and
\* whether the registry already shows what an operation writes.
Wanted == UNION {Ops(m, nodes) : m \in Cached}
Shows(op) == op.key \in DOMAIN gauge[op.family] /\ op.value = {gauge[op.family][op.key]}
Pending(slot) == \E op \in Range(todo) : Slot(op) = slot

\* A cached service has one identity, its own.
CacheShape ==
    /\ metadata = [s \in Service |-> metadata[s]]
    /\ \A s \in Service :
         \/ metadata[s] = {}
         \/ \E l \in Identity(s) : \E u : metadata[s] = {[labels |-> l, update |-> u]}

\* What is left to do writes a wanted series or deletes one that is not wanted; a
\* series is wanted, or something is left to do to it; a wanted series is shown, or
\* something is left to do to it.
RegistryInv ==
    /\ gauge = [f \in Vecs |-> gauge[f]]
    /\ todo \in Seq(Range(todo))
    /\ \A op \in Range(todo) :
         \/ op \in Wanted
         \/ DeleteOp(op) /\ \A w \in Wanted : Slot(w) # Slot(op)
    /\ \A f \in Vecs : \A k \in DOMAIN gauge[f] :
         Pending(<<f, k>>) \/ SetSeries(f, k, gauge[f][k]) \in Wanted
    /\ \A w \in Wanted : Pending(Slot(w)) \/ Shows(w)

\* A service that was complete when the scrape began, and still has its identity,
\* has every series; what the scrape read of it is whole; the replicas families it
\* read are of the set it loaded.
ScrapeInv ==
    /\ lasting \subseteq Labels(Cached)
    /\ \A l \in lasting : \A f \in Vecs :
         \A k : <<f, k>> \in SlotsOf(l) => k \in DOMAIN gauge[f]
    /\ \A f \in Vecs \cap DOMAIN seen : \A l \in lasting :
         \A k : <<f, k>> \in SlotsOf(l) => k \in seen[f]
    /\ scrape \in 0 .. 10 /\ (scrape = 0 => DOMAIN seen = {})
    /\ \A f \in ReplicaFamilies \cap DOMAIN seen :
         /\ scrape > 3
         /\ seen[f] = {[poll |-> p.poll, series |-> p.series[f]] : p \in held}
    /\ \A p \in held \cup published :
         \A f, g \in ReplicaFamilies : p.series[f] = p.series[g]

-----------------------------------------------------------------------------
(* Wanted series *)

\* A cached service has an identity of its own, and no other entry.
LEMMA EntryForm ==
    ASSUME CacheShape, NEW s \in Service, NEW m \in metadata[s]
    PROVE  m.labels \in Identity(s) /\ metadata[s] = {m}
<1>1. PICK l \in Identity(s) : \E u : metadata[s] = {[labels |-> l, update |-> u]}
  BY Zenon DEF CacheShape
<1>2. PICK u : metadata[s] = {[labels |-> l, update |-> u]}
  BY Zenon, <1>1
<1>3. m = [labels |-> l, update |-> u]
  BY Zenon, <1>2
<1> QED
  BY Zenon, <1>2, <1>3

\* No two cached services share an identity.
LEMMA CachedUnique ==
    ASSUME CacheShape, NEW m \in Cached, NEW x \in Cached, m.labels = x.labels
    PROVE  m = x
<1>1. PICK s \in Service : m \in metadata[s]
  BY Zenon DEF Cached
<1>2. PICK t \in Service : x \in metadata[t]
  BY Zenon DEF Cached
<1>4. m.labels \in Identity(s) /\ metadata[s] = {m}
  BY Zenon, <1>1, EntryForm
<1>5. x.labels \in Identity(t) /\ metadata[t] = {x}
  BY Zenon, <1>2, EntryForm
<1>6. s = t
  BY Zenon, <1>4, <1>5, IdentityAssumption
<1> QED
  BY Zenon, <1>4, <1>5, <1>6

\* A wanted operation is that of one cached service.
LEMMA WantedOf ==
    ASSUME NEW w \in Wanted
    PROVE  \E m \in Cached : w \in Ops(m, nodes) /\ SetOp(w) /\ Slot(w) \in SlotsOf(m.labels)
<1>1. PICK m \in Cached : w \in Ops(m, nodes)
  BY Zenon DEF Wanted
<1> QED
  BY Zenon, <1>1, OpsFacts

\* A series is wanted with one value.
LEMMA WantedUnique ==
    ASSUME CacheShape, NEW w \in Wanted, NEW v \in Wanted, Slot(w) = Slot(v)
    PROVE  w = v
<1>1. PICK m \in Cached : w \in Ops(m, nodes) /\ Slot(w) \in SlotsOf(m.labels)
  BY Zenon, WantedOf
<1>2. PICK x \in Cached : v \in Ops(x, nodes) /\ Slot(v) \in SlotsOf(x.labels)
  BY Zenon, WantedOf
<1>3. m.labels = x.labels
  BY Zenon, <1>1, <1>2, SlotsDisjoint
<1>4. m = x
  BY Zenon, <1>3, CachedUnique
<1> QED
  BY Zenon, <1>1, <1>2, <1>4, OpsFacts

\* Every series of a cached service is wanted.
LEMMA WantedSlots ==
    ASSUME NEW m \in Cached, NEW slot \in SlotsOf(m.labels)
    PROVE  \E w \in Wanted : Slot(w) = slot
<1>0. \A sl \in SlotsOf(m.labels) : \E o \in Ops(m, nodes) : Slot(o) = sl
  BY OpsFacts
<1>1. PICK w \in Ops(m, nodes) : Slot(w) = slot
  BY Zenon, <1>0
<1> QED
  BY Zenon, <1>1 DEF Wanted

-----------------------------------------------------------------------------
(* One operation *)

\* An operation changed its series only, as it says.
Written(op) ==
    /\ op \in Range(todo) /\ op.family \in Vecs
    /\ todo' \in Seq(Range(todo')) /\ Range(todo) = {op} \cup Range(todo')
    /\ gauge' = [f \in Vecs |-> gauge'[f]]
    /\ \A f \in Vecs : \A k : <<f, k>> # Slot(op) =>
         /\ k \in DOMAIN gauge'[f] <=> k \in DOMAIN gauge[f]
         /\ k \in DOMAIN gauge[f] => gauge'[f][k] = gauge[f][k]
    /\ op \in Wanted => Shows(op)'
    /\ op \notin Wanted => op.key \notin DOMAIN gauge'[op.family]

\* Write does its first operation.
LEMMA WriteGauge ==
    ASSUME RegistryInv, Write, NEW op, op = Head(todo)
    PROVE  Written(op)
<1> DEFINE f0 == op.family  k0 == op.key
<1>1. /\ todo # <<>> /\ todo' = Tail(todo) /\ todo \in Seq(Range(todo))
      /\ gauge' = [gauge EXCEPT ![op.family] =
                        IF op.value = {} THEN delete_with(@, op.key)
                        ELSE set_with(@, op.key, CHOOSE v \in op.value : TRUE)]
      /\ gauge = [f \in Vecs |-> gauge[f]]
  BY Zenon DEF Write, RegistryInv
<1>2. /\ op \in Range(todo) /\ Range(todo) = {op} \cup Range(todo')
      /\ todo' \in Seq(Range(todo'))
  BY Zenon, <1>1, TailRange
<1>3. \/ op \in Wanted /\ SetOp(op)
      \/ op \notin Wanted /\ DeleteOp(op)
  BY Zenon, <1>2, WantedOf DEF RegistryInv
<1>4. f0 \in Vecs
  BY Zenon, <1>3 DEF SetOp, DeleteOp
<1>5. /\ gauge' = [f \in Vecs |-> gauge'[f]]
      /\ \A f \in Vecs : f # f0 => gauge'[f] = gauge[f]
      /\ gauge'[f0] = IF op.value = {} THEN delete_with(gauge[f0], k0)
                      ELSE set_with(gauge[f0], k0, CHOOSE v \in op.value : TRUE)
  BY Zenon, <1>1, <1>4
<1>6. CASE op \in Wanted
  <2>1. PICK v \in op.value : op = SetSeries(f0, k0, v)
    BY Zenon, <1>3, <1>6 DEF SetOp
  <2>2. op.value = {v}
    BY <2>1 DEF SetSeries
  <2>3. gauge'[f0] = set_with(gauge[f0], k0, v)
    BY <1>5, <2>2
  <2>4. /\ DOMAIN gauge'[f0] = DOMAIN gauge[f0] \cup {k0} /\ gauge'[f0][k0] = v
        /\ \A k \in DOMAIN gauge[f0] : k # k0 => gauge'[f0][k] = gauge[f0][k]
    BY Zenon, <2>3 DEF set_with
  <2>5. Shows(op)'
    BY Zenon, <2>2, <2>4 DEF Shows
  <2>6. ASSUME NEW f \in Vecs, NEW k, <<f, k>> # Slot(op)
        PROVE  /\ k \in DOMAIN gauge'[f] <=> k \in DOMAIN gauge[f]
               /\ k \in DOMAIN gauge[f] => gauge'[f][k] = gauge[f][k]
    BY Zenon, <1>5, <2>4, <2>6 DEF Slot
  <2> QED
    BY Zenon, <1>2, <1>4, <1>5, <1>6, <2>5, <2>6 DEF Written
<1>7. CASE op \notin Wanted
  <2>1. op.value = {}
    BY <1>3, <1>7 DEF DeleteOp, DeleteSeries
  <2>2. gauge'[f0] = delete_with(gauge[f0], k0)
    BY Zenon, <1>5, <2>1
  <2>3. /\ DOMAIN gauge'[f0] = DOMAIN gauge[f0] \ {k0}
        /\ \A k \in DOMAIN gauge[f0] : k # k0 => gauge'[f0][k] = gauge[f0][k]
    BY Zenon, <2>2 DEF delete_with
  <2>4. ASSUME NEW f \in Vecs, NEW k, <<f, k>> # Slot(op)
        PROVE  /\ k \in DOMAIN gauge'[f] <=> k \in DOMAIN gauge[f]
               /\ k \in DOMAIN gauge[f] => gauge'[f][k] = gauge[f][k]
    BY Zenon, <1>5, <2>3, <2>4 DEF Slot
  <2> QED
    BY Zenon, <1>2, <1>4, <1>5, <1>7, <2>3, <2>4 DEF Written
<1> QED
  BY Zenon, <1>6, <1>7

\* An operation keeps the registry on its way to the wanted series.
LEMMA WriteStep ==
    ASSUME CacheShape, RegistryInv, Write
    PROVE  RegistryInv'
<1>0. PICK op : op = Head(todo)
  BY Zenon
<1>1. Written(op)
  BY Zenon, <1>0, WriteGauge
<1>2. Wanted' = Wanted
  BY Zenon DEF Write, caches, Wanted, Cached
<1>3. \A slot : slot # Slot(op) /\ Pending(slot) => Pending(slot)'
  BY Zenon, <1>1 DEF Pending, Written
<1>4. ASSUME NEW o \in Range(todo)'
      PROVE  \/ o \in Wanted'
             \/ DeleteOp(o) /\ \A w \in Wanted' : Slot(w) # Slot(o)
  BY Zenon, <1>1, <1>2 DEF RegistryInv, Written
<1>5. ASSUME NEW f \in Vecs, NEW k \in DOMAIN gauge'[f]
      PROVE  Pending(<<f, k>>)' \/ SetSeries(f, k, gauge'[f][k]) \in Wanted'
  <2>1. CASE <<f, k>> = Slot(op)
    <3>1. f = op.family /\ k = op.key
      BY <2>1 DEF Slot
    <3>2. op \in Wanted /\ Shows(op)'
      BY Zenon, <1>1, <3>1, <1>5 DEF Written
    <3>3. op.value = {gauge'[f][k]}
      BY Zenon, <3>1, <3>2 DEF Shows
    <3>4. PICK v \in op.value : op = SetSeries(op.family, op.key, v)
      BY Zenon, <3>2, WantedOf DEF SetOp
    <3>5. op = SetSeries(f, k, gauge'[f][k])
      BY <3>1, <3>3, <3>4
    <3> QED
      BY Zenon, <1>2, <3>2, <3>5
  <2>2. CASE <<f, k>> # Slot(op)
    <3>1. k \in DOMAIN gauge[f] /\ gauge'[f][k] = gauge[f][k]
      BY Zenon, <1>1, <1>5, <2>2 DEF Written
    <3>2. Pending(<<f, k>>) \/ SetSeries(f, k, gauge[f][k]) \in Wanted
      BY Zenon, <3>1 DEF RegistryInv
    <3> QED
      BY Zenon, <1>2, <1>3, <2>2, <3>1, <3>2
  <2> QED
    BY Zenon, <2>1, <2>2
<1>6. ASSUME NEW w \in Wanted
      PROVE  Pending(Slot(w))' \/ Shows(w)'
  <2>1. CASE Slot(w) = Slot(op)
    <3>1. op \in Wanted
      BY Zenon, <1>1, <2>1 DEF RegistryInv, Written
    <3>2. w = op
      BY Zenon, <2>1, <3>1, WantedUnique
    <3> QED
      BY Zenon, <1>1, <3>1, <3>2 DEF Written
  <2>2. CASE Slot(w) # Slot(op)
    <3>1. Pending(Slot(w)) \/ Shows(w)
      BY Zenon DEF RegistryInv
    <3>2. w.family \in Vecs
      BY Zenon, WantedOf DEF SetOp
    <3>3. ASSUME Shows(w) PROVE Shows(w)'
      <4>1. /\ w.key \in DOMAIN gauge[w.family]
            /\ w.value = {gauge[w.family][w.key]}
        BY Zenon, <3>3 DEF Shows
      <4>2. <<w.family, w.key>> # Slot(op)
        BY Zenon, <2>2 DEF Slot
      <4>3. \A f \in Vecs : \A k : <<f, k>> # Slot(op) =>
              /\ k \in DOMAIN gauge'[f] <=> k \in DOMAIN gauge[f]
              /\ k \in DOMAIN gauge[f] => gauge'[f][k] = gauge[f][k]
        BY Zenon, <1>1 DEF Written
      <4>4. /\ w.key \in DOMAIN gauge'[w.family]
            /\ gauge'[w.family][w.key] = gauge[w.family][w.key]
        BY Zenon, <3>2, <4>1, <4>2, <4>3
      <4> QED
        BY Zenon, <4>1, <4>4 DEF Shows
    <3> QED
      BY Zenon, <1>3, <2>2, <3>1, <3>3
  <2> QED
    BY Zenon, <2>1, <2>2
<1> QED
  BY Zenon, <1>1, <1>2, <1>4, <1>5, <1>6 DEF RegistryInv, Written

\* An apply keeps it when it lists an operation for every series that changes.
LEMMA ApplyStep ==
    ASSUME RegistryInv, todo = <<>>, gauge' = gauge,
           todo' \in Seq(Range(todo')),
           \A op \in Range(todo') :
              \/ op \in Wanted'
              \/ DeleteOp(op) /\ \A w \in Wanted' : Slot(w) # Slot(op),
           \A w \in Wanted : w \in Wanted' \/ Pending(Slot(w))',
           \A w \in Wanted' : w \in Wanted \/ Pending(Slot(w))'
    PROVE  RegistryInv'
<1>1. \A slot : ~Pending(slot)
  <2>1. Range(todo) = {}
    BY DEF Range
  <2> QED
    BY Zenon, <2>1 DEF Pending
<1>2. ASSUME NEW f \in Vecs, NEW k \in DOMAIN gauge[f]
      PROVE  Pending(<<f, k>>)' \/ SetSeries(f, k, gauge[f][k]) \in Wanted'
  <2> DEFINE w == SetSeries(f, k, gauge[f][k])
  <2>1. w \in Wanted
    BY Zenon, <1>1 DEF RegistryInv
  <2>2. Slot(w) = <<f, k>>
    BY Zenon DEF SetSeries, Slot
  <2> HIDE DEF w
  <2>3. w \in Wanted' \/ Pending(<<f, k>>)'
    BY Zenon, <2>1, <2>2
  <2> QED
    BY Zenon, <2>3 DEF w
<1>3. ASSUME NEW w \in Wanted' PROVE Pending(Slot(w))' \/ Shows(w)'
  <2>1. CASE w \in Wanted
    BY Zenon, <1>1, <2>1 DEF RegistryInv, Shows
  <2> QED
    BY Zenon, <1>3, <2>1
<1> QED
  BY Zenon, <1>2, <1>3 DEF RegistryInv

-----------------------------------------------------------------------------
(* Applies *)

\* Deletions deletes the series of the identity it is given, if there is one.
LEMMA DeletionsFacts ==
    ASSUME NEW S, S = {} \/ \E l : S = {l}
    PROVE  /\ Deletions(S) \in Seq(Range(Deletions(S)))
           /\ \A o \in Range(Deletions(S)) : DeleteOp(o) /\ \E l \in S : Slot(o) \in SlotsOf(l)
           /\ \A l \in S : \A slot \in SlotsOf(l) :
                \E o \in Range(Deletions(S)) : Slot(o) = slot
<1>1. CASE S = {}
  <2>1. Deletions(S) = <<>>
    BY Zenon, <1>1 DEF Deletions
  <2>2. Range(<<>>) = {} /\ <<>> \in Seq(Range(<<>>))
    BY DEF Range
  <2> QED
    BY Zenon, <1>1, <2>1, <2>2
<1>2. CASE \E l : S = {l}
  <2>1. PICK l : S = {l}
    BY Zenon, <1>2
  <2>2. (CHOOSE k \in S : TRUE) = l /\ S # {}
    BY <2>1
  <2>3. Deletions(S) = delete_service_series(l)
    BY Zenon, <2>2 DEF Deletions
  <2>4. delete_service_series(l) \in Seq(Range(delete_service_series(l)))
    BY Zenon, DeleteOps
  <2>5. /\ \A o \in Range(delete_service_series(l)) : DeleteOp(o) /\ Slot(o) \in SlotsOf(l)
        /\ \A slot \in SlotsOf(l) :
             \E o \in Range(delete_service_series(l)) : Slot(o) = slot
    BY DeleteFacts
  <2> QED
    BY Zenon, <2>1, <2>3, <2>4, <2>5
<1> QED
  BY Zenon, <1>1, <1>2

\* The cache after the entry of one service changed.
LEMMA Recached ==
    ASSUME CacheShape, NEW s \in Service, NEW N,
           N = {} \/ \E l \in Identity(s) : \E u : N = {[labels |-> l, update |-> u]},
           metadata' = [metadata EXCEPT ![s] = N]
    PROVE  /\ CacheShape'
           /\ N \subseteq Cached'
           /\ \A x \in Cached : x \in metadata[s] \/ x \in Cached'
           /\ \A x \in Cached' : x \in N \/ (x \in Cached /\ x.labels \notin Identity(s))
<1>1. /\ metadata' = [t \in Service |-> metadata'[t]]
      /\ metadata'[s] = N /\ \A t \in Service : t # s => metadata'[t] = metadata[t]
  BY Zenon DEF CacheShape
<1>2. CacheShape'
  <2>1. ASSUME NEW t \in Service
        PROVE  \/ metadata'[t] = {}
               \/ \E l \in Identity(t) : \E u : metadata'[t] = {[labels |-> l, update |-> u]}
    <3>1. CASE t = s
      BY Zenon, <1>1, <3>1
    <3>2. CASE t # s
      <4>1. metadata'[t] = metadata[t]
        BY Zenon, <1>1, <3>2
      <4>2. \/ metadata[t] = {}
            \/ \E l \in Identity(t) : \E u : metadata[t] = {[labels |-> l, update |-> u]}
        BY Zenon DEF CacheShape
      <4> QED
        BY Zenon, <4>1, <4>2
    <3> QED
      BY Zenon, <3>1, <3>2
  <2> QED
    BY Zenon, <1>1, <2>1 DEF CacheShape
<1>3. N \subseteq Cached' /\ \A x \in Cached : x \in metadata[s] \/ x \in Cached'
  BY Zenon, <1>1 DEF Cached
<1>4. ASSUME NEW x \in Cached' PROVE x \in N \/ (x \in Cached /\ x.labels \notin Identity(s))
  <2>1. PICK t \in Service : x \in metadata'[t]
    BY Zenon, <1>4 DEF Cached
  <2>2. CASE t = s
    BY Zenon, <1>1, <2>1, <2>2
  <2>3. CASE t # s
    <3>1. x \in metadata[t]
      BY Zenon, <1>1, <2>1, <2>3
    <3>2. x.labels \in Identity(t)
      BY Zenon, <3>1, EntryForm
    <3>3. x \in Cached
      BY Zenon, <3>1 DEF Cached
    <3> QED
      BY Zenon, <2>3, <3>2, <3>3, IdentityAssumption
  <2> QED
    BY Zenon, <2>2, <2>3
<1> QED
  BY Zenon, <1>2, <1>3, <1>4

\* A service leaves one identity at most.
LEMMA LeftAlone ==
    ASSUME CacheShape, NEW s \in Service, NEW left, left \subseteq Labels(metadata[s])
    PROVE  left = {} \/ \E l : left = {l}
<1>1. ASSUME NEW k \in left PROVE left = {k}
  <2>1. PICK x \in metadata[s] : x.labels = k
    BY Zenon DEF Labels
  <2>2. metadata[s] = {x}
    BY Zenon, EntryForm
  <2>3. \A l \in left : l = k
    BY Zenon, <2>1, <2>2 DEF Labels
  <2> QED
    BY Zenon, <2>3
<1> QED
  BY Zenon, <1>1

\* Every other identity stays.
LEMMA KeptLabels ==
    ASSUME CacheShape, NEW s \in Service, NEW N,
           N = {} \/ \E l \in Identity(s) : \E u : N = {[labels |-> l, update |-> u]},
           metadata' = [metadata EXCEPT ![s] = N],
           NEW left, left = Labels(metadata[s]) \ Labels(N)
    PROVE  \A k \in Labels(Cached) : k \in left \/ k \in Labels(Cached)'
<1>1. /\ N \subseteq Cached'
      /\ \A x \in Cached : x \in metadata[s] \/ x \in Cached'
  BY Zenon, Recached
<1>2. ASSUME NEW k \in Labels(Cached) PROVE k \in left \/ k \in Labels(Cached)'
  <2>1. PICK x \in Cached : k = x.labels
    BY Zenon DEF Labels
  <2>2. CASE x \in Cached'
    BY Zenon, <2>1, <2>2 DEF Labels
  <2>3. CASE x \in metadata[s] /\ k \notin left
    <3>1. k \in Labels(N)
      BY Zenon, <2>1, <2>3 DEF Labels
    <3> QED
      BY Zenon, <1>1, <3>1 DEF Labels
  <2> QED
    BY Zenon, <1>1, <2>2, <2>3
<1> QED
  BY Zenon, <1>2

\* A service that changed, or went, lists an operation for every series that changes.
LEMMA ServiceStep ==
    ASSUME CacheShape, RegistryInv, todo = <<>>, gauge' = gauge, nodes' = nodes,
           NEW s \in Service, NEW N,
           N = {} \/ \E l \in Identity(s) : \E u : N = {[labels |-> l, update |-> u]},
           metadata' = [metadata EXCEPT ![s] = N],
           NEW left, left = Labels(metadata[s]) \ Labels(N),
           todo' \in Seq(Range(todo')),
           Range(todo') = Range(Deletions(left)) \cup UNION {Ops(m, nodes) : m \in N}
    PROVE  CacheShape' /\ RegistryInv'
<1>1. /\ CacheShape'
      /\ N \subseteq Cached'
      /\ \A x \in Cached : x \in metadata[s] \/ x \in Cached'
      /\ \A x \in Cached' : x \in N \/ (x \in Cached /\ x.labels \notin Identity(s))
  BY Zenon, Recached
<1>2. Wanted' = UNION {Ops(m, nodes) : m \in Cached'}
  BY Zenon DEF Wanted
<1>3. ASSUME NEW l \in left PROVE l \in Identity(s) /\ l \notin Labels(N)
  <2>1. PICK x \in metadata[s] : l = x.labels
    BY Zenon DEF Labels
  <2> QED
    BY Zenon, <2>1, EntryForm
<1>4. left = {} \/ \E l : left = {l}
  <2>1. left \subseteq Labels(metadata[s])
    BY Zenon
  <2> QED
    BY Zenon, <2>1, LeftAlone
<1>5. /\ \A o \in Range(Deletions(left)) :
           DeleteOp(o) /\ \E l \in left : Slot(o) \in SlotsOf(l)
      /\ \A l \in left : \A slot \in SlotsOf(l) :
           \E o \in Range(Deletions(left)) : Slot(o) = slot
  BY Zenon, <1>4, DeletionsFacts
<1>6. ASSUME NEW o \in Range(todo')
      PROVE  o \in Wanted' \/ (DeleteOp(o) /\ \A w \in Wanted' : Slot(w) # Slot(o))
  <2>1. CASE o \in UNION {Ops(m, nodes) : m \in N}
    BY Zenon, <1>1, <1>2, <2>1
  <2>2. CASE o \in Range(Deletions(left))
    <3>1. PICK l \in left : Slot(o) \in SlotsOf(l)
      BY Zenon, <1>5, <2>2
    <3>2. ASSUME NEW w \in Wanted', Slot(w) = Slot(o) PROVE FALSE
      <4>1. PICK x \in Cached' : w \in Ops(x, nodes)
        BY Zenon, <1>2
      <4>2. Slot(w) \in SlotsOf(x.labels)
        BY Zenon, <4>1, OpsFacts
      <4>3. x.labels = l
        BY Zenon, <3>1, <3>2, <4>2, SlotsDisjoint
      <4> QED
        BY Zenon, <1>1, <1>3, <4>3 DEF Labels
    <3> QED
      BY Zenon, <1>5, <2>2, <3>2
  <2> QED
    BY Zenon, <2>1, <2>2
<1>7. ASSUME NEW w \in Wanted PROVE w \in Wanted' \/ Pending(Slot(w))'
  <2>1. PICK x \in Cached : w \in Ops(x, nodes) /\ Slot(w) \in SlotsOf(x.labels)
    BY Zenon, WantedOf
  <2>2. CASE x \in Cached'
    BY Zenon, <1>2, <2>1, <2>2
  <2>3. CASE x \in metadata[s] /\ x.labels \in left
    BY Zenon, <1>5, <2>1, <2>3 DEF Pending
  <2>4. CASE x \in metadata[s] /\ x.labels \notin left
    <3>1. PICK m \in N : m.labels = x.labels
      BY Zenon, <2>4 DEF Labels
    <3>2. \A sl \in SlotsOf(m.labels) : \E o \in Ops(m, nodes) : Slot(o) = sl
      BY Zenon, OpsFacts
    <3>3. PICK o \in Ops(m, nodes) : Slot(o) = Slot(w)
      BY Zenon, <2>1, <3>1, <3>2
    <3> QED
      BY Zenon, <3>3 DEF Pending
  <2> QED
    BY Zenon, <1>1, <2>2, <2>3, <2>4
<1>8. ASSUME NEW w \in Wanted' PROVE w \in Wanted \/ Pending(Slot(w))'
  <2>1. PICK x \in Cached' : w \in Ops(x, nodes)
    BY Zenon, <1>2
  <2> QED
    BY Zenon, <1>1, <2>1 DEF Wanted, Pending
<1> QED
  BY Zenon, <1>1, <1>6, <1>7, <1>8, ApplyStep

\* An order of a finite set has every member.
LEMMA OrderRange ==
    ASSUME NEW S, IsFiniteSet(S), NEW order \in Bijection(1 .. Cardinality(S), S)
    PROVE  Len(order) \in Nat /\ DOMAIN order = 1 .. Len(order) /\ Range(order) = S
<1>1. Cardinality(S) \in Nat
  BY Zenon, FS_CardinalityType
<1>2. /\ order \in [1 .. Cardinality(S) -> S]
      /\ \A x \in S : \E i \in 1 .. Cardinality(S) : order[i] = x
  BY Zenon DEF Bijection, Surjection
<1>3. Len(order) = Cardinality(S)
  BY <1>1, <1>2
<1>4. DOMAIN order = 1 .. Cardinality(S) /\ \A i \in 1 .. Cardinality(S) : order[i] \in S
  BY Zenon, <1>2
<1>5. Range(order) = S
  BY Zenon, <1>2, <1>4 DEF Range
<1> QED
  BY Zenon, <1>1, <1>3, <1>4, <1>5

\* The cached services are finitely many: no two entries are of one service.
LEMMA CachedFinite ==
    ASSUME CacheShape
    PROVE  IsFiniteSet(Cached)
<1> DEFINE of == [m \in Cached |-> CHOOSE s \in Service : m \in metadata[s]]
<1>1. ASSUME NEW m \in Cached PROVE of[m] \in Service /\ m \in metadata[of[m]]
  BY Zenon DEF Cached
<1>2. of \in [Cached -> Service]
  BY Zenon, <1>1
<1> HIDE DEF of
<1>3. ASSUME NEW m \in Cached, NEW x \in Cached, of[m] = of[x] PROVE m = x
  <2>1. metadata[of[m]] = {m} /\ metadata[of[x]] = {x}
    BY Zenon, <1>1, EntryForm
  <2> QED
    BY Zenon, <1>3, <2>1
<1>4. of \in Injection(Cached, Service)
  BY Zenon, <1>2, <1>3 DEF Injection, IsInjective
<1> QED
  BY Zenon, <1>4, FS_Injection, IdentityAssumption

\* The operations of apply_nodes are the two gauges of each service.
NodeOps(order, list) ==
    [i \in 1 .. 2 * Len(order) |->
        SetGauges(order[(i + 1) \div 2], list)[IF i % 2 = 1 THEN 1 ELSE 2]]

\* They are all there.
LEMMA NodeOpsRange ==
    ASSUME NEW order, NEW list, Len(order) \in Nat, DOMAIN order = 1 .. Len(order)
    PROVE  /\ NodeOps(order, list) \in Seq(Range(NodeOps(order, list)))
           /\ Range(NodeOps(order, list)) =
                UNION {Range(SetGauges(m, list)) : m \in Range(order)}
<1> DEFINE n == Len(order)
           ops == NodeOps(order, list)
           g(m, j) == SetGauges(m, list)[j]
<1>1. \A m : Range(SetGauges(m, list)) = {g(m, 1), g(m, 2)}
  <2>1. ASSUME NEW m PROVE DOMAIN SetGauges(m, list) = {1, 2}
    BY DEF SetGauges
  <2> QED
    BY Zenon, <2>1 DEF Range
<1>2. DOMAIN ops = 1 .. 2 * n /\ ops = [i \in 1 .. 2 * n |-> ops[i]]
  BY Zenon DEF NodeOps
<1>3. ASSUME NEW i \in 1 .. 2 * n
      PROVE  ops[i] = g(order[(i + 1) \div 2], IF i % 2 = 1 THEN 1 ELSE 2)
  BY Zenon, <1>3 DEF NodeOps
<1>4. n \in Nat /\ DOMAIN order = 1 .. n
  BY Zenon
<1> HIDE DEF n, g, ops
<1>5. 2 * n \in Nat
  BY <1>4
<1>6. ops \in Seq(Range(ops))
  <2> DEFINE k == 2 * n
  <2>1. \A i \in 1 .. k : ops[i] \in Range(ops)
    BY Zenon, <1>2 DEF Range
  <2>2. ops = [i \in 1 .. k |-> ops[i]] /\ k \in Nat
    BY Zenon, <1>2, <1>5
  <2> HIDE DEF k
  <2>3. [i \in 1 .. k |-> ops[i]] \in Seq(Range(ops))
    BY <2>1, <2>2
  <2> QED
    BY Zenon, <2>2, <2>3
<1>7. ASSUME NEW i \in 1 .. 2 * n
      PROVE  \E m \in Range(order) : ops[i] \in {g(m, 1), g(m, 2)}
  <2>1. (i + 1) \div 2 \in DOMAIN order
    BY <1>4
  <2> QED
    BY Zenon, <1>3, <2>1 DEF Range
<1>8. ASSUME NEW m \in Range(order)
      PROVE  g(m, 1) \in Range(ops) /\ g(m, 2) \in Range(ops)
  <2>1. PICK j \in 1 .. n : m = order[j]
    BY Zenon, <1>4 DEF Range
  <2>2. /\ 2 * j - 1 \in 1 .. 2 * n /\ ((2 * j - 1) + 1) \div 2 = j /\ (2 * j - 1) % 2 = 1
        /\ 2 * j \in 1 .. 2 * n /\ (2 * j + 1) \div 2 = j /\ (2 * j) % 2 = 0
    BY <1>4
  <2>3. ops[2 * j - 1] = g(m, 1)
    BY Zenon, <1>3, <2>1, <2>2
  <2>4. ops[2 * j] = g(m, IF 0 = 1 THEN 1 ELSE 2)
    BY Zenon, <1>3, <2>1, <2>2
  <2>5. ops[2 * j] = g(m, 2)
    BY <2>4
  <2> QED
    BY Zenon, <1>2, <2>2, <2>3, <2>5 DEF Range
<1>9. Range(ops) \subseteq UNION {Range(SetGauges(m, list)) : m \in Range(order)}
  <2>1. ASSUME NEW o \in Range(ops)
        PROVE  o \in UNION {Range(SetGauges(m, list)) : m \in Range(order)}
    <3>1. PICK i \in 1 .. 2 * n : o = ops[i]
      BY Zenon, <1>2 DEF Range
    <3> QED
      <4>1. PICK m \in Range(order) : ops[i] \in {g(m, 1), g(m, 2)}
        BY Zenon, <1>7
      <4>2. o \in Range(SetGauges(m, list))
        BY Zenon, <1>1, <3>1, <4>1
      <4> QED
        BY Zenon, <4>2
  <2> QED
    BY Zenon, <2>1
<1>10. UNION {Range(SetGauges(m, list)) : m \in Range(order)} \subseteq Range(ops)
  <2>1. ASSUME NEW m \in Range(order) PROVE Range(SetGauges(m, list)) \subseteq Range(ops)
    <3>1. Range(SetGauges(m, list)) = {g(m, 1), g(m, 2)}
      BY Zenon, <1>1
    <3> QED
      BY Zenon, <1>8, <3>1
  <2> QED
    BY Zenon, <2>1
<1> QED
  BY Zenon, <1>6, <1>9, <1>10 DEF ops

\* Nodes that changed: both gauges of every service are written.
LEMMA NodesStep ==
    ASSUME CacheShape, RegistryInv, NEW list, ApplyNodes(list)
    PROVE  CacheShape' /\ RegistryInv'
<1>1. /\ todo = <<>> /\ nodes' = list /\ metadata' = metadata /\ gauge' = gauge
      /\ \E order \in Bijection(1 .. Cardinality(Cached), Cached) : todo' = NodeOps(order, list)
  BY Zenon DEF ApplyNodes, Change, NodeOps
<1>2. PICK order \in Bijection(1 .. Cardinality(Cached), Cached) : todo' = NodeOps(order, list)
  BY Zenon, <1>1
<1>3. Len(order) \in Nat /\ DOMAIN order = 1 .. Len(order) /\ Range(order) = Cached
  BY Zenon, CachedFinite, OrderRange
<1>4. /\ todo' \in Seq(Range(todo'))
      /\ Range(todo') = UNION {Range(SetGauges(m, list)) : m \in Cached}
  BY Zenon, <1>2, <1>3, NodeOpsRange
<1>5. CacheShape' /\ Cached' = Cached /\ Wanted' = UNION {Ops(m, list) : m \in Cached}
  <2>1. CacheShape' /\ Cached' = Cached
    BY Zenon, <1>1 DEF CacheShape, Cached
  <2> QED
    BY Zenon, <1>1, <2>1 DEF Wanted
<1>6. ASSUME NEW o \in Range(todo') PROVE o \in Wanted'
  <2>1. PICK m \in Cached : o \in Range(SetGauges(m, list))
    BY Zenon, <1>4
  <2>2. o \in Ops(m, list)
    BY Zenon, <2>1 DEF Ops
  <2> QED
    BY Zenon, <1>5, <2>2
<1>7. ASSUME NEW m \in Cached, NEW a, NEW b, NEW w \in Range(SetGauges(m, a))
      PROVE  \E o \in Range(SetGauges(m, b)) : Slot(o) = Slot(w)
  <2>1. \A c : Range(SetGauges(m, c)) =
                 {SetSeries("desired", m.labels, [of |-> m, nodes |-> c]),
                  SetSeries("schedulable", m.labels, [of |-> m, nodes |-> c])}
    BY Zenon, PairRange DEF SetGauges
  <2>2. \A f, c : Slot(SetSeries(f, m.labels, c)) = <<f, m.labels>>
    BY Zenon DEF SetSeries, Slot
  <2>3. PICK f : /\ w = SetSeries(f, m.labels, [of |-> m, nodes |-> a])
                 /\ SetSeries(f, m.labels, [of |-> m, nodes |-> b]) \in Range(SetGauges(m, b))
    BY Zenon, <2>1
  <2> QED
    BY Zenon, <2>2, <2>3
<1>8. ASSUME NEW w \in Wanted PROVE w \in Wanted' \/ Pending(Slot(w))'
  <2>1. PICK m \in Cached : w \in Ops(m, nodes)
    BY Zenon DEF Wanted
  <2>2. CASE w \in Range(update_for_service(m))
    <3>1. w \in Ops(m, list)
      BY Zenon, <2>2 DEF Ops
    <3> QED
      BY Zenon, <1>5, <3>1
  <2>3. CASE w \in Range(SetGauges(m, nodes))
    <3>1. \E o \in Range(SetGauges(m, list)) : Slot(o) = Slot(w)
      BY <1>7, <2>3
    <3> QED
      BY Zenon, <1>4, <3>1 DEF Pending
  <2> QED
    BY Zenon, <2>1, <2>2, <2>3 DEF Ops
<1>9. ASSUME NEW w \in Wanted' PROVE w \in Wanted \/ Pending(Slot(w))'
  <2>1. PICK m \in Cached : w \in Ops(m, list)
    BY Zenon, <1>5
  <2>2. CASE w \in Range(update_for_service(m))
    <3>1. w \in Ops(m, nodes)
      BY Zenon, <2>2 DEF Ops
    <3> QED
      BY Zenon, <3>1 DEF Wanted
  <2>3. CASE w \in Range(SetGauges(m, list))
    BY Zenon, <1>4, <2>3 DEF Pending
  <2> QED
    BY Zenon, <2>1, <2>2, <2>3 DEF Ops
<1> QED
  BY Zenon, <1>1, <1>4, <1>5, <1>6, <1>8, <1>9, ApplyStep

\* apply_service keeps the registry on its way, and every identity but the one it leaves.
LEMMA ApplyServiceStep ==
    ASSUME CacheShape, RegistryInv, NEW s \in Service, NEW l \in Identity(s), NEW u,
           ApplyService(s, [labels |-> l, update |-> u])
    PROVE  /\ CacheShape' /\ RegistryInv'
           /\ lasting' \subseteq lasting
           /\ \A k \in Labels(Cached) : k \in lasting' => k \in Labels(Cached)'
<1> DEFINE m == [labels |-> l, update |-> u]
<1>1. PICK N : N = {m}
  BY Zenon
<1>2. m.labels = l
  BY Zenon
<1>3. ApplyService(s, m)
  BY Zenon
<1>4. \E v : N = {[labels |-> l, update |-> v]}
  BY Zenon, <1>1
<1> HIDE DEF m
<1>0. Labels(N) = {m.labels}
  BY Zenon, <1>1 DEF Labels
<1>5. PICK left : left = Labels(metadata[s]) \ Labels(N)
  BY Zenon
<1>6. /\ todo = <<>> /\ gauge' = gauge /\ nodes' = nodes
      /\ metadata' = [metadata EXCEPT ![s] = N]
      /\ todo' = Deletions(left) \o SetGauges(m, nodes) \o update_for_service(m)
      /\ lasting' = lasting \ left
  BY Zenon, <1>0, <1>1, <1>3, <1>5 DEF ApplyService, Change, registry
<1>7. \A k \in Labels(Cached) : k \in left \/ k \in Labels(Cached)'
  BY Zenon, <1>4, <1>5, <1>6, KeptLabels
<1>8. todo' \in Seq(Range(todo')) /\ Range(todo') = Range(Deletions(left)) \cup Ops(m, nodes)
  <2> DEFINE a == Deletions(left)  b == SetGauges(m, nodes)  c == update_for_service(m)
             ab == a \o b
  <2>1. a \in Seq(Range(a))
    <3>1. left \subseteq Labels(metadata[s])
      BY Zenon, <1>5
    <3>2. left = {} \/ \E k : left = {k}
      BY Zenon, <3>1, LeftAlone
    <3> QED
      BY Zenon, <3>2, DeletionsFacts
  <2>2. b \in Seq(Range(b)) /\ c \in Seq(Range(c))
    BY Zenon, PairRange, UpdateOps DEF SetGauges
  <2>3. todo' = ab \o c /\ Ops(m, nodes) = Range(b) \cup Range(c)
    BY Zenon, <1>6 DEF Ops
  <2> HIDE DEF a, b, c
  <2>4. ab \in Seq(Range(ab)) /\ Range(ab) = Range(a) \cup Range(b)
    BY Zenon, <2>1, <2>2, ConcatRange
  <2> HIDE DEF ab
  <2>5. ab \o c \in Seq(Range(ab \o c)) /\ Range(ab \o c) = Range(ab) \cup Range(c)
    BY Zenon, <2>2, <2>4, ConcatRange
  <2> QED
    BY Zenon, <2>3, <2>4, <2>5 DEF a
<1>9. UNION {Ops(x, nodes) : x \in N} = Ops(m, nodes)
  BY Zenon, <1>1
<1>10. CacheShape' /\ RegistryInv'
  BY Zenon, <1>4, <1>5, <1>6, <1>8, <1>9, ServiceStep
<1> QED
  BY Zenon, <1>6, <1>7, <1>10

\* remove_service does too.
LEMMA RemoveServiceStep ==
    ASSUME CacheShape, RegistryInv, NEW s \in Service, RemoveService(s)
    PROVE  /\ CacheShape' /\ RegistryInv'
           /\ lasting' \subseteq lasting
           /\ \A k \in Labels(Cached) : k \in lasting' => k \in Labels(Cached)'
<1>1. PICK N : N = {}
  BY Zenon
<1>2. Labels(N) = {} /\ UNION {Ops(x, nodes) : x \in N} = {}
  BY Zenon, <1>1 DEF Labels
<1>5. PICK left : left = Labels(metadata[s]) \ Labels(N)
  BY Zenon
<1>6. left = Labels(metadata[s])
  BY Zenon, <1>2, <1>5
<1>7. /\ todo = <<>> /\ gauge' = gauge /\ nodes' = nodes
      /\ metadata' = [metadata EXCEPT ![s] = N]
      /\ todo' = Deletions(left)
      /\ lasting' = lasting \ left
  BY Zenon, <1>1, <1>6 DEF RemoveService, Change, registry
<1>8. \A k \in Labels(Cached) : k \in left \/ k \in Labels(Cached)'
  BY Zenon, <1>1, <1>5, <1>7, KeptLabels
<1>9. todo' \in Seq(Range(todo')) /\ Range(todo') = Range(Deletions(left)) \cup {}
  <2>1. left = {} \/ \E k : left = {k}
    BY Zenon, <1>6, LeftAlone
  <2>2. Deletions(left) \in Seq(Range(Deletions(left)))
    BY Zenon, <2>1, DeletionsFacts
  <2> QED
    BY Zenon, <1>7, <2>2
<1>10. CacheShape' /\ RegistryInv'
  BY Zenon, <1>1, <1>2, <1>5, <1>7, <1>9, ServiceStep
<1> QED
  BY Zenon, <1>7, <1>8, <1>10

-----------------------------------------------------------------------------
(* A scrape beside the applies *)

\* A step that shows the lasting services no less, and leaves the scrape alone.
LEMMA ScrapeKept ==
    ASSUME ScrapeInv, lasting' \subseteq lasting, lasting' \subseteq Labels(Cached)',
           \A l \in lasting' : \A f \in Vecs :
              \A k : <<f, k>> \in SlotsOf(l) => k \in DOMAIN gauge'[f],
           \A p \in published' : \A f, g \in ReplicaFamilies : p.series[f] = p.series[g],
           UNCHANGED scraping
    PROVE  ScrapeInv'
<1>1. scrape' = scrape /\ held' = held /\ seen' = seen
  BY Zenon DEF scraping
<1>2. \A f \in Vecs \cap DOMAIN seen' : \A l \in lasting' :
        \A k : <<f, k>> \in SlotsOf(l) => k \in seen'[f]
  BY Zenon, <1>1 DEF ScrapeInv
<1>3. \A p \in held' \cup published' :
        \A f, g \in ReplicaFamilies : p.series[f] = p.series[g]
  BY Zenon, <1>1 DEF ScrapeInv
<1>4. \A f \in ReplicaFamilies \cap DOMAIN seen' :
        /\ scrape' > 3
        /\ seen'[f] = {[poll |-> p.poll, series |-> p.series[f]] : p \in held'}
  BY Zenon, <1>1 DEF ScrapeInv
<1>5. scrape' \in 0 .. 10 /\ (scrape' = 0 => DOMAIN seen' = {})
  BY Zenon, <1>1 DEF ScrapeInv
<1> QED
  BY Zenon, <1>2, <1>3, <1>4, <1>5 DEF ScrapeInv

\* An operation takes no series of a cached service away.
LEMMA WriteKeeps ==
    ASSUME CacheShape, RegistryInv, ScrapeInv, Write
    PROVE  ScrapeInv'
<1>0. PICK op : op = Head(todo)
  BY Zenon
<1>1. Written(op)
  BY Zenon, <1>0, WriteGauge
<1>2. /\ Labels(Cached)' = Labels(Cached) /\ lasting' = lasting
      /\ published' = published /\ UNCHANGED scraping
  BY Zenon DEF Write, caches, polling, Cached, Labels
<1>3. ASSUME NEW l \in lasting, NEW f \in Vecs, NEW k, <<f, k>> \in SlotsOf(l)
      PROVE  k \in DOMAIN gauge'[f]
  <2>1. k \in DOMAIN gauge[f]
    BY Zenon, <1>3 DEF ScrapeInv
  <2>2. CASE <<f, k>> # Slot(op)
    BY Zenon, <1>1, <2>1, <2>2 DEF Written
  <2>3. CASE <<f, k>> = Slot(op)
    <3>1. f = op.family /\ k = op.key
      BY <2>3 DEF Slot
    <3>2. PICK m \in Cached : l = m.labels
      BY Zenon DEF ScrapeInv, Labels
    <3>3. \E w \in Wanted : Slot(w) = Slot(op)
      BY Zenon, <1>3, <2>3, <3>2, WantedSlots
    <3>4. op \in Wanted
      BY Zenon, <1>1, <3>3 DEF RegistryInv, Written
    <3> QED
      BY Zenon, <1>1, <3>1, <3>4 DEF Written, Shows
  <2> QED
    BY Zenon, <2>2, <2>3
<1>4. /\ lasting' \subseteq lasting /\ lasting' \subseteq Labels(Cached)'
      /\ \A l \in lasting' : \A f \in Vecs :
           \A k : <<f, k>> \in SlotsOf(l) => k \in DOMAIN gauge'[f]
      /\ \A p \in published' : \A f, g \in ReplicaFamilies : p.series[f] = p.series[g]
  BY Zenon, <1>2, <1>3 DEF ScrapeInv
<1> QED
  BY Zenon, <1>2, <1>4, ScrapeKept

\* An apply that keeps the lasting identities keeps what the scrape needs.
LEMMA ServiceKeeps ==
    ASSUME ScrapeInv, lasting' \subseteq lasting, gauge' = gauge, published' = published,
           \A k \in Labels(Cached) : k \in lasting' => k \in Labels(Cached)',
           UNCHANGED scraping
    PROVE  ScrapeInv'
<1>1. /\ lasting' \subseteq Labels(Cached)'
      /\ \A l \in lasting' : \A f \in Vecs :
           \A k : <<f, k>> \in SlotsOf(l) => k \in DOMAIN gauge'[f]
      /\ \A p \in published' : \A f, g \in ReplicaFamilies : p.series[f] = p.series[g]
  BY Zenon DEF ScrapeInv
<1> QED
  BY Zenon, <1>1, ScrapeKept

\* A step that touches neither the caches nor the registry.
LEMMA SameRegistry ==
    ASSUME CacheShape, RegistryInv,
           metadata' = metadata, nodes' = nodes, gauge' = gauge, todo' = todo
    PROVE  CacheShape' /\ RegistryInv' /\ Labels(Cached)' = Labels(Cached)
<1>1. CacheShape' /\ Cached' = Cached
  BY Zenon DEF CacheShape, Cached
<1>2. Wanted' = Wanted /\ Labels(Cached)' = Labels(Cached)
  BY Zenon, <1>1 DEF Wanted, Labels
<1>3. /\ \A slot : Pending(slot)' <=> Pending(slot)
      /\ \A op : Shows(op)' <=> Shows(op)
  BY Zenon DEF Pending, Shows
<1>4. RegistryInv'
  BY Zenon, <1>2, <1>3 DEF RegistryInv
<1> QED
  BY Zenon, <1>1, <1>2, <1>4

\* Where the scrape loads the replicas set, and where it reads from it.
LEMMA OrderFacts ==
    /\ Len(Order) = 9
    /\ \A i \in 1 .. 9 : /\ Order[i] = "load" => i = 3
                         /\ Order[i] \in ReplicaFamilies => i > 3
  BY DEF Order, ReplicaFamilies

\* What a scrape reads is kept.
LEMMA SawFacts ==
    ASSUME NEW family, NEW value, Saw(family, value)
    PROVE  /\ DOMAIN seen' = DOMAIN seen \cup {family} /\ seen'[family] = value /\ held' = held
           /\ \A f \in DOMAIN seen : f # family => seen'[f] = seen[f]
  BY Zenon DEF Saw, set_with

\* The steps of the scrape.
LEMMA ScrapeStep ==
    ASSUME CacheShape, RegistryInv, ScrapeInv, Scrape
    PROVE  CacheShape' /\ RegistryInv' /\ ScrapeInv'
<1>1. /\ metadata' = metadata /\ nodes' = nodes /\ gauge' = gauge /\ todo' = todo
      /\ published' = published
  BY Zenon DEF Scrape, BeginScrape, load, EndScrape, EncodeSnapshot, EncodeVec, Reading,
     caches, registry, polling
<1>2. CacheShape' /\ RegistryInv' /\ Labels(Cached)' = Labels(Cached)
  BY Zenon, <1>1, SameRegistry
<1>3. Labels(Cached)' = Labels(Cached)
  BY Zenon, <1>2
<1>4. ASSUME NEW family, Reading(family)
      PROVE  /\ lasting' = lasting /\ scrape' \in 0 .. 10 /\ scrape' # 0
             /\ scrape \in 1 .. 9 /\ Order[scrape] = family
             /\ scrape > 3 => scrape' > 3
             /\ family \in ReplicaFamilies => scrape' > 3
             /\ family = "load" => scrape = 3
  <2>1. /\ scrape \in 0 .. 10 /\ scrape > 0 /\ scrape <= Len(Order) /\ scrape' = scrape + 1
        /\ Order[scrape] = family /\ lasting' = lasting
    BY Zenon, <1>4 DEF Reading, ScrapeInv
  <2>2. scrape \in 1 .. 9 /\ scrape' \in 0 .. 10 /\ scrape' # 0 /\ (scrape > 3 => scrape' > 3)
    BY <2>1, OrderFacts
  <2> QED
    BY Zenon, <2>1, <2>2, OrderFacts
<1>5. CASE BeginScrape
  <2>1. /\ scrape = 0 /\ scrape' = 1 /\ lasting' = Complete /\ held' = held /\ seen' = seen
    BY Zenon, <1>5 DEF BeginScrape
  <2>2. DOMAIN seen' = {} /\ scrape' \in 0 .. 10 /\ scrape' # 0
    BY <2>1 DEF ScrapeInv
  <2>3. lasting' \subseteq Labels(Cached)'
    BY Zenon, <1>3, <2>1 DEF Complete
  <2>4. ASSUME NEW l \in lasting', NEW f \in Vecs, NEW k, <<f, k>> \in SlotsOf(l)
        PROVE  k \in DOMAIN gauge'[f]
    <3>1. PICK m \in Cached : l = m.labels
      BY Zenon, <1>3, <2>3 DEF Labels
    <3>2. PICK w \in Wanted : Slot(w) = <<f, k>>
      BY Zenon, <2>4, <3>1, WantedSlots
    <3>3. ~Pending(<<f, k>>)
      <4>1. SUFFICES ASSUME NEW op \in Range(todo), Slot(op) = <<f, k>> PROVE FALSE
        BY Zenon DEF Pending
      <4>2. op.key = k
        BY <4>1 DEF Slot
      <4>3. k = l \/ k \in {l} \X Range(KNOWN_STATES)
        BY <2>4 DEF SlotsOf
      <4>4. PICK i \in DOMAIN todo : op = todo[i]
        BY Zenon DEF Range
      <4>5. todo[i].key # l /\ todo[i].key \notin {l} \X Range(KNOWN_STATES)
        BY Zenon, <2>1 DEF Complete
      <4> QED
        BY Zenon, <4>2, <4>3, <4>4, <4>5
    <3>4. Shows(w)
      BY Zenon, <3>2, <3>3 DEF RegistryInv
    <3>5. w.family = f /\ w.key = k
      BY <3>2 DEF Slot
    <3> QED
      BY Zenon, <1>1, <3>4, <3>5 DEF Shows
  <2> QED
    BY Zenon, <1>1, <1>2, <2>1, <2>2, <2>3, <2>4 DEF ScrapeInv
<1>6. CASE load
  <2>1. Reading("load") /\ held' = published /\ seen' = seen
    BY Zenon, <1>6 DEF load
  <2>2. lasting' = lasting /\ scrape' \in 0 .. 10 /\ scrape' # 0 /\ scrape = 3
    BY Zenon, <1>4, <2>1
  <2>3. ~(scrape > 3)
    BY <2>2
  <2> QED
    BY Zenon, <1>1, <1>2, <1>3, <2>1, <2>2, <2>3 DEF ScrapeInv
<1>7. CASE EndScrape
  <2>1. scrape' = 0 /\ held' = {} /\ seen' = <<>> /\ lasting' = {}
    BY Zenon, <1>7 DEF EndScrape
  <2>2. DOMAIN seen' = {} /\ scrape' \in 0 .. 10
    BY <2>1
  <2> QED
    BY Zenon, <1>1, <1>2, <2>1, <2>2 DEF ScrapeInv
<1>8. ASSUME NEW f \in ReplicaFamilies, EncodeSnapshot(f)
      PROVE  ScrapeInv'
  <2>1. Reading(f) /\ Saw(f, {[poll |-> p.poll, series |-> p.series[f]] : p \in held})
    BY Zenon, <1>8 DEF EncodeSnapshot
  <2>2. lasting' = lasting /\ scrape' \in 0 .. 10 /\ scrape' # 0 /\ scrape' > 3
    BY Zenon, <1>4, <2>1
  <2>3. /\ DOMAIN seen' = DOMAIN seen \cup {f} /\ held' = held
        /\ seen'[f] = {[poll |-> p.poll, series |-> p.series[f]] : p \in held}
        /\ \A g \in DOMAIN seen : g # f => seen'[g] = seen[g]
    BY Zenon, <2>1, SawFacts
  <2>4. f \notin Vecs
    BY DEF Vecs, ReplicaFamilies
  <2>5. \A g \in Vecs \cap DOMAIN seen' : \A l \in lasting' :
          \A k : <<g, k>> \in SlotsOf(l) => k \in seen'[g]
    BY Zenon, <2>2, <2>3, <2>4 DEF ScrapeInv
  <2>6. \A g \in ReplicaFamilies \cap DOMAIN seen' :
          seen'[g] = {[poll |-> p.poll, series |-> p.series[g]] : p \in held'}
    <3>1. ASSUME NEW g \in ReplicaFamilies \cap DOMAIN seen, g # f
          PROVE  seen'[g] = {[poll |-> p.poll, series |-> p.series[g]] : p \in held'}
      <4>1. seen[g] = {[poll |-> p.poll, series |-> p.series[g]] : p \in held}
        BY Zenon DEF ScrapeInv
      <4> QED
        BY Zenon, <2>3, <3>1, <4>1
    <3>2. seen'[f] = {[poll |-> p.poll, series |-> p.series[f]] : p \in held'}
      BY Zenon, <2>3
    <3>3. \A g \in ReplicaFamilies \cap DOMAIN seen' :
            g = f \/ g \in ReplicaFamilies \cap DOMAIN seen
      BY Zenon, <2>3
    <3> QED
      BY Zenon, <3>1, <3>2, <3>3
  <2>7. /\ lasting' \subseteq Labels(Cached)'
        /\ \A l \in lasting' : \A h \in Vecs :
             \A k : <<h, k>> \in SlotsOf(l) => k \in DOMAIN gauge'[h]
        /\ \A p \in held' \cup published' :
             \A g, h \in ReplicaFamilies : p.series[g] = p.series[h]
    BY Zenon, <1>1, <1>3, <2>2, <2>3 DEF ScrapeInv
  <2> QED
    BY Zenon, <2>2, <2>5, <2>6, <2>7 DEF ScrapeInv
<1>9. ASSUME NEW f \in Vecs, EncodeVec(f)
      PROVE  ScrapeInv'
  <2>1. Reading(f) /\ Saw(f, DOMAIN gauge[f])
    BY Zenon, <1>9 DEF EncodeVec
  <2>2. lasting' = lasting /\ scrape' \in 0 .. 10 /\ scrape' # 0 /\ (scrape > 3 => scrape' > 3)
    BY Zenon, <1>4, <2>1
  <2>3. /\ DOMAIN seen' = DOMAIN seen \cup {f} /\ held' = held /\ seen'[f] = DOMAIN gauge[f]
        /\ \A g \in DOMAIN seen : g # f => seen'[g] = seen[g]
    BY Zenon, <2>1, SawFacts
  <2>4. f \notin ReplicaFamilies
    BY DEF Vecs, ReplicaFamilies
  <2>5. \A g \in Vecs \cap DOMAIN seen' : \A l \in lasting' :
          \A k : <<g, k>> \in SlotsOf(l) => k \in seen'[g]
    BY Zenon, <2>2, <2>3 DEF ScrapeInv
  <2>6. \A g \in ReplicaFamilies \cap DOMAIN seen' :
          /\ scrape' > 3
          /\ seen'[g] = {[poll |-> p.poll, series |-> p.series[g]] : p \in held'}
    BY Zenon, <2>2, <2>3, <2>4 DEF ScrapeInv
  <2>7. /\ lasting' \subseteq Labels(Cached)'
        /\ \A l \in lasting' : \A h \in Vecs :
             \A k : <<h, k>> \in SlotsOf(l) => k \in DOMAIN gauge'[h]
        /\ \A p \in held' \cup published' :
             \A g, h \in ReplicaFamilies : p.series[g] = p.series[h]
    BY Zenon, <1>1, <1>3, <2>2, <2>3 DEF ScrapeInv
  <2> QED
    BY Zenon, <2>2, <2>5, <2>6, <2>7 DEF ScrapeInv
<1> QED
  BY Zenon, <1>2, <1>5, <1>6, <1>7, <1>8, <1>9 DEF Scrape

-----------------------------------------------------------------------------
(* The theorems *)

\* The invariant of the registry and of the scrape.
EInv == CacheShape /\ RegistryInv /\ ScrapeInv

\* Nothing is cached and nothing is shown at the start.
LEMMA EInitInv == EInit => EInv
<1> SUFFICES ASSUME EInit PROVE EInv
  OBVIOUS
<1>1. /\ metadata = [s \in Service |-> {}] /\ gauge = [f \in Vecs |-> <<>>] /\ todo = <<>>
      /\ published = {} /\ scrape = 0 /\ held = {} /\ seen = <<>> /\ lasting = {}
  BY Zenon DEF EInit
<1>2. CacheShape /\ Cached = {}
  BY Zenon, <1>1 DEF CacheShape, Cached
<1>3. Wanted = {}
  BY Zenon, <1>2 DEF Wanted
<1>4. /\ DOMAIN <<>> = {} /\ Range(todo) = {} /\ todo \in Seq(Range(todo)) /\ scrape \in 0 .. 10
      /\ DOMAIN seen = {}
  BY <1>1 DEF Range
<1>5. /\ gauge = [f \in Vecs |-> gauge[f]]
      /\ \A f \in Vecs : DOMAIN gauge[f] = {}
  BY Zenon, <1>1, <1>4
<1>6. RegistryInv
  BY Zenon, <1>3, <1>4, <1>5 DEF RegistryInv
<1>7. ScrapeInv
  BY Zenon, <1>1, <1>4 DEF ScrapeInv
<1> QED
  BY Zenon, <1>2, <1>6, <1>7 DEF EInv

\* Every step keeps it.
LEMMA ENextInv == EInv /\ [ENext]_evars => EInv'
<1> SUFFICES ASSUME EInv, [ENext]_evars PROVE EInv'
  OBVIOUS
<1> USE DEF EInv
<1>1. ASSUME NEW s \in Service, RemoveService(s) PROVE EInv'
  <2>1. /\ CacheShape' /\ RegistryInv' /\ lasting' \subseteq lasting
        /\ \A k \in Labels(Cached) : k \in lasting' => k \in Labels(Cached)'
    BY Zenon, <1>1, RemoveServiceStep
  <2>2. gauge' = gauge /\ published' = published /\ UNCHANGED scraping
    BY Zenon, <1>1 DEF RemoveService, registry, polling
  <2> QED
    BY Zenon, <2>1, <2>2, ServiceKeeps
<1>2. ASSUME NEW s \in Service, NEW l \in Identity(s), NEW u \in UpdateStatus,
             ApplyService(s, [labels |-> l, update |-> u])
      PROVE  EInv'
  <2>1. /\ CacheShape' /\ RegistryInv' /\ lasting' \subseteq lasting
        /\ \A k \in Labels(Cached) : k \in lasting' => k \in Labels(Cached)'
    BY Zenon, <1>2, ApplyServiceStep
  <2>2. gauge' = gauge /\ published' = published /\ UNCHANGED scraping
    BY Zenon, <1>2 DEF ApplyService, registry, polling
  <2> QED
    BY Zenon, <2>1, <2>2, ServiceKeeps
<1>3. ASSUME NEW list \in NodeLists, ApplyNodes(list) PROVE EInv'
  <2>1. CacheShape' /\ RegistryInv'
    BY Zenon, <1>3, NodesStep
  <2>2. /\ gauge' = gauge /\ published' = published /\ lasting' = lasting /\ metadata' = metadata
        /\ UNCHANGED scraping
    BY Zenon, <1>3 DEF ApplyNodes, polling
  <2>3. Labels(Cached)' = Labels(Cached)
    BY Zenon, <2>2 DEF Cached, Labels
  <2> QED
    BY Zenon, <2>1, <2>2, <2>3, ServiceKeeps
<1>4. CASE Write
  <2>1. CacheShape'
    BY Zenon, <1>4 DEF Write, caches, CacheShape
  <2> QED
    BY Zenon, <1>4, <2>1, WriteStep, WriteKeeps
<1>5. CASE publish
  <2>1. /\ metadata' = metadata /\ nodes' = nodes /\ gauge' = gauge /\ todo' = todo
        /\ lasting' = lasting /\ UNCHANGED scraping
        /\ published' = {[poll |-> polls + 1,
                          series |-> [f \in ReplicaFamilies |-> Labels(Cached)]]}
    BY Zenon, <1>5 DEF publish, caches, registry
  <2>2. CacheShape' /\ RegistryInv' /\ Labels(Cached)' = Labels(Cached)
    BY Zenon, <2>1, SameRegistry
  <2>3. \A p \in published' : \A f, g \in ReplicaFamilies : p.series[f] = p.series[g]
    <3>1. ASSUME NEW p \in published', NEW f \in ReplicaFamilies
          PROVE  p.series[f] = Labels(Cached)
      <4>1. p = [poll |-> polls + 1, series |-> [h \in ReplicaFamilies |-> Labels(Cached)]]
        BY Zenon, <2>1
      <4>2. p.series = [h \in ReplicaFamilies |-> Labels(Cached)]
        BY Zenon, <4>1
      <4> QED
        BY Zenon, <4>2
    <3> QED
      BY Zenon, <3>1
  <2>4. /\ lasting' \subseteq lasting /\ lasting' \subseteq Labels(Cached)'
        /\ \A l \in lasting' : \A f \in Vecs :
             \A k : <<f, k>> \in SlotsOf(l) => k \in DOMAIN gauge'[f]
    BY Zenon, <2>1, <2>2 DEF ScrapeInv
  <2> QED
    BY Zenon, <2>1, <2>2, <2>3, <2>4, ScrapeKept
<1>6. CASE Scrape
  BY Zenon, <1>6, ScrapeStep
<1>7. CASE UNCHANGED evars
  <2>1. /\ metadata' = metadata /\ nodes' = nodes /\ gauge' = gauge /\ todo' = todo
        /\ lasting' = lasting /\ UNCHANGED scraping /\ published' = published
    BY Zenon, <1>7 DEF evars, caches, registry, polling
  <2>2. CacheShape' /\ RegistryInv' /\ Labels(Cached)' = Labels(Cached)
    BY Zenon, <2>1, SameRegistry
  <2> QED
    BY Zenon, <2>1, <2>2, ServiceKeeps
<1> QED
  BY Zenon, <1>1, <1>2, <1>3, <1>4, <1>5, <1>6, <1>7 DEF ENext, Apply

\* It says that the settled families are those of the cache.
LEMMA EInvSettled == EInv => SettledSeries
<1> SUFFICES ASSUME CacheShape, RegistryInv, todo = <<>> PROVE SettledSeries
  BY Zenon DEF EInv, SettledSeries
<1>1. \A slot : ~Pending(slot)
  <2>1. Range(todo) = {}
    BY DEF Range
  <2> QED
    BY Zenon, <2>1 DEF Pending
<1>2. ASSUME NEW f \in Vecs, NEW k \in DOMAIN gauge[f]
      PROVE  \E m \in Cached : <<f, k>> \in SlotsOf(m.labels)
  <2> DEFINE w == SetSeries(f, k, gauge[f][k])
  <2>1. w \in Wanted /\ Slot(w) = <<f, k>>
    BY Zenon, <1>1 DEF RegistryInv, SetSeries, Slot
  <2> HIDE DEF w
  <2> QED
    BY Zenon, <2>1, WantedOf
<1>3. ASSUME NEW m \in Cached, NEW w \in Ops(m, nodes)
      PROVE  Shows(w)
  <2>1. w \in Wanted
    BY Zenon DEF Wanted
  <2> QED
    BY Zenon, <1>1, <2>1 DEF RegistryInv
<1>4. ASSUME NEW m \in Cached, NEW f, NEW k, <<f, k>> \in SlotsOf(m.labels)
      PROVE  k \in DOMAIN gauge[f]
  <2>1. PICK w \in Wanted : Slot(w) = <<f, k>>
    BY Zenon, <1>4, WantedSlots
  <2>2. Shows(w)
    BY Zenon, <1>1, <2>1 DEF RegistryInv
  <2>3. w.family = f /\ w.key = k
    BY <2>1 DEF Slot
  <2> QED
    BY Zenon, <2>2, <2>3 DEF Shows
<1>5. ASSUME NEW f \in Vecs \ {"state"} PROVE DOMAIN gauge[f] = Labels(Cached)
  <2>1. \A k, l : <<f, k>> \in SlotsOf(l) <=> k = l
    BY DEF SlotsOf
  <2>2. DOMAIN gauge[f] \subseteq Labels(Cached)
    <3>1. ASSUME NEW k \in DOMAIN gauge[f] PROVE k \in Labels(Cached)
      <4>1. PICK m \in Cached : <<f, k>> \in SlotsOf(m.labels)
        BY Zenon, <1>2
      <4> QED
        <5>1. k = m.labels
          BY Zenon, <2>1, <4>1
        <5> QED
          BY Zenon, <5>1 DEF Labels
    <3> QED
      BY Zenon, <3>1
  <2>3. Labels(Cached) \subseteq DOMAIN gauge[f]
    BY Zenon, <1>4, <2>1 DEF Labels
  <2> QED
    BY Zenon, <2>2, <2>3
<1>6. DOMAIN gauge["state"] = Labels(Cached) \X Range(KNOWN_STATES)
  <2>1. \A k, l : <<"state", k>> \in SlotsOf(l) <=> k \in {l} \X Range(KNOWN_STATES)
    BY DEF SlotsOf
  <2>2. "state" \in Vecs
    BY DEF Vecs
  <2>3. ASSUME NEW k \in DOMAIN gauge["state"]
        PROVE  k \in Labels(Cached) \X Range(KNOWN_STATES)
    <3>1. PICK m \in Cached : k \in {m.labels} \X Range(KNOWN_STATES)
      BY Zenon, <1>2, <2>1, <2>2
    <3>2. m.labels \in Labels(Cached)
      BY Zenon DEF Labels
    <3> QED
      BY <3>1, <3>2
  <2>4. ASSUME NEW l \in Labels(Cached), NEW st \in Range(KNOWN_STATES)
        PROVE  <<l, st>> \in DOMAIN gauge["state"]
    <3>1. PICK m \in Cached : l = m.labels
      BY Zenon DEF Labels
    <3>2. <<"state", <<l, st>>>> \in SlotsOf(l)
      BY Zenon DEF SlotsOf
    <3> QED
      BY Zenon, <1>4, <3>1, <3>2
  <2> QED
    BY <2>3, <2>4
<1>7. ASSUME NEW m \in Cached
      PROVE  /\ gauge["desired"][m.labels] = [of |-> m, nodes |-> nodes]
             /\ gauge["schedulable"][m.labels] = [of |-> m, nodes |-> nodes]
             /\ \A st \in Range(KNOWN_STATES) :
                  gauge["state"][<<m.labels, st>>] = IF st = Current(m) THEN 1 ELSE 0
  <2>1. \A f, k, v : Shows(SetSeries(f, k, v)) => gauge[f][k] = v
    BY DEF Shows, SetSeries
  <2>2. /\ SetSeries("desired", m.labels, [of |-> m, nodes |-> nodes]) \in Ops(m, nodes)
        /\ SetSeries("schedulable", m.labels, [of |-> m, nodes |-> nodes]) \in Ops(m, nodes)
        /\ \A st \in Range(KNOWN_STATES) :
             SetSeries("state", <<m.labels, st>>, IF st = Current(m) THEN 1 ELSE 0)
               \in Ops(m, nodes)
    BY Zenon, OpsList
  <2> QED
    BY Zenon, <1>3, <2>1, <2>2
<1>8. ASSUME NEW m \in Cached
      PROVE  Cardinality({k \in Range(KNOWN_STATES) : gauge["state"][<<m.labels, k>>] = 1}) = 1
  <2>1. \A st \in Range(KNOWN_STATES) : gauge["state"][<<m.labels, st>>] = 1 <=> st = Current(m)
    <3>1. \A st \in Range(KNOWN_STATES) :
            gauge["state"][<<m.labels, st>>] = IF st = Current(m) THEN 1 ELSE 0
      BY Zenon, <1>7
    <3> QED
      BY <3>1
  <2>2. {k \in Range(KNOWN_STATES) : gauge["state"][<<m.labels, k>>] = 1} = {Current(m)}
    BY Zenon, <2>1, KnownStates
  <2> QED
    BY Zenon, <2>2, FS_Singleton
<1> QED
  BY Zenon, <1>5, <1>6, <1>7, <1>8 DEF SettledSeries

\* And that what a scrape read is whole.
LEMMA EInvWhole == EInv => ScrapeIsWhole
<1> SUFFICES ASSUME ScrapeInv PROVE ScrapeIsWhole
  BY Zenon DEF EInv
<1>1. ASSUME NEW f \in Vecs \cap DOMAIN seen, NEW l \in lasting
      PROVE  IF f = "state" THEN {l} \X Range(KNOWN_STATES) \subseteq seen[f] ELSE l \in seen[f]
  <2>1. \A k : <<f, k>> \in SlotsOf(l) => k \in seen[f]
    BY Zenon DEF ScrapeInv
  <2>2. CASE f = "state"
    <3>1. \A k \in {l} \X Range(KNOWN_STATES) : <<"state", k>> \in SlotsOf(l)
      BY DEF SlotsOf
    <3> QED
      BY Zenon, <2>1, <2>2, <3>1
  <2>3. CASE f # "state"
    <3>1. <<f, l>> \in SlotsOf(l)
      BY Zenon, <2>3 DEF SlotsOf
    <3> QED
      BY Zenon, <2>1, <2>3, <3>1
  <2> QED
    BY Zenon, <2>2, <2>3
<1>2. ASSUME NEW f \in ReplicaFamilies \cap DOMAIN seen, NEW g \in ReplicaFamilies \cap DOMAIN seen
      PROVE  seen[f] = seen[g]
  <2>1. /\ seen[f] = {[poll |-> p.poll, series |-> p.series[f]] : p \in held}
        /\ seen[g] = {[poll |-> p.poll, series |-> p.series[g]] : p \in held}
    BY Zenon DEF ScrapeInv
  <2>2. \A p \in held : p.series[f] = p.series[g]
    BY Zenon DEF ScrapeInv
  <2> QED
    BY Zenon, <2>1, <2>2
<1> QED
  BY Zenon, <1>1, <1>2 DEF ScrapeIsWhole

\* Between two applies the families hold exactly the series of the cached services,
\* with the counts of the cached metadata and nodes and one update state at 1, for
\* any services, identities, node lists and length of run.
THEOREM SettledCorrect == ESpec => []SettledSeries
<1>1. ESpec => []EInv
  BY EInitInv, ENextInv, PTL DEF ESpec
<1> QED
  BY <1>1, EInvSettled, PTL

\* A scrape shows whole the services that were whole when it began and kept their
\* identity, and replicas of one poll, whatever is applied and published meanwhile.
THEOREM ScrapeCorrect == ESpec => []ScrapeIsWhole
<1>1. ESpec => []EInv
  BY EInitInv, ENextInv, PTL DEF ESpec
<1> QED
  BY <1>1, EInvWhole, PTL

=============================================================================
