--------------------------- MODULE ListenerProofs ----------------------------
(***************************************************************************)
(* Why no change of the cluster is missed by the listener, and why no      *)
(* call it shares the client with outlives its deadline, for every set of  *)
(* tasks, timeout, margin, skew and bound: the invariants CallsEndInTime,  *)
(* HeldEventsArrive and EveryEventIsCovered; and that its backoff is the   *)
(* doubling its attempts call for: BackoffMatchesAttempts.                 *)
(*                                                                         *)
(* What is left of the time of a call and what has passed of it always     *)
(* add up to the timeout, also for a call that waits while another one     *)
(* connects, and time does not pass while a call has none left.            *)
(*                                                                         *)
(* For the events StreamInv relates the resume point to the stamp of what  *)
(* was not dispatched yet: a stamp is at most Skew before those of earlier *)
(* events, the resume point a margin of at least Skew before the last      *)
(* event seen, and rounding to seconds only moves it further back.         *)
(***************************************************************************)
EXTENDS Listener, FiniteSetTheorems, WellFoundedInduction, TLAPS

CallStates == {"idle", "cell", "request", "ok", "failed", "rest"}

CallInv ==
    /\ call \in [Caller -> CallStates]
    /\ left \in [Caller -> Nat] /\ age \in [Caller -> Nat]
    /\ \A c \in Caller : call[c] \in Pending => left[c] + age[c] = Timeout

\* A call that begins has all of its time.
LEMMA BeginStep ==
    ASSUME CallInv, NEW c \in Caller, BeginCall(c)
    PROVE  CallInv'
  BY ClientAssumption DEF CallInv, CallStates, Pending, BeginCall

\* A call that ends, by an answer, a failure or its deadline, is not pending.
LEMMA EndStep ==
    ASSUME CallInv, NEW c \in Caller,
           \/ Answered(c) \/ Fail(c) \/ Return(c, "idle") \/ Return(c, "rest")
    PROVE  CallInv'
<1>1. CASE Answered(c)
  BY Zenon, <1>1 DEF CallInv, CallStates, Pending, Answered
<1>2. CASE Fail(c)
  BY Zenon, <1>2 DEF CallInv, CallStates, Pending, Fail
<1>3. ASSUME NEW next \in {"idle", "rest"}, Return(c, next)
      PROVE  CallInv'
  BY Zenon, <1>3 DEF CallInv, CallStates, Pending, Return
<1> QED
  BY Zenon, <1>1, <1>2, <1>3

\* Whoever waits at the cell goes on with what is left of its time.
LEMMA NegotiatedStep ==
    ASSUME CallInv, Negotiated
    PROVE  CallInv'
  BY Zenon DEF CallInv, CallStates, Pending, Negotiated

\* Time passes only while every pending call has some left.
LEMMA TickStep ==
    ASSUME CallInv, Tick
    PROVE  CallInv'
<1>1. /\ left' = [c \in Caller |-> IF call[c] \in Pending THEN left[c] - 1 ELSE left[c]]
      /\ age' = [c \in Caller |-> IF call[c] \in Pending THEN age[c] + 1 ELSE age[c]]
      /\ call' = [c \in Caller |-> IF call[c] = "rest" THEN "idle" ELSE call[c]]
  BY Zenon DEF Tick, ClientTick
<1>2. \A c \in Caller : call[c] \in Pending => left[c] # 0
  BY Zenon DEF Tick, Ready, ClientReady
<1> QED
  BY <1>1, <1>2 DEF CallInv, CallStates, Pending

\* CallInv is inductive.
LEMMA CallStep ==
    CallInv /\ [LNext]_lvars => CallInv'
<1> SUFFICES ASSUME CallInv, [LNext]_lvars PROVE CallInv'
  BY Zenon
<1>1. CASE UNCHANGED <<call, left, age>>
  BY Zenon, <1>1 DEF CallInv
<1>2. CASE Connect
  BY Zenon, <1>2, BeginStep, ListenerAssumption DEF Connect
<1>3. CASE OpenStream \/ ConnectFails
  BY Zenon, <1>3, EndStep, ListenerAssumption DEF OpenStream, ConnectFails
<1>4. CASE Dispatch
  BY Zenon, <1>1, <1>4 DEF Dispatch, cvars
<1>5. CASE Stop
  BY Zenon, <1>5, ListenerAssumption DEF Stop, CallInv, CallStates, Pending
<1>6. CASE Connecting
  BY Zenon, <1>6, NegotiatedStep DEF Connecting
<1>7. CASE Tick
  BY Zenon, <1>7, TickStep
<1>8. ASSUME NEW c \in Caller, Calling(c)
      PROVE  CallInv'
  BY Zenon, <1>8, EndStep DEF Calling, TimesOut, OtherReturns
<1>9. ASSUME NEW c \in Caller, OtherCall(c)
      PROVE  CallInv'
  BY Zenon, <1>9, BeginStep DEF OtherCall
<1>10. CASE Recover \/ Silence
  BY Zenon, <1>1, <1>10 DEF Recover, Silence
<1>11. ASSUME NEW c \in Caller, CallFails(c)
       PROVE  CallInv'
  BY Zenon, <1>11, EndStep DEF CallFails
<1>12. CASE StreamEnds \/ Forget
  BY Zenon, <1>1, <1>12 DEF StreamEnds, Forget
<1>13. CASE Cancel
  BY Zenon, <1>1, <1>13 DEF Cancel, cvars
<1>14. ASSUME NEW lag \in 0 .. Skew, Emit(lag)
       PROVE  CallInv'
  BY Zenon, <1>1, <1>14 DEF Emit, cvars
<1>15. CASE UNCHANGED lvars
  BY Zenon, <1>1, <1>15 DEF lvars, cvars
<1> QED
  BY Zenon, <1>2, <1>3, <1>4, <1>5, <1>6, <1>7, <1>8, <1>9, <1>10, <1>11, <1>12, <1>13, <1>14,
     <1>15 DEF LNext, Listening

\* Every call answers its caller within the timeout, for any number of tasks
\* that share the connection, whoever of them makes it, and whatever the daemon
\* does: also a call that spends its time waiting for another one's negotiation.
THEOREM CallsCorrect ==
    LSpec => []CallsEndInTime
<1>1. LInit => CallInv
  BY DEF LInit, CInit, CallInv, CallStates, Pending
<1>2. CallInv => CallsEndInTime
  BY ClientAssumption DEF CallInv, CallsEndInTime
<1> QED
  BY <1>1, <1>2, CallStep, PTL DEF LSpec


-----------------------------------------------------------------------------
(* Events *)

\* The daemon's stamps are out of order by the skew at most; the listener resumes a
\* margin before now; what is on the way is in the daemon's order and not before the
\* resume point; the last event seen was sent before all that is on the way; and the
\* daemon forgets nothing before a first stream was lost.
StreamInv ==
    /\ emitted \in Seq(Nat) /\ stream \in Seq(DOMAIN emitted) /\ held \subseteq DOMAIN emitted
    /\ clock \in Nat /\ clock <= MaxTime /\ since \in Nat /\ since + EVENTS_SINCE_MARGIN <= clock
    /\ \A i \in DOMAIN emitted : emitted[i] <= clock
    /\ \A i, j \in DOMAIN emitted : i < j => emitted[i] <= emitted[j] + Skew
    /\ \A i, j \in DOMAIN stream : i < j => stream[i] < stream[j]
    /\ \A i \in DOMAIN stream : emitted[stream[i]] >= since
    /\ listener = "open" =>
         \A t \in last_seen : \E k \in DOMAIN emitted :
            t \in Nat /\ t <= emitted[k] /\ \A i \in DOMAIN stream : k < stream[i]
    /\ listener # "open" => stream = <<>>
    /\ reconnect \/ held = DOMAIN emitted
    /\ HeldEventsArrive /\ EveryEventIsCovered

\* A step that leaves the events and the stream alone.
LEMMA SameEvents ==
    ASSUME StreamInv, UNCHANGED <<daemon, listener, resume, stream, handed>>
    PROVE  StreamInv'
<1>1. /\ clock' = clock /\ emitted' = emitted /\ held' = held /\ listener' = listener
      /\ since' = since /\ last_seen' = last_seen /\ reconnect' = reconnect
      /\ stream' = stream /\ dispatched' = dispatched /\ covered' = covered
  BY Zenon DEF daemon, resume, handed
<1>2. HeldEventsArrive' /\ EveryEventIsCovered'
  BY Zenon, <1>1 DEF StreamInv, HeldEventsArrive, EveryEventIsCovered
<1> QED
  BY Zenon, <1>1, <1>2 DEF StreamInv

\* A step between two streams, or to the end.
LEMMA BetweenStreams ==
    ASSUME StreamInv, UNCHANGED <<daemon, since, handed>>,
           listener # "open" \/ listener' = "stopped", listener # "stopped",
           listener' # "open", stream' = <<>>, reconnect' \/ reconnect' = reconnect
    PROVE  StreamInv'
<1>1. /\ clock' = clock /\ emitted' = emitted /\ held' = held
      /\ since' = since /\ dispatched' = dispatched /\ covered' = covered
  BY Zenon DEF daemon, handed
<1>2. stream' \in Seq(DOMAIN emitted) /\ DOMAIN stream' = {}
  OBVIOUS
<1>3. Range(stream') = {} /\ (listener # "open" => Range(stream) = {})
  BY DEF Range, StreamInv
<1>4. HeldEventsArrive'
  BY Zenon, <1>1, <1>3 DEF StreamInv, HeldEventsArrive
<1>5. reconnect' \/ held' = DOMAIN emitted'
  BY Zenon, <1>1 DEF StreamInv
<1>6. EveryEventIsCovered'
  BY Zenon, <1>1, <1>5 DEF EveryEventIsCovered
<1> QED
  BY Zenon, <1>1, <1>2, <1>4, <1>5, <1>6 DEF StreamInv

\* The smaller of two numbers.
LEMMA MinOfTwo ==
    ASSUME NEW a \in Nat, NEW b \in Nat
    PROVE  Min({a, b}) = IF a <= b THEN a ELSE b
  BY DEF Min

\* What is on the way is of the events so far.
LEMMA StreamMonotone ==
    ASSUME NEW S, NEW T, S \subseteq T, NEW q \in Seq(S)
    PROVE  q \in Seq(T)
  OBVIOUS

\* An event is stamped the skew before now at most, which is after the resume point.
LEMMA EmitKeepsEvents ==
    ASSUME StreamInv, NEW lag \in 0 .. Skew, Emit(lag)
    PROVE  StreamInv'
<1> DEFINE n == Len(emitted) + 1
<1>1. /\ emitted' = Append(emitted, clock - lag) /\ held' = held \cup {Len(emitted')}
      /\ stream' = IF listener = "open" THEN Append(stream, Len(emitted')) ELSE stream
      /\ clock' = clock /\ listener' = listener /\ since' = since /\ last_seen' = last_seen
      /\ reconnect' = reconnect /\ dispatched' = dispatched /\ covered' = covered
  BY Zenon DEF Emit, resume, handed
<1>2. /\ emitted \in Seq(Nat) /\ stream \in Seq(DOMAIN emitted) /\ held \subseteq DOMAIN emitted
      /\ clock \in Nat /\ clock <= MaxTime /\ since \in Nat /\ since + EVENTS_SINCE_MARGIN <= clock
      /\ \A i \in DOMAIN emitted : emitted[i] <= clock
      /\ \A i, j \in DOMAIN emitted : i < j => emitted[i] <= emitted[j] + Skew
      /\ \A i, j \in DOMAIN stream : i < j => stream[i] < stream[j]
      /\ \A i \in DOMAIN stream : emitted[stream[i]] >= since
      /\ listener # "open" => stream = <<>>
      /\ reconnect \/ held = DOMAIN emitted
  BY Zenon DEF StreamInv
<1>3. /\ clock - lag \in Nat /\ clock - lag >= since /\ clock - lag <= clock
      /\ clock <= (clock - lag) + Skew /\ lag \in Nat /\ Skew \in Nat
  <2>1. EVENTS_SINCE_MARGIN \in Nat /\ Skew \in Nat /\ Skew <= EVENTS_SINCE_MARGIN
    BY ListenerAssumption
  <2>2. clock \in Nat /\ since \in Nat /\ since + EVENTS_SINCE_MARGIN <= clock
    BY Zenon, <1>2
  <2> QED
    BY <2>1, <2>2
<1>4. /\ Len(emitted) \in Nat /\ DOMAIN emitted = 1 .. Len(emitted)
      /\ emitted' \in Seq(Nat) /\ Len(emitted') = n /\ DOMAIN emitted' = DOMAIN emitted \cup {n}
      /\ emitted'[n] = clock - lag /\ \A i \in DOMAIN emitted : emitted'[i] = emitted[i] /\ i < n
      /\ n \in Nat /\ \A i \in DOMAIN emitted : i \in Nat /\ emitted[i] \in Nat
  <2>1. PICK v \in Nat : v = clock - lag
    BY Zenon, <1>3
  <2>2. emitted \in Seq(Nat) /\ emitted' = Append(emitted, v)
    BY Zenon, <1>1, <1>2, <2>1
  <2>3. /\ Len(emitted) \in Nat /\ DOMAIN emitted = 1 .. Len(emitted)
        /\ emitted' \in Seq(Nat) /\ Len(emitted') = Len(emitted) + 1
        /\ emitted'[Len(emitted) + 1] = v
        /\ \A i \in 1 .. Len(emitted) : emitted'[i] = emitted[i] /\ emitted[i] \in Nat
    BY <2>2
  <2>4. DOMAIN emitted' = 1 .. (Len(emitted) + 1)
    BY <2>3
  <2> QED
    BY <2>1, <2>3, <2>4
<1> HIDE DEF n
<1>5. /\ held' = held \cup {n} /\ held' \subseteq DOMAIN emitted'
      /\ reconnect' \/ held' = DOMAIN emitted'
  BY Zenon, <1>1, <1>2, <1>4
<1>6. /\ \A i \in DOMAIN emitted' : emitted'[i] <= clock'
      /\ \A i, j \in DOMAIN emitted' : i < j => emitted'[i] <= emitted'[j] + Skew
  <2>1. n \in Nat /\ \A i \in DOMAIN emitted : i \in Nat /\ emitted[i] \in Nat
    BY Zenon, <1>4
  <2>2. ASSUME NEW i \in DOMAIN emitted' PROVE emitted'[i] <= clock'
    BY Zenon, <1>1, <1>2, <1>3, <1>4
  <2>3. ASSUME NEW i \in DOMAIN emitted', NEW j \in DOMAIN emitted', i < j
        PROVE  emitted'[i] <= emitted'[j] + Skew
    <3>1. i \in DOMAIN emitted
      BY <1>4, <2>1, <2>3
    <3>2. CASE j = n
      <4>1. emitted[i] <= clock /\ emitted'[i] = emitted[i] /\ emitted'[j] = clock - lag
        BY Zenon, <1>2, <1>4, <3>1, <3>2
      <4>2. emitted[i] \in Nat /\ clock \in Nat
        BY Zenon, <1>2, <2>1, <3>1
      <4> QED
        BY <1>3, <4>1, <4>2
    <3>3. CASE j \in DOMAIN emitted
      BY Zenon, <1>2, <1>4, <2>3, <3>1, <3>3
    <3> QED
      BY Zenon, <1>4, <3>2, <3>3
  <2> QED
    BY Zenon, <2>2, <2>3
<1>7. /\ stream' \in Seq(DOMAIN emitted')
      /\ \A i, j \in DOMAIN stream' : i < j => stream'[i] < stream'[j]
      /\ \A i \in DOMAIN stream' : \/ stream'[i] = n
                                   \/ i \in DOMAIN stream /\ stream'[i] = stream[i]
      /\ \A i \in DOMAIN stream : i \in DOMAIN stream' /\ stream'[i] = stream[i]
      /\ listener = "open" => \E i \in DOMAIN stream' : stream'[i] = n
  <2>1. CASE listener = "open"
    <3>1. /\ stream \in Seq(DOMAIN emitted') /\ n \in DOMAIN emitted'
          /\ stream' = Append(stream, n)
      BY Zenon, <1>1, <1>2, <1>4, <2>1, StreamMonotone
    <3>2. /\ stream' \in Seq(DOMAIN emitted') /\ Len(stream) \in Nat
          /\ DOMAIN stream = 1 .. Len(stream) /\ DOMAIN stream' = 1 .. (Len(stream) + 1)
          /\ stream'[Len(stream) + 1] = n
          /\ \A i \in DOMAIN stream : stream'[i] = stream[i] /\ stream[i] \in DOMAIN emitted
      <4>1. stream \in Seq(DOMAIN emitted)
        BY Zenon, <1>2
      <4>2. /\ stream' \in Seq(DOMAIN emitted') /\ Len(stream) \in Nat
            /\ DOMAIN stream = 1 .. Len(stream) /\ Len(stream') = Len(stream) + 1
            /\ stream'[Len(stream) + 1] = n
            /\ \A i \in 1 .. Len(stream) : stream'[i] = stream[i]
        BY ONLY <3>1, SMT
      <4>3. DOMAIN stream' = 1 .. (Len(stream) + 1)
        BY ONLY <4>2, SMT
      <4>4. \A i \in DOMAIN stream : stream[i] \in DOMAIN emitted
        BY ONLY <4>1, SMT
      <4> QED
        BY Zenon, <4>2, <4>3, <4>4
    <3>3. \A i, j \in DOMAIN stream : i < j => stream[i] < stream[j]
      BY Zenon, <1>2
    <3>4. \A i \in DOMAIN stream : stream[i] < n
      BY Zenon, <1>4, <3>2
    <3>5. \A i \in DOMAIN stream' : i = Len(stream) + 1 \/ i \in DOMAIN stream
      BY <3>2
    <3>6. \A i, j \in DOMAIN stream' : i < j => i \in DOMAIN stream
      BY <3>2
    <3>7. Len(stream) + 1 \in DOMAIN stream' /\ \A i \in DOMAIN stream : i \in DOMAIN stream'
      BY <3>2
    <3>8. ASSUME NEW i \in DOMAIN stream', NEW j \in DOMAIN stream', i < j
          PROVE  stream'[i] < stream'[j]
      <4>1. i \in DOMAIN stream
        BY Zenon, <3>6, <3>8
      <4>2. CASE j = Len(stream) + 1
        BY Zenon, <3>2, <3>4, <4>1, <4>2
      <4>3. CASE j \in DOMAIN stream
        BY Zenon, <3>2, <3>3, <3>8, <4>1, <4>3
      <4> QED
        BY Zenon, <3>5, <4>2, <4>3
    <3> QED
      BY Zenon, <3>2, <3>5, <3>7, <3>8
  <2>2. CASE listener # "open"
    BY <1>1, <1>2, <2>2
  <2> QED
    BY Zenon, <2>1, <2>2
<1>8. \A i \in DOMAIN stream : stream[i] \in DOMAIN emitted
  BY <1>2
<1>9. \A i \in DOMAIN stream' : emitted'[stream'[i]] >= since'
  <2>1. ASSUME NEW i \in DOMAIN stream' PROVE emitted'[stream'[i]] >= since
    <3>1. CASE stream'[i] = n
      BY Zenon, <1>3, <1>4, <3>1
    <3>2. CASE i \in DOMAIN stream /\ stream'[i] = stream[i]
      <4>1. emitted[stream[i]] >= since /\ emitted'[stream[i]] = emitted[stream[i]]
        BY Zenon, <1>2, <1>4, <1>8, <3>2
      <4> QED
        BY Zenon, <3>2, <4>1
    <3> QED
      BY Zenon, <1>7, <3>1, <3>2
  <2> QED
    BY Zenon, <1>1, <2>1
<1>10. ASSUME listener' = "open", NEW t \in last_seen'
       PROVE  \E k \in DOMAIN emitted' :
                t \in Nat /\ t <= emitted'[k] /\ \A i \in DOMAIN stream' : k < stream'[i]
  <2>1. PICK k \in DOMAIN emitted :
          t \in Nat /\ t <= emitted[k] /\ \A i \in DOMAIN stream : k < stream[i]
    BY Zenon, <1>1, <1>10 DEF StreamInv
  <2>2. k \in DOMAIN emitted' /\ emitted'[k] = emitted[k] /\ k < n
    BY Zenon, <1>4, <2>1
  <2>3. ASSUME NEW i \in DOMAIN stream' PROVE k < stream'[i]
    BY Zenon, <1>7, <2>1, <2>2, <2>3
  <2> QED
    BY Zenon, <2>1, <2>2, <2>3
<1>11. Range(stream) \subseteq Range(stream') /\ (listener = "open" => n \in Range(stream'))
  BY Zenon, <1>7 DEF Range
<1>12. HeldEventsArrive'
  <2>1. ASSUME listener # "stopped", NEW i \in held
        PROVE  \/ i \in dispatched' \/ i \in Range(stream')
               \/ listener' # "open" /\ emitted'[i] >= since'
    BY Zenon, <1>1, <1>2, <1>4, <1>11, <2>1 DEF StreamInv, HeldEventsArrive
  <2> QED
    BY Zenon, <1>1, <1>3, <1>4, <1>5, <1>11, <2>1 DEF HeldEventsArrive
<1>13. EveryEventIsCovered'
  <2>1. ASSUME listener # "stopped", NEW i \in DOMAIN emitted
        PROVE  \/ i \in dispatched' \/ i \in Range(stream') \/ i <= covered'
               \/ listener' # "open" /\ (reconnect' \/ i \in held')
    BY Zenon, <1>1, <1>5, <1>11, <2>1 DEF StreamInv, EveryEventIsCovered
  <2> QED
    BY Zenon, <1>1, <1>4, <1>5, <1>11, <2>1 DEF EveryEventIsCovered
<1> QED
  BY Zenon, <1>1, <1>2, <1>4, <1>5, <1>6, <1>7, <1>9, <1>10, <1>12, <1>13 DEF StreamInv

\* A time in whole seconds is not after the time.
LEMMA SecondsFloor ==
    ASSUME NEW v \in Nat
    PROVE  (v \div Second) * Second \in Nat /\ (v \div Second) * Second <= v
<1>1. Second \in Nat \ {0}
  BY ListenerAssumption
<1>2. v = Second * (v \div Second) + (v % Second) /\ v % Second \in Nat /\ v \div Second \in Nat
  BY <1>1
<1>3. PICK a \in Nat, b \in Nat : a = Second * (v \div Second) /\ b = v % Second
  BY <1>1, <1>2
<1> QED
  BY <1>1, <1>2, <1>3

\* The first event on the way is handed over; the others were sent after it.
LEMMA DispatchKeepsEvents ==
    ASSUME StreamInv, Dispatch
    PROVE  StreamInv'
<1>1. PICK h : h = Head(stream)
  BY Zenon
<1>2. PICK seen \in event_time(emitted[h]) : last_seen' = IF seen = {} THEN last_seen ELSE seen
  BY Zenon, <1>1 DEF Dispatch
<1>3. /\ listener = "open" /\ stream # <<>> /\ stream' = Tail(stream)
      /\ dispatched' = dispatched \cup {h}
      /\ clock' = clock /\ emitted' = emitted /\ held' = held /\ listener' = listener
      /\ since' = since /\ reconnect' = reconnect /\ covered' = covered
  BY Zenon, <1>1 DEF Dispatch, daemon
<1>4. /\ emitted \in Seq(Nat) /\ stream \in Seq(DOMAIN emitted)
      /\ \A i, j \in DOMAIN stream : i < j => stream[i] < stream[j]
      /\ \A i \in DOMAIN stream : emitted[stream[i]] >= since
  BY Zenon DEF StreamInv
<1>5. /\ stream' \in Seq(DOMAIN emitted) /\ h \in DOMAIN emitted /\ h = stream[1]
      /\ Len(stream) \in Nat /\ Len(stream) # 0
      /\ DOMAIN stream = 1 .. Len(stream) /\ DOMAIN stream' = 1 .. (Len(stream) - 1)
      /\ \A i \in DOMAIN stream' : stream'[i] = stream[i + 1]
  BY <1>1, <1>3, <1>4
<1>6. /\ 1 \in DOMAIN stream
      /\ \A i \in DOMAIN stream' : i + 1 \in DOMAIN stream /\ 1 < i + 1
      /\ \A i, j \in DOMAIN stream' : i < j => i + 1 < j + 1
      /\ \A i \in DOMAIN stream : i = 1 \/ (i - 1 \in DOMAIN stream' /\ (i - 1) + 1 = i)
  BY <1>5
<1>7. /\ \A i, j \in DOMAIN stream' : i < j => stream'[i] < stream'[j]
      /\ \A i \in DOMAIN stream' : emitted[stream'[i]] >= since /\ h < stream'[i]
  BY Zenon, <1>4, <1>5, <1>6
<1>8. \A i \in Range(stream) : i = h \/ i \in Range(stream')
  <2>1. ASSUME NEW i \in DOMAIN stream PROVE stream[i] = h \/ stream[i] \in Range(stream')
    <3>1. CASE i = 1
      BY Zenon, <1>5, <3>1
    <3>2. CASE i - 1 \in DOMAIN stream' /\ (i - 1) + 1 = i
      BY Zenon, <1>5, <3>2 DEF Range
    <3> QED
      BY Zenon, <1>6, <3>1, <3>2
  <2> QED
    BY Zenon, <2>1 DEF Range
<1>9. ASSUME NEW t \in last_seen'
      PROVE  \E k \in DOMAIN emitted :
               t \in Nat /\ t <= emitted[k] /\ \A i \in DOMAIN stream' : k < stream'[i]
  <2>1. CASE seen = {}
    <3>1. PICK k \in DOMAIN emitted :
            t \in Nat /\ t <= emitted[k] /\ \A i \in DOMAIN stream : k < stream[i]
      BY Zenon, <1>2, <1>3, <1>9, <2>1 DEF StreamInv
    <3>2. \A i \in DOMAIN stream' : k < stream'[i]
      BY Zenon, <1>5, <1>6, <3>1
    <3> QED
      BY Zenon, <3>1, <3>2
  <2>2. CASE seen # {}
    <3>1. t \in seen
      BY Zenon, <1>2, <1>9, <2>2
    <3>2. PICK v \in Nat : v = emitted[h]
      BY <1>4, <1>5
    <3>3. t = v \/ t = (v \div Second) * Second
      BY Zenon, <1>2, <3>1, <3>2 DEF event_time
    <3>4. t \in Nat /\ t <= v
      BY <3>3, SecondsFloor
    <3> QED
      BY Zenon, <1>5, <1>7, <3>2, <3>4
  <2> QED
    BY Zenon, <2>1, <2>2
<1>10. HeldEventsArrive' /\ EveryEventIsCovered'
  BY Zenon, <1>3, <1>8 DEF StreamInv, HeldEventsArrive, EveryEventIsCovered
<1> QED
  BY Zenon, <1>3, <1>5, <1>7, <1>9, <1>10 DEF StreamInv

\* The resume point moves with an event seen, a margin before it, and so not past an
\* event that was on the way.
LEMMA EndKeepsEvents ==
    ASSUME StreamInv, StreamEnds
    PROVE  StreamInv'
<1>1. /\ listener = "open" /\ listener' = "backoff" /\ reconnect' /\ stream' = <<>>
      /\ since' = IF last_seen = {} THEN since ELSE with_margin(CHOOSE t \in last_seen : TRUE)
      /\ clock' = clock /\ emitted' = emitted /\ held' = held
      /\ dispatched' = dispatched /\ covered' = covered
  BY Zenon DEF StreamEnds, Ended, daemon, handed
<1>2. /\ emitted \in Seq(Nat) /\ stream \in Seq(DOMAIN emitted)
      /\ clock \in Nat /\ since \in Nat /\ since + EVENTS_SINCE_MARGIN <= clock
      /\ \A i \in DOMAIN emitted : emitted[i] <= clock
      /\ \A i, j \in DOMAIN emitted : i < j => emitted[i] <= emitted[j] + Skew
      /\ \A i \in DOMAIN stream : emitted[stream[i]] >= since
  BY Zenon DEF StreamInv
<1>3. /\ EVENTS_SINCE_MARGIN \in Nat /\ Skew \in Nat /\ Skew <= EVENTS_SINCE_MARGIN
  BY ListenerAssumption
<1>4. /\ \A i \in DOMAIN emitted : i \in Nat /\ emitted[i] \in Nat
      /\ \A i \in DOMAIN stream : stream[i] \in DOMAIN emitted
  BY <1>2
<1>5. /\ since' \in Nat /\ since' + EVENTS_SINCE_MARGIN <= clock
      /\ \A i \in DOMAIN stream : emitted[stream[i]] >= since'
  <2>1. CASE last_seen = {}
    BY Zenon, <1>1, <1>2, <2>1
  <2>2. CASE last_seen # {}
    <3>1. PICK t \in last_seen : since' = with_margin(t)
      BY Zenon, <1>1, <2>2
    <3>2. PICK k \in DOMAIN emitted :
            t \in Nat /\ t <= emitted[k] /\ \A i \in DOMAIN stream : k < stream[i]
      BY Zenon, <1>1 DEF StreamInv
    <3>3. emitted[k] \in Nat /\ emitted[k] <= clock /\ clock \in Nat
      BY Zenon, <1>2, <1>4
    <3>4. /\ since' \in Nat /\ since' + EVENTS_SINCE_MARGIN <= clock
      <4>1. EVENTS_SINCE_MARGIN <= clock
        BY <1>2, <1>3
      <4> QED
        BY <1>3, <3>1, <3>2, <3>3, <4>1 DEF with_margin
    <3>5. ASSUME NEW i \in DOMAIN stream PROVE emitted[stream[i]] >= since'
      <4>1. PICK v \in Nat : v = emitted[stream[i]]
        BY Zenon, <1>4
      <4>2. emitted[k] <= v + Skew
        BY Zenon, <1>2, <1>4, <3>2, <4>1
      <4>3. v >= since'
        BY <1>3, <3>1, <3>2, <3>3, <4>2 DEF with_margin
      <4> QED
        BY Zenon, <4>1, <4>3
    <3> QED
      BY Zenon, <3>4, <3>5
  <2> QED
    BY Zenon, <2>1, <2>2
<1>6. HeldEventsArrive'
  <2>1. ASSUME NEW i \in held, i \in Range(stream) PROVE emitted[i] >= since'
    BY Zenon, <1>5, <2>1 DEF Range
  <2>2. \A i \in held : i \in dispatched \/ i \in Range(stream)
    BY Zenon, <1>1 DEF StreamInv, HeldEventsArrive
  <2>3. listener' # "open"
    BY <1>1
  <2> QED
    BY Zenon, <1>1, <2>1, <2>2, <2>3 DEF HeldEventsArrive
<1>7. EveryEventIsCovered' /\ listener' # "open"
  BY <1>1 DEF EveryEventIsCovered
<1>8. stream' \in Seq(DOMAIN emitted) /\ DOMAIN stream' = {}
  BY <1>1
<1> QED
  BY Zenon, <1>1, <1>2, <1>5, <1>6, <1>7, <1>8 DEF StreamInv

\* A stream starts with what the daemon holds from the resume point on; after a
\* reconnect it comes with a resync.
LEMMA OpenKeepsEvents ==
    ASSUME StreamInv, OpenStream
    PROVE  StreamInv'
<1> DEFINE missed == {i \in held : emitted[i] >= since}
           n == Cardinality(missed)
<1>1. /\ listener = "call" /\ listener' = "open" /\ stream' \in Replay /\ last_seen' = {}
      /\ covered' = IF reconnect THEN Len(emitted) ELSE covered
      /\ clock' = clock /\ emitted' = emitted /\ held' = held /\ since' = since
      /\ reconnect' = reconnect /\ dispatched' = dispatched
  BY Zenon DEF OpenStream, daemon
<1>2. /\ stream' \in [1 .. n -> missed] /\ \A x \in missed : \E i \in 1 .. n : stream'[i] = x
      /\ \A i, j \in DOMAIN stream' : i < j => stream'[i] < stream'[j]
  BY Zenon, <1>1 DEF Replay, Bijection, Surjection
<1>3. /\ emitted \in Seq(Nat) /\ held \subseteq DOMAIN emitted
      /\ stream = <<>> /\ (reconnect \/ held = DOMAIN emitted)
  BY <1>1 DEF StreamInv
<1>4. n \in Nat
  <2>1. IsFiniteSet(DOMAIN emitted)
    <3>1. Len(emitted) \in Nat /\ DOMAIN emitted = 1 .. Len(emitted)
      BY <1>3
    <3> QED
      BY <3>1, FS_Interval
  <2>2. missed \subseteq DOMAIN emitted
    BY Zenon, <1>3
  <2> HIDE DEF missed
  <2>3. IsFiniteSet(missed)
    BY Zenon, <2>1, <2>2, FS_Subset
  <2> QED
    BY Zenon, <2>3, FS_CardinalityType
<1>5. \A i \in DOMAIN stream' : stream'[i] \in held /\ emitted[stream'[i]] >= since
  BY Zenon, <1>2
<1>6. missed \subseteq Range(stream')
  BY Zenon, <1>2 DEF Range
<1>7. stream' \in Seq(DOMAIN emitted)
  <2>1. \A i \in 1 .. n : stream'[i] \in DOMAIN emitted
    BY Zenon, <1>2, <1>3
  <2>2. stream' = [i \in 1 .. n |-> stream'[i]]
    BY Zenon, <1>2
  <2> HIDE DEF n
  <2>3. [i \in 1 .. n |-> stream'[i]] \in Seq(DOMAIN emitted)
    BY <1>4, <2>1
  <2> QED
    BY Zenon, <2>2, <2>3
<1>8. \A i \in held : i \in dispatched \/ i \in Range(stream')
  <2>1. Range(stream) = {} /\ listener # "stopped"
    BY <1>1, <1>3 DEF Range
  <2> QED
    BY Zenon, <1>6, <2>1 DEF StreamInv, HeldEventsArrive
<1>9. \A i \in DOMAIN emitted : i \in dispatched \/ i \in Range(stream') \/ i <= covered'
  <2>1. CASE reconnect
    <3>1. covered' = Len(emitted)
      BY Zenon, <1>1, <2>1
    <3>2. DOMAIN emitted = 1 .. Len(emitted) /\ Len(emitted) \in Nat
      BY <1>3
    <3> QED
      BY <3>1, <3>2
  <2>2. CASE held = DOMAIN emitted
    BY Zenon, <1>8, <2>2
  <2> QED
    BY Zenon, <1>3, <2>1, <2>2
<1>10. HeldEventsArrive' /\ EveryEventIsCovered'
  BY Zenon, <1>1, <1>8, <1>9 DEF HeldEventsArrive, EveryEventIsCovered
<1> QED
  BY Zenon, <1>1, <1>2, <1>5, <1>7, <1>10 DEF StreamInv

\* Time passes, and the daemon may forget after a stream was lost.
LEMMA TimeKeepsEvents ==
    ASSUME StreamInv, Tick \/ Forget
    PROVE  StreamInv'
<1>1. CASE Tick
  <2>1. /\ clock' = Min({clock + 1, MaxTime})
        /\ emitted' = emitted /\ held' = held /\ listener' = listener
        /\ since' = since /\ last_seen' = last_seen /\ reconnect' = reconnect
        /\ stream' = stream /\ dispatched' = dispatched /\ covered' = covered
    BY Zenon, <1>1 DEF Tick, resume, handed
  <2>2. /\ clock \in Nat /\ clock <= MaxTime /\ since \in Nat
        /\ since + EVENTS_SINCE_MARGIN <= clock /\ emitted \in Seq(Nat)
        /\ \A i \in DOMAIN emitted : emitted[i] <= clock
    BY Zenon DEF StreamInv
  <2>3. MaxTime \in Nat /\ EVENTS_SINCE_MARGIN \in Nat
    BY ListenerAssumption
  <2>4. clock + 1 \in Nat
    BY <2>2
  <2>5. clock' = IF clock + 1 <= MaxTime THEN clock + 1 ELSE MaxTime
    BY Zenon, <2>1, <2>3, <2>4, MinOfTwo
  <2>6. /\ clock' \in Nat /\ clock' <= MaxTime /\ since + EVENTS_SINCE_MARGIN <= clock'
        /\ \A i \in DOMAIN emitted : emitted[i] <= clock'
    BY <2>2, <2>3, <2>5
  <2>7. HeldEventsArrive' /\ EveryEventIsCovered'
    BY Zenon, <2>1 DEF StreamInv, HeldEventsArrive, EveryEventIsCovered
  <2> QED
    BY Zenon, <2>1, <2>6, <2>7 DEF StreamInv
<1>2. CASE Forget
  <2>1. /\ reconnect /\ held' = {}
        /\ clock' = clock /\ emitted' = emitted /\ listener' = listener
        /\ since' = since /\ last_seen' = last_seen /\ reconnect' = reconnect
        /\ stream' = stream /\ dispatched' = dispatched /\ covered' = covered
    BY Zenon, <1>2 DEF Forget, resume, handed
  <2>2. HeldEventsArrive' /\ EveryEventIsCovered'
    BY Zenon, <2>1 DEF StreamInv, HeldEventsArrive, EveryEventIsCovered
  <2> QED
    BY Zenon, <2>1, <2>2 DEF StreamInv
<1> QED
  BY Zenon, <1>1, <1>2

\* StreamInv is inductive.
LEMMA EventsStep ==
    StreamInv /\ [LNext]_lvars => StreamInv'
<1> SUFFICES ASSUME StreamInv, [LNext]_lvars PROVE StreamInv'
  BY Zenon
<1>1. CASE UNCHANGED <<daemon, listener, resume, stream, handed>>
  BY Zenon, <1>1, SameEvents
<1>2. CASE Connect
  <2>1. /\ UNCHANGED <<daemon, resume, stream, handed>> /\ listener' = "call"
        /\ listener = "start" \/ listener = "backoff"
    BY Zenon, <1>2 DEF Connect
  <2>2. /\ UNCHANGED <<daemon, since, handed>> /\ reconnect' = reconnect
        /\ stream' = stream /\ listener # "open" /\ listener # "stopped" /\ listener' # "open"
    BY <2>1 DEF resume
  <2>3. stream' = <<>>
    BY Zenon, <2>2 DEF StreamInv
  <2> QED
    BY Zenon, <2>2, <2>3, BetweenStreams
<1>3. CASE OpenStream
  BY Zenon, <1>3, OpenKeepsEvents
<1>4. CASE ConnectFails
  <2>1. /\ UNCHANGED <<daemon, handed>> /\ listener = "call" /\ listener' = "backoff"
        /\ reconnect' /\ stream' = <<>> /\ since' = since
    BY Zenon, <1>4 DEF ConnectFails, Ended
  <2>2. /\ UNCHANGED <<daemon, since, handed>>
        /\ listener # "open" /\ listener # "stopped" /\ listener' # "open"
    BY <2>1
  <2> QED
    BY Zenon, <2>1, <2>2, BetweenStreams
<1>5. CASE Dispatch
  BY Zenon, <1>5, DispatchKeepsEvents
<1>6. CASE Stop
  <2>1. /\ UNCHANGED <<daemon, resume, handed>> /\ listener # "stopped"
        /\ listener' = "stopped" /\ stream' = <<>>
    BY Zenon, <1>6 DEF Stop
  <2>2. UNCHANGED <<daemon, since, handed>> /\ reconnect' = reconnect /\ listener' # "open"
    BY <2>1 DEF resume
  <2> QED
    BY Zenon, <2>1, <2>2, BetweenStreams
<1>7. CASE StreamEnds
  BY Zenon, <1>7, EndKeepsEvents
<1>8. CASE Tick \/ Forget
  BY Zenon, <1>8, TimeKeepsEvents
<1>9. ASSUME NEW lag \in 0 .. Skew, Emit(lag) PROVE StreamInv'
  BY Zenon, <1>9, EmitKeepsEvents
<1>10. CASE Connecting \/ \E c \in Caller : Calling(c) \/ OtherCall(c)
  BY Zenon, <1>1, <1>10 DEF Connecting, Calling, OtherCall, OtherReturns, Others
<1>11. CASE (Recover \/ Silence \/ \E c \in Caller : CallFails(c)) /\ Others
  BY Zenon, <1>1, <1>11 DEF Others
<1>12. CASE Cancel
  BY Zenon, <1>1, <1>12 DEF Cancel
<1>13. CASE UNCHANGED lvars
  BY Zenon, <1>1, <1>13 DEF lvars
<1> QED
  BY Zenon, <1>2, <1>3, <1>4, <1>5, <1>6, <1>7, <1>8, <1>9, <1>10, <1>11, <1>12, <1>13
     DEF LNext, Listening

\* It holds at the start.
LEMMA EventsInit == LInit => StreamInv
<1> SUFFICES ASSUME LInit PROVE StreamInv
  BY Zenon
<1>1. /\ clock = EVENTS_SINCE_MARGIN /\ emitted = <<>> /\ held = {} /\ stream = <<>>
      /\ listener = "start" /\ since = with_margin(clock)
  BY Zenon DEF LInit
<1>2. EVENTS_SINCE_MARGIN \in Nat /\ MaxTime \in Nat /\ EVENTS_SINCE_MARGIN <= MaxTime
  BY ListenerAssumption
<1>3. /\ clock \in Nat /\ clock <= MaxTime /\ since \in Nat
      /\ since + EVENTS_SINCE_MARGIN <= clock /\ listener # "open"
  BY <1>1, <1>2 DEF with_margin
<1>4. emitted \in Seq(Nat) /\ DOMAIN emitted = {} /\ stream \in Seq(DOMAIN emitted)
      /\ DOMAIN stream = {}
  BY <1>1
<1>5. HeldEventsArrive /\ EveryEventIsCovered
  BY Zenon, <1>1, <1>4 DEF HeldEventsArrive, EveryEventIsCovered
<1> QED
  BY Zenon, <1>1, <1>3, <1>4, <1>5 DEF StreamInv

\* No reconnect skips an event the daemon still holds, however many events, faults and
\* reconnects there are, as long as the margin covers the skew of the stamps.
THEOREM HeldCorrect == LSpec => []HeldEventsArrive
<1>1. StreamInv => HeldEventsArrive
  BY Zenon DEF StreamInv
<1> QED
  BY <1>1, EventsInit, EventsStep, PTL DEF LSpec

\* Nor does a change go unnoticed when the daemon forgets its history: the resync
\* that comes with a reconnect covers what the replay cannot.
THEOREM CoveredCorrect == LSpec => []EveryEventIsCovered
<1>1. StreamInv => EveryEventIsCovered
  BY Zenon DEF StreamInv
<1> QED
  BY <1>1, EventsInit, EventsStep, PTL DEF LSpec

-----------------------------------------------------------------------------
(* Induction over the naturals, for sets of numbers instead of a predicate. *)

\* Every set of naturals that is not empty has a least element.
LEMMA LeastNatural ==
    ASSUME NEW T, T \subseteq Nat, T # {}
    PROVE  \E x \in T : \A y \in T : x <= y
<1> DEFINE R == OpToRel(<, Nat)
<1>1. IsWellFoundedOn(R, Nat)
  BY Zenon, NatLessThanWellFounded
<1>2. \A x, y \in Nat : y < x => <<y, x>> \in R
  BY DEF OpToRel
<1> HIDE DEF R
<1>3. PICK x \in T : \A y \in T : ~(<<y, x>> \in R)
  BY Zenon, <1>1, WFMin
<1>4. \A y \in T : ~(y < x)
  BY Zenon, <1>2, <1>3
<1> QED
  BY <1>3, <1>4

\* A set with 0 and, below N, the successor of each of its members holds all up to N.
LEMMA InductionUpTo ==
    ASSUME NEW N \in Nat, NEW S, 0 \in S,
           \A n \in Nat : n < N /\ n \in S => n + 1 \in S
    PROVE  0 .. N \subseteq S
<1> SUFFICES ASSUME ~(0 .. N \subseteq S) PROVE FALSE
  OBVIOUS
<1>1. (0 .. N) \ S \subseteq Nat /\ (0 .. N) \ S # {}
  OBVIOUS
<1>2. PICK x \in (0 .. N) \ S : \A y \in (0 .. N) \ S : x <= y
  BY Zenon, <1>1, LeastNatural
<1>3. x \in Nat /\ x # 0 /\ x <= N /\ x - 1 \in Nat /\ x - 1 < x /\ x - 1 < N /\ x = (x - 1) + 1
  BY <1>2
<1>4. x - 1 \in S
  BY <1>2, <1>3
<1> QED
  BY <1>2, <1>3, <1>4

\* f begins with base and goes on with G.
IsRecursion(f, N, V, base, G) ==
    /\ f \in [0 .. N -> V] /\ f[0] = base
    /\ \A k \in 1 .. N : f[k] = G[<<k, f[k - 1]>>]

\* There is such a function wherever G stays among the values.
LEMMA RecursionExists ==
    ASSUME NEW N \in Nat, NEW V, NEW base \in V, NEW G,
           \A k \in 1 .. N, v \in V : G[<<k, v>>] \in V
    PROVE  \E f : IsRecursion(f, N, V, base, G)
<1> DEFINE S == {n \in Nat : \E f : IsRecursion(f, n, V, base, G)}
<1>1. 0 \in S
  <2>1. IsRecursion([k \in 0 .. 0 |-> base], 0, V, base, G)
    BY DEF IsRecursion
  <2> QED
    BY Zenon, <2>1
<1>2. ASSUME NEW n \in Nat, n < N, n \in S PROVE n + 1 \in S
  <2>1. PICK f : IsRecursion(f, n, V, base, G)
    BY Zenon, <1>2
  <2> DEFINE g == [k \in 0 .. n + 1 |-> IF k = n + 1 THEN G[<<n + 1, f[n]>>] ELSE f[k]]
  <2>2. \A k \in 0 .. n : g[k] = f[k] /\ f[k] \in V
    BY <2>1 DEF IsRecursion
  <2>3. g[n + 1] = G[<<n + 1, f[n]>>] /\ g[n + 1] \in V
    <3>1. n + 1 \in 0 .. n + 1 /\ n + 1 \in 1 .. N /\ n \in 0 .. n
      BY <1>2
    <3>2. f[n] \in V
      BY Zenon, <2>2, <3>1
    <3> QED
      BY Zenon, <3>1, <3>2
  <2>4. g \in [0 .. n + 1 -> V] /\ g[0] = base
    <3>1. \A k \in 0 .. n + 1 : k = n + 1 \/ k \in 0 .. n
      OBVIOUS
    <3>2. \A k \in 0 .. n + 1 : g[k] \in V
      BY Zenon, <2>2, <2>3, <3>1
    <3>3. 0 \in 0 .. n /\ f[0] = base
      BY <2>1 DEF IsRecursion
    <3> QED
      BY Zenon, <2>2, <3>2, <3>3
  <2>5. ASSUME NEW k \in 1 .. n + 1 PROVE g[k] = G[<<k, g[k - 1]>>]
    <3>1. CASE k = n + 1
      <4>1. k - 1 = n /\ n \in 0 .. n
        BY <3>1
      <4>2. g[k - 1] = f[n]
        BY Zenon, <4>1, <2>2
      <4> QED
        BY Zenon, <3>1, <4>2, <2>3
    <3>2. CASE k # n + 1
      <4>1. k \in 1 .. n /\ k \in 0 .. n /\ k - 1 \in 0 .. n
        BY <3>2
      <4>2. f[k] = G[<<k, f[k - 1]>>]
        BY Zenon, <4>1, <2>1 DEF IsRecursion
      <4>3. g[k] = f[k] /\ g[k - 1] = f[k - 1]
        BY Zenon, <4>1, <2>2
      <4> QED
        BY Zenon, <4>2, <4>3
    <3> QED
      BY Zenon, <3>1, <3>2
  <2> HIDE DEF g
  <2>6. IsRecursion(g, n + 1, V, base, G)
    BY Zenon, <2>4, <2>5 DEF IsRecursion
  <2>7. n + 1 \in Nat
    OBVIOUS
  <2> QED
    BY Zenon, <2>6, <2>7
<1> HIDE DEF S
<1>3. N \in S
  BY <1>1, <1>2, InductionUpTo
<1> QED
  BY <1>3 DEF S

-----------------------------------------------------------------------------
(* The backoff *)

\* Doubled is what its definition says of it: there is such a function.
LEMMA DoubledValues ==
    /\ \A n \in 0 .. MaxNaps : Doubled[n] \in Nat
    /\ Doubled[0] = BACKOFF_INITIAL_DELAY
    /\ \A n \in 1 .. MaxNaps : Doubled[n] = Doubled[n - 1] * 2
<1> DEFINE Eq(f) == f = [n \in 0 .. MaxNaps |-> IF n = 0 THEN BACKOFF_INITIAL_DELAY
                                                ELSE f[n - 1] * BACKOFF_MULTIPLIER]
           G == [p \in (1 .. MaxNaps) \X Nat |-> p[2] * 2]
           S == {n \in Nat : n \in 0 .. MaxNaps => Doubled[n] \in Nat}
<1>1. MaxNaps \in Nat /\ BACKOFF_INITIAL_DELAY \in Nat
  BY ListenerAssumption
<1>2. \A n \in 1 .. MaxNaps, v \in Nat : G[<<n, v>>] = v * 2 /\ v * 2 \in Nat
  OBVIOUS
<1> HIDE DEF G
<1>3. PICK f : IsRecursion(f, MaxNaps, Nat, BACKOFF_INITIAL_DELAY, G)
  BY Zenon, <1>1, <1>2, RecursionExists
<1>4. /\ f \in [0 .. MaxNaps -> Nat] /\ f[0] = BACKOFF_INITIAL_DELAY
      /\ \A n \in 1 .. MaxNaps : f[n] = G[<<n, f[n - 1]>>]
  BY Zenon, <1>3 DEF IsRecursion
<1>5. \A n \in 1 .. MaxNaps : f[n] = f[n - 1] * 2
  <2>1. \A n \in 1 .. MaxNaps : n - 1 \in 0 .. MaxNaps
    BY <1>1
  <2> QED
    BY Zenon, <1>2, <1>4, <2>1
<1>6. Eq(f)
  BY <1>1, <1>4, <1>5 DEF BACKOFF_MULTIPLIER
<1>7. Doubled = CHOOSE g : Eq(g)
  BY Zenon DEF Doubled
<1>8. Eq(Doubled)
  BY Zenon, <1>6, <1>7
<1> HIDE DEF Eq
<1>9. ASSUME NEW g, Eq(g)
      PROVE  /\ g[0] = BACKOFF_INITIAL_DELAY
             /\ \A n \in 1 .. MaxNaps : g[n] = g[n - 1] * 2
  BY <1>1, <1>9 DEF Eq, BACKOFF_MULTIPLIER
<1>10. /\ Doubled[0] = BACKOFF_INITIAL_DELAY
       /\ \A n \in 1 .. MaxNaps : Doubled[n] = Doubled[n - 1] * 2
  BY Zenon, <1>8, <1>9
<1>11. 0 .. MaxNaps \subseteq S
  <2>1. 0 \in S
    BY <1>1, <1>10
  <2>2. ASSUME NEW n \in Nat, n < MaxNaps, n \in S PROVE n + 1 \in S
    <3>1. n \in 0 .. MaxNaps /\ n + 1 \in 1 .. MaxNaps /\ (n + 1) - 1 = n
      BY <1>1, <2>2
    <3>2. Doubled[n] \in Nat /\ Doubled[n + 1] = Doubled[n] * 2
      BY <1>10, <2>2, <3>1
    <3> QED
      BY <3>2
  <2> HIDE DEF S
  <2> QED
    BY Zenon, <1>1, <2>1, <2>2, InductionUpTo
<1> QED
  BY Zenon, <1>10, <1>11

\* The delay of the next attempt, at every step of listen_swarm_events: doubled for the
\* delays slept so far, one less while the last of them is slept.
BackoffInv ==
    /\ naps \in 0 .. MaxNaps
    /\ listener \in {"start", "call"} => backoff = Min({Doubled[naps], BACKOFF_MAX_DELAY})
    /\ listener = "backoff" =>
         naps # 0 /\ backoff = Min({Doubled[naps - 1], BACKOFF_MAX_DELAY})
    /\ listener = "open" => naps = 0

\* A delay that was slept is doubled, or the cap.
LEMMA ConnectKeepsBackoff ==
    ASSUME BackoffInv, Connect
    PROVE  BackoffInv'
<1>1. /\ listener' = "call" /\ naps' = naps /\ listener \in {"start", "backoff"}
      /\ backoff' = IF listener = "start" THEN backoff
                    ELSE Min({backoff * 2, BACKOFF_MAX_DELAY})
  BY Zenon DEF Connect, next_backoff, BACKOFF_MULTIPLIER
<1>2. BACKOFF_MAX_DELAY \in Nat /\ MaxNaps \in Nat
  BY ListenerAssumption
<1>3. CASE listener = "start"
  BY <1>1, <1>3 DEF BackoffInv
<1>4. CASE listener = "backoff"
  <2>1. naps \in 1 .. MaxNaps /\ naps - 1 \in 0 .. MaxNaps /\ naps \in 0 .. MaxNaps
    BY <1>2, <1>4 DEF BackoffInv
  <2>2. PICK d : d = Doubled[naps - 1]
    BY Zenon
  <2>3. d \in Nat /\ Doubled[naps] = d * 2
    BY Zenon, <2>1, <2>2, DoubledValues
  <2>4. backoff = IF d <= BACKOFF_MAX_DELAY THEN d ELSE BACKOFF_MAX_DELAY
    BY Zenon, <1>2, <1>4, <2>2, <2>3, MinOfTwo DEF BackoffInv
  <2>5. backoff \in Nat /\ backoff * 2 \in Nat /\ d * 2 \in Nat
    BY <1>2, <2>3, <2>4
  <2>6. /\ Min({backoff * 2, BACKOFF_MAX_DELAY})
             = IF backoff * 2 <= BACKOFF_MAX_DELAY THEN backoff * 2 ELSE BACKOFF_MAX_DELAY
        /\ Min({d * 2, BACKOFF_MAX_DELAY})
             = IF d * 2 <= BACKOFF_MAX_DELAY THEN d * 2 ELSE BACKOFF_MAX_DELAY
    BY Zenon, <1>2, <2>5, MinOfTwo
  <2>7. Min({backoff * 2, BACKOFF_MAX_DELAY}) = Min({d * 2, BACKOFF_MAX_DELAY})
    BY <1>2, <2>3, <2>4, <2>5, <2>6
  <2>8. backoff' = Min({Doubled[naps], BACKOFF_MAX_DELAY})
    BY <1>1, <1>4, <2>3, <2>7
  <2> QED
    BY <1>1, <2>1, <2>8 DEF BackoffInv
<1> QED
  BY Zenon, <1>1, <1>3, <1>4

\* After an attempt: a stream that connected starts again at the initial delay, and
\* attempts are counted until the cap is reached.
LEMMA EndedKeepsBackoff ==
    ASSUME BackoffInv, NEW connected \in BOOLEAN, NEW seen, Ended(connected, seen),
           connected => listener = "open", ~connected => listener = "call"
    PROVE  BackoffInv'
<1>1. /\ listener' = "backoff" /\ naps' = Min({naps + 1, MaxNaps})
      /\ backoff' = IF connected THEN BACKOFF_INITIAL_DELAY ELSE backoff
  BY Zenon DEF Ended
<1>2. /\ BACKOFF_MAX_DELAY \in Nat /\ BACKOFF_INITIAL_DELAY \in Nat /\ MaxNaps \in Nat \ {0}
      /\ BACKOFF_INITIAL_DELAY <= BACKOFF_MAX_DELAY /\ BACKOFF_MAX_DELAY <= Doubled[MaxNaps - 1]
  BY ListenerAssumption, BackoffAssumption
<1>3. naps \in 0 .. MaxNaps /\ naps \in Nat /\ naps + 1 \in Nat
  BY <1>2 DEF BackoffInv
<1>4. naps' = IF naps + 1 <= MaxNaps THEN naps + 1 ELSE MaxNaps
  BY Zenon, <1>1, <1>2, <1>3, MinOfTwo
<1>5. naps' \in 0 .. MaxNaps /\ naps' # 0
  BY <1>2, <1>3, <1>4
<1>6. backoff' = Min({Doubled[naps' - 1], BACKOFF_MAX_DELAY})
  <2>1. CASE connected
    <3>1. naps' - 1 = 0 /\ Doubled[0] = BACKOFF_INITIAL_DELAY
      BY <1>2, <1>4, <2>1, DoubledValues DEF BackoffInv
    <3>2. Min({BACKOFF_INITIAL_DELAY, BACKOFF_MAX_DELAY}) = BACKOFF_INITIAL_DELAY
      BY Zenon, <1>2, MinOfTwo
    <3> QED
      BY Zenon, <1>1, <2>1, <3>1, <3>2
  <2>2. CASE ~connected
    <3>1. backoff' = Min({Doubled[naps], BACKOFF_MAX_DELAY})
      BY Zenon, <1>1, <2>2 DEF BackoffInv
    <3>2. CASE naps < MaxNaps
      <4>1. naps' - 1 = naps
        BY <1>2, <1>3, <1>4, <3>2
      <4> QED
        BY Zenon, <3>1, <4>1
    <3>3. CASE naps = MaxNaps
      <4>1. /\ naps' = MaxNaps /\ MaxNaps \in 1 .. MaxNaps /\ MaxNaps \in 0 .. MaxNaps
            /\ MaxNaps - 1 \in 0 .. MaxNaps
        BY <1>2, <1>4, <3>3
      <4>2. PICK d : d = Doubled[MaxNaps - 1]
        BY Zenon
      <4>3. d \in Nat /\ Doubled[MaxNaps] = d * 2 /\ BACKOFF_MAX_DELAY <= d
        BY Zenon, <1>2, <4>1, <4>2, DoubledValues
      <4>4. d * 2 \in Nat /\ BACKOFF_MAX_DELAY <= d * 2
        BY <1>2, <4>3
      <4>5. /\ Min({d, BACKOFF_MAX_DELAY}) = IF d <= BACKOFF_MAX_DELAY THEN d ELSE BACKOFF_MAX_DELAY
            /\ Min({d * 2, BACKOFF_MAX_DELAY})
                 = IF d * 2 <= BACKOFF_MAX_DELAY THEN d * 2 ELSE BACKOFF_MAX_DELAY
        BY Zenon, <1>2, <4>3, <4>4, MinOfTwo
      <4>6. Min({d, BACKOFF_MAX_DELAY}) = Min({d * 2, BACKOFF_MAX_DELAY})
        BY <1>2, <4>3, <4>4, <4>5
      <4> QED
        BY Zenon, <3>1, <3>3, <4>1, <4>2, <4>3, <4>6
    <3> QED
      BY <1>2, <1>3, <3>2, <3>3
  <2> QED
    BY Zenon, <2>1, <2>2
<1> QED
  BY <1>1, <1>5, <1>6 DEF BackoffInv

\* BackoffInv is inductive.
LEMMA BackoffStep ==
    BackoffInv /\ [LNext]_lvars => BackoffInv'
<1> SUFFICES ASSUME BackoffInv, [LNext]_lvars PROVE BackoffInv'
  BY Zenon
<1>1. CASE UNCHANGED <<listener, backoff, naps>>
  BY Zenon, <1>1 DEF BackoffInv
<1>2. CASE Connect
  BY Zenon, <1>2, ConnectKeepsBackoff
<1>3. CASE OpenStream
  <2>1. listener' = "open" /\ naps' = 0
    BY Zenon, <1>3 DEF OpenStream
  <2>2. 0 \in 0 .. MaxNaps
    BY ListenerAssumption
  <2> QED
    BY <2>1, <2>2 DEF BackoffInv
<1>4. CASE ConnectFails
  BY Zenon, <1>4, EndedKeepsBackoff DEF ConnectFails
<1>5. CASE Dispatch
  BY Zenon, <1>1, <1>5 DEF Dispatch, waiting
<1>6. CASE Stop
  <2>1. listener' = "stopped" /\ naps' = naps
    BY Zenon, <1>6 DEF Stop, waiting
  <2> QED
    BY <2>1 DEF BackoffInv
<1>7. CASE StreamEnds
  BY Zenon, <1>7, EndedKeepsBackoff DEF StreamEnds
<1>8. CASE Tick \/ Forget \/ Cancel \/ \E lag \in 0 .. Skew : Emit(lag)
  BY Zenon, <1>1, <1>8 DEF Tick, Forget, Cancel, Emit, waiting
<1>9. CASE Connecting \/ \E c \in Caller : Calling(c) \/ OtherCall(c)
  BY Zenon, <1>1, <1>9 DEF Connecting, Calling, OtherCall, OtherReturns, Others, waiting
<1>10. CASE (Recover \/ Silence \/ \E c \in Caller : CallFails(c)) /\ Others
  BY Zenon, <1>1, <1>10 DEF Others, waiting
<1>11. CASE UNCHANGED lvars
  BY Zenon, <1>1, <1>11 DEF lvars, waiting
<1> QED
  BY Zenon, <1>2, <1>3, <1>4, <1>5, <1>6, <1>7, <1>8, <1>9, <1>10, <1>11 DEF LNext, Listening

\* The delay before an attempt is the initial one, doubled for every attempt that failed
\* since a stream was last open and never above the cap, for every initial delay and cap.
THEOREM BackoffCorrect == LSpec => []BackoffMatchesAttempts
<1>1. LInit => BackoffInv
  <2> SUFFICES ASSUME LInit PROVE BackoffInv
    BY Zenon
  <2>1. listener = "start" /\ backoff = BACKOFF_INITIAL_DELAY /\ naps = 0
    BY Zenon DEF LInit
  <2>2. /\ BACKOFF_MAX_DELAY \in Nat /\ BACKOFF_INITIAL_DELAY \in Nat /\ 0 \in 0 .. MaxNaps
        /\ BACKOFF_INITIAL_DELAY <= BACKOFF_MAX_DELAY
    BY ListenerAssumption, BackoffAssumption
  <2>3. backoff = Min({Doubled[naps], BACKOFF_MAX_DELAY})
    BY Zenon, <2>1, <2>2, MinOfTwo, DoubledValues
  <2> QED
    BY <2>1, <2>2, <2>3 DEF BackoffInv
<1>2. BackoffInv => BackoffMatchesAttempts
  BY Zenon DEF BackoffInv, BackoffMatchesAttempts
<1> QED
  BY <1>1, <1>2, BackoffStep, PTL DEF LSpec

=============================================================================
