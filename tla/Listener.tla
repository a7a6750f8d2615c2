------------------------------ MODULE Listener -------------------------------
(* The event listener over the shared client: where a stream resumes, how     *)
(* long the listener waits before it connects again, and what it asks of the  *)
(* reconciler.  The daemon stamps its events up to Skew late against its own  *)
(* order and the exporter's clock, and keeps a history it replays from.       *)
(* Source: src/collector/reconciler/listener.rs and docker/api.rs.            *)
EXTENDS DockerClient, FiniteSetsExt

CONSTANTS
    Self,                   \* the listener, one of Caller
    EVENTS_SINCE_MARGIN, BACKOFF_INITIAL_DELAY, BACKOFF_MAX_DELAY,
    Skew,
    Second,                 \* ticks in a second
    MaxEvents, MaxTime,     \* bounds: events, and the last moment of one
    MaxNaps                 \* bound: how far failed attempts are counted

ASSUME ListenerAssumption ==
    /\ Self \in Caller
    /\ {EVENTS_SINCE_MARGIN, BACKOFF_INITIAL_DELAY, BACKOFF_MAX_DELAY, Second} \subseteq Nat \ {0}
    /\ Skew \in 0 .. EVENTS_SINCE_MARGIN
    /\ MaxTime \in Nat /\ MaxTime >= EVENTS_SINCE_MARGIN /\ MaxNaps \in Nat \ {0}

VARIABLES
    clock,
    emitted, held,          \* the stamps of the events so far, those the daemon still has
    listener,
    since, last_seen,       \* the resume point, the time of the stream's last event: {} or {t}
    reconnect, backoff, nap,
    stream,                 \* events on the way
    dispatched, covered,    \* events handed over, events before the last resync request
    naps,                   \* history: delays slept since a stream last connected
    cancelled

daemon == <<clock, emitted, held>>
resume == <<since, last_seen, reconnect>>
waiting == <<backoff, nap, naps>>
handed == <<dispatched, covered>>
lvars == <<cvars, daemon, listener, resume, waiting, stream, handed, cancelled>>

BACKOFF_MULTIPLIER == 2

\* The initial delay after n doublings that nothing caps.
Doubled[n \in 0 .. MaxNaps] ==
    IF n = 0 THEN BACKOFF_INITIAL_DELAY ELSE Doubled[n - 1] * BACKOFF_MULTIPLIER

\* The cap is reached within the attempts that are counted.
ASSUME BackoffAssumption ==
    BACKOFF_INITIAL_DELAY <= BACKOFF_MAX_DELAY /\ BACKOFF_MAX_DELAY <= Doubled[MaxNaps - 1]

\* Slip: a reconnect resumes at the last event.
without_margin(time) == time

with_margin(time) == IF time >= EVENTS_SINCE_MARGIN THEN time - EVENTS_SINCE_MARGIN ELSE 0

next_backoff(delay) == Min({delay * BACKOFF_MULTIPLIER, BACKOFF_MAX_DELAY})

\* timeNano, else time in seconds, else none, whichever the daemon set.
event_time(stamp) == {{stamp}, {(stamp \div Second) * Second}, {}}

LInit ==
    /\ CInit
    /\ clock = EVENTS_SINCE_MARGIN
    /\ emitted = <<>> /\ held = {} /\ stream = <<>>
    /\ listener = "start"
    /\ since = with_margin(clock) /\ last_seen = {} /\ reconnect = FALSE
    /\ backoff = BACKOFF_INITIAL_DELAY /\ nap = 0 /\ naps = 0
    /\ dispatched = {} /\ covered = 0 /\ cancelled = FALSE

---------------------------------------------------------------------------
(* The daemon *)

Emit(lag) ==
    /\ listener # "stopped" /\ Len(emitted) < MaxEvents /\ clock < MaxTime
    /\ emitted' = Append(emitted, clock - lag)
    /\ held' = held \cup {Len(emitted')}
    /\ stream' = IF listener = "open" THEN Append(stream, Len(emitted')) ELSE stream
    /\ UNCHANGED <<cvars, clock, listener, resume, waiting, handed, cancelled>>

\* The daemon restarted or trimmed its history; it reaches back over the first connect.
Forget ==
    /\ reconnect /\ held # {} /\ Fault
    /\ held' = {}
    /\ UNCHANGED <<cell, call, left, age, up, clock, emitted, listener, resume, waiting, stream,
                   handed, cancelled>>

\* What a stream from since carries at first: what is held from then on, in its order.
Replay ==
    LET missed == {i \in held : emitted[i] >= since}
    IN  {r \in Bijection(1 .. Cardinality(missed), missed) :
            \A i, j \in DOMAIN r : i < j => r[i] < r[j]}

---------------------------------------------------------------------------
(* listen_swarm_events and follow_event_stream *)

\* Slip: a stream that is lost is not opened again.
ConnectOnce ==
    /\ ~cancelled
    /\ listener = "start"
    /\ listener' = "call" /\ BeginCall(Self)
    /\ UNCHANGED <<daemon, resume, waiting, stream, handed, cancelled>>

Connect ==
    /\ ~cancelled
    /\ listener = "start" \/ (listener = "backoff" /\ nap = 0)
    /\ backoff' = IF listener = "start" THEN backoff ELSE next_backoff(backoff)
    /\ listener' = "call" /\ BeginCall(Self)
    /\ UNCHANGED <<daemon, resume, nap, naps, stream, handed, cancelled>>

\* Slip: only a stream that broke asks for a resync, not one that could not connect.
OpenStreamQuietly ==
    /\ listener = "call" /\ Return(Self, "idle") /\ call[Self] = "ok"
    /\ listener' = "open" /\ stream' \in Replay /\ last_seen' = {} /\ naps' = 0
    /\ covered' = IF reconnect /\ naps = 1 THEN Len(emitted) ELSE covered
    /\ UNCHANGED <<daemon, since, reconnect, backoff, nap, dispatched, cancelled>>

\* The headers came; after a reconnect a resync is requested.
OpenStream ==
    /\ listener = "call" /\ Return(Self, "idle") /\ call[Self] = "ok"
    /\ listener' = "open" /\ stream' \in Replay /\ last_seen' = {} /\ naps' = 0
    /\ covered' = IF reconnect THEN Len(emitted) ELSE covered
    /\ UNCHANGED <<daemon, since, reconnect, backoff, nap, dispatched, cancelled>>

\* Slip: only a stream that carried an event resets the backoff.
EndedQuiet(connected, seen) ==
    LET delay == IF connected /\ seen # {} THEN BACKOFF_INITIAL_DELAY ELSE backoff
    IN  /\ listener' = "backoff" /\ reconnect' = TRUE
        /\ backoff' = delay /\ nap' = delay
        /\ since' = IF seen = {} THEN since ELSE with_margin(CHOOSE t \in seen : TRUE)
        /\ stream' = <<>> /\ naps' = Min({naps + 1, MaxNaps})

\* After an attempt: the delay that is slept now and where the next one resumes.
Ended(connected, seen) ==
    LET delay == IF connected THEN BACKOFF_INITIAL_DELAY ELSE backoff
    IN  /\ listener' = "backoff" /\ reconnect' = TRUE
        /\ backoff' = delay /\ nap' = delay
        /\ since' = IF seen = {} THEN since ELSE with_margin(CHOOSE t \in seen : TRUE)
        /\ stream' = <<>> /\ naps' = Min({naps + 1, MaxNaps})

ConnectFails ==
    /\ ~cancelled
    /\ listener = "call" /\ Return(Self, "idle") /\ call[Self] = "failed"
    /\ Ended(FALSE, {})
    /\ UNCHANGED <<daemon, last_seen, handed, cancelled>>

\* dispatch_events
Dispatch ==
    /\ listener = "open" /\ stream # <<>>
    /\ \E seen \in event_time(emitted[Head(stream)]) :
          last_seen' = IF seen = {} THEN last_seen ELSE seen
    /\ dispatched' = dispatched \cup {Head(stream)}
    /\ stream' = Tail(stream)
    /\ UNCHANGED <<cvars, daemon, listener, since, reconnect, waiting, covered, cancelled>>

\* A clean end, a broken connection, a value that is no event.
StreamEnds ==
    /\ ~cancelled
    /\ listener = "open" /\ Fault
    /\ Ended(TRUE, last_seen)
    /\ UNCHANGED <<cell, call, left, age, up, daemon, last_seen, handed, cancelled>>

\* Every wait ends when cancel fires; a call is dropped.
Stop ==
    /\ cancelled /\ listener # "stopped"
    /\ listener' = "stopped" /\ stream' = <<>>
    /\ call' = [call EXCEPT ![Self] = "idle"]
    /\ permits' = SelectSeq(permits, LAMBDA p : p # Self)
    /\ left' = [left EXCEPT ![Self] = 0] /\ age' = [age EXCEPT ![Self] = 0]
    /\ UNCHANGED <<docker, up, faults>>
    /\ UNCHANGED <<daemon, resume, waiting, handed, cancelled>>

Cancel ==
    /\ ~cancelled /\ cancelled' = TRUE
    /\ UNCHANGED <<cvars, daemon, listener, resume, waiting, stream, handed>>

---------------------------------------------------------------------------
(* The other tasks' calls, and time *)

Others == UNCHANGED <<daemon, listener, resume, waiting, stream, handed, cancelled>>

OtherCall(c) ==
    /\ c # Self /\ call[c] = "idle" /\ ~cancelled
    /\ BeginCall(c) /\ Others

\* A task waits between its calls: the poll delay, the resync interval.
OtherReturns(c) == c # Self /\ Return(c, "rest") /\ Others

Ready ==
    \/ ClientReady
    \/ listener = "start" \/ (listener = "backoff" /\ nap = 0)

Tick ==
    /\ ~Ready
    /\ ClientTick
    /\ clock' = Min({clock + 1, MaxTime})
    /\ nap' = IF listener = "backoff" THEN nap - 1 ELSE nap
    /\ UNCHANGED <<emitted, held, listener, resume, backoff, naps, stream, handed, cancelled>>

Listening == Connect \/ OpenStream \/ ConnectFails \/ Dispatch

Connecting == Negotiated /\ Others

Calling(c) == ((Answered(c) \/ TimesOut(c)) /\ Others) \/ OtherReturns(c)

LNext ==
    \/ Listening \/ Stop \/ Connecting \/ Tick
    \/ \E c \in Caller : Calling(c) \/ OtherCall(c)
    \/ (Recover \/ Silence \/ \E c \in Caller : CallFails(c)) /\ Others
    \/ StreamEnds \/ Forget \/ Cancel
    \/ \E lag \in 0 .. Skew : Emit(lag)

LSpec == LInit /\ [][LNext]_lvars

\* Tasks run, time passes, and a daemon that went silent answers again.
LFairSpec ==
    /\ LSpec
    /\ WF_lvars(Listening) /\ WF_lvars(Stop) /\ WF_lvars(Connecting) /\ WF_lvars(Tick)
    /\ \A c \in Caller : WF_lvars(Calling(c))
    /\ WF_lvars(Recover /\ Others)

---------------------------------------------------------------------------
(* Properties *)

\* An event the daemon still holds is not skipped by a reconnect, although events
\* may be stamped earlier than ones sent before them: it was dispatched, it is on
\* the way, or the next stream starts early enough (with_margin, and since moves
\* only with an event seen).
HeldEventsArrive ==
    listener # "stopped" =>
        \A i \in held :
            \/ i \in dispatched \/ i \in Range(stream)
            \/ listener # "open" /\ emitted[i] >= since

\* Whatever the daemon forgot, no change goes unnoticed: its event was or will be
\* dispatched, or a resync was requested after it, or will be once a stream is open
\* ("the resync and the replay together cover whatever happened").
EveryEventIsCovered ==
    listener # "stopped" =>
        \A i \in DOMAIN emitted :
            \/ i \in dispatched \/ i \in Range(stream) \/ i <= covered
            \/ listener # "open" /\ (reconnect \/ i \in held)

\* The listener sleeps as long as the attempts since the last stream ask for: the
\* initial delay after any stream that connected, carrying events or not (Q7), and
\* doubled up to the cap for every connect that failed since.
BackoffMatchesAttempts ==
    listener = "backoff" =>
        backoff = Min({Doubled[naps - 1], BACKOFF_MAX_DELAY})

\* Once the daemon is reachable the listener has a stream again, whoever was
\* connecting when it went away.
EventuallyStreaming == []<>(listener \in {"open", "stopped"})

=============================================================================
