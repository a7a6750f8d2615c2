-------------------------------- MODULE Health -------------------------------
(***************************************************************************)
(* The health check (src/collector/health.rs) behind /healthz and          *)
(* swarm_exporter_health, over the resyncs of Resync and the poller's      *)
(* success times.  An evaluation reads the clock, then the counters under  *)
(* the reconciler's lock, then the poll time: resyncs, requests and polls  *)
(* go on between its steps.                                                *)
(*                                                                         *)
(* request_times, behind_since and probe_behind only remember what         *)
(* happened, to state the properties.                                      *)
(***************************************************************************)
EXTENDS Resync

CONSTANTS
    Window,         \* max(3 * poll_delay, 30 s), in ticks
    MaxTime,        \* bound: how far the clock runs
    MaxRequests     \* bound: how many resyncs are requested

ASSUME HealthAssumption == Window \in Nat /\ MaxTime \in Nat /\ MaxRequests \in Nat

VARIABLES
    bound,              \* Health::bind was called
    replied,            \* the clock the poller read after a successful poll, 0 for none
    poll_success,       \* Timestamps::poll_success, 0 for never
    probe,              \* where the evaluation under way is
    probe_now, probe_state,
    answer,             \* the last answer, "ok" or the reason
    request_times,      \* when each resync was requested
    behind_since,       \* since when a resync has been outstanding without a break
    probe_behind        \* behind_since when the evaluation read the counters

evaluation == <<probe, probe_now, probe_state, answer, probe_behind>>
history == <<request_times, behind_since>>
hvars == <<rvars, bound, replied, poll_success, evaluation, history>>

Reasons == {"initial resync not completed", "no successful poll yet",
            "last poll too old", "resync outstanding"}
NoState == [requested |-> 0, completed |-> 0, since |-> 0]

HealthTypeOK ==
    /\ {requested, clock} \subseteq Nat \ {0} /\ {completed, target} \subseteq 0 .. requested
    /\ {since, pass_start} \subseteq 0 .. clock /\ (since = 0 <=> requested = completed)
    /\ bound \in BOOLEAN
    /\ {replied, poll_success, probe_now, behind_since, probe_behind} \subseteq 0 .. clock
    /\ probe \in {"idle", "now_read", "state_read"}
    /\ probe_state \in [requested : Nat, completed : Nat, since : Nat]
    /\ answer \in Reasons \cup {"ok", "none"}
    /\ request_times \in [1 .. requested -> 1 .. clock]

HInit ==
    /\ RInit
    /\ bound = FALSE /\ replied = 0 /\ poll_success = 0
    /\ probe = "idle" /\ probe_now = 0 /\ probe_state = NoState /\ answer = "none"
    /\ request_times = [i \in 1 .. 1 |-> 1] /\ behind_since = 1 /\ probe_behind = 0

-----------------------------------------------------------------------------
(* The reconciler *)

\* What a step of Resync adds to the history.
Recorded ==
    /\ request_times' = [i \in 1 .. requested' |->
                           IF i \in 1 .. requested THEN request_times[i] ELSE clock]
    /\ behind_since' = IF requested' = completed' THEN 0
                       ELSE IF requested = completed THEN clock ELSE behind_since

Reconcile ==
    /\ \/ requested < MaxRequests /\ Request
       \/ BeginPass
       \/ FinishPass
       \/ requested < MaxRequests /\ AbandonPass
       \/ clock < MaxTime /\ RTick
    /\ Recorded
    /\ UNCHANGED <<bound, replied, poll_success, evaluation>>

Bind ==
    /\ ~bound
    /\ bound' = TRUE
    /\ UNCHANGED <<rvars, replied, poll_success, evaluation, history>>

-----------------------------------------------------------------------------
(* The poller *)

\* The reconciler replied that everything was published.
PollReplied ==
    /\ bound /\ completed > 0 /\ replied = 0
    /\ replied' = clock
    /\ UNCHANGED <<rvars, bound, poll_success, evaluation, history>>

mark_poll_ok ==
    /\ replied # 0
    /\ poll_success' = replied /\ replied' = 0
    /\ UNCHANGED <<rvars, bound, evaluation, history>>

-----------------------------------------------------------------------------
(* The evaluation *)

snapshot_now ==
    /\ probe = "idle"
    /\ probe' = "now_read" /\ probe_now' = clock
    /\ UNCHANGED <<rvars, bound, replied, poll_success, probe_state, probe_behind, answer,
                   history>>

\* resync_state, once the reconciler is bound.
ReadResyncState ==
    /\ probe = "now_read"
    /\ probe' = "state_read"
    /\ probe_state' = IF bound
                      THEN [requested |-> requested, completed |-> completed, since |-> since]
                      ELSE NoState
    /\ probe_behind' = behind_since
    /\ UNCHANGED <<rvars, bound, replied, poll_success, probe_now, answer, history>>

\* Slip: the age is looked at although nothing is outstanding.
VerdictAlwaysAged(now, st, polled) ==
    IF st.completed = 0 THEN "initial resync not completed"
    ELSE IF polled = 0 THEN "no successful poll yet"
    ELSE IF now > polled + Window THEN "last poll too old"
    ELSE IF now > st.since + Window THEN "resync outstanding"
    ELSE "ok"

\* Health::snapshot at `now`, from the counters and the poll time it read.
Verdict(now, st, polled) ==
    IF st.completed = 0 THEN "initial resync not completed"
    ELSE IF polled = 0 THEN "no successful poll yet"
    ELSE IF now > polled + Window THEN "last poll too old"
    ELSE IF st.requested > st.completed /\ now > st.since + Window THEN "resync outstanding"
    ELSE "ok"

\* 200 with "ok", or 503 with the reason.
healthz ==
    /\ probe = "state_read"
    /\ answer' = Verdict(probe_now, probe_state, poll_success)
    /\ probe' = "idle"
    /\ UNCHANGED <<rvars, bound, replied, poll_success, probe_now, probe_state,
                   probe_behind, history>>

HNext ==
    \/ Reconcile \/ Bind \/ PollReplied \/ mark_poll_ok
    \/ snapshot_now \/ ReadResyncState \/ healthz

HSpec == HInit /\ [][HNext]_hvars

-----------------------------------------------------------------------------
(* Properties *)

\* The last answer stands for the evaluation that read probe_now.
Answered(a) == probe = "idle" /\ answer = a

\* An exporter that answers "ok" has served every resync requested longer than
\* the window before it was asked, also those that arrived while earlier passes
\* ran, and has published a poll since the first resync.
HealthyHasServed ==
    Answered("ok") =>
        /\ \A i \in DOMAIN request_times :
             request_times[i] + Window < probe_now => i <= completed
        /\ 0 < poll_success /\ probe_now <= poll_success + Window /\ 0 < completed

\* The counters cannot keep an exporter red that has nothing to catch up with:
\* "resync outstanding" is answered only if one has been outstanding without a
\* break for longer than the window when the counters were read.
OutstandingIsUnbroken ==
    Answered("resync outstanding") =>
        0 < probe_behind /\ probe_behind + Window < probe_now

=============================================================================
