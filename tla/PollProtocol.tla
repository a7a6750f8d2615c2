---------------------------- MODULE PollProtocol -----------------------------
(***************************************************************************)
(* The poll protocol (src/collector/reconciler/poll.rs) on top of the      *)
(* reconciler: the poller asks for a snapshot of the caches, lists and     *)
(* counts tasks against it while the caches move on, and submits the       *)
(* counts; the reconciler judges each service against the generations, the *)
(* node generation and the epoch of the snapshot, and publishes.           *)
(*                                                                         *)
(* The counts of a service are kept as what they were paired with: the     *)
(* spec and the nodes of the snapshot.  A published entry also has an age, *)
(* the number of polls in a row that carried it over.                      *)
(***************************************************************************)
EXTENDS Reconciler

CONSTANTS
    MaxCarriedPolls   \* MAX_CARRIED_POLLS

ASSUME CarriedAssumption == MaxCarriedPolls \in Nat

VARIABLES
    poller,             \* the poller task
    snapshot,           \* the PollSnapshot of the running poll
    accepted, to_mark,  \* locals of apply_poll_counts
    last_published,     \* what the last poll published per service
    poll_rejections,    \* polls in a row each service was rejected
    poll_result         \* how the last poll ended

pollVars == <<poller, snapshot, accepted, to_mark, last_published,
              poll_rejections, poll_result>>
pvars == <<vars, pollVars>>

PollService == [generation : Nat, spec : ServiceSpec \cup {NoService},
                nodes : NodeSet \cup {NoNodes}]
NoPollService == [generation |-> 0, spec |-> NoService, nodes |-> NoNodes]
NoSnapshot == [services |-> [s \in Service |-> NoPollService],
               node_generation |-> 0, epoch |-> 0]
Entry == [spec : ServiceSpec \cup {NoService}, nodes : NodeSet \cup {NoNodes}, age : Nat]
NoEntry == [spec |-> NoService, nodes |-> NoNodes, age |-> 0]

PInit ==
    /\ Init
    /\ poller = "starting" /\ snapshot = NoSnapshot
    /\ accepted = {} /\ to_mark = {}
    /\ last_published = [s \in Service |-> NoEntry]
    /\ poll_rejections = [s \in Service |-> 0]
    /\ poll_result = "none"

-----------------------------------------------------------------------------
(* The poller task: Poller::run and poll_and_publish_replicas_state *)

\* The first poll waits for the first resync, the others for the ticker.
StartPoll ==
    /\ poller = "idle" \/ (poller = "starting" /\ state.resync_completed > 0)
    /\ poller' = "want_snapshot"
    /\ UNCHANGED <<vars, snapshot, accepted, to_mark, last_published,
                   poll_rejections, poll_result>>

\* Slip: the next poll starts without waiting for the ticker.
EndPollAndRetry(result) ==
    /\ snapshot' = NoSnapshot
    /\ IF poller = "stopped"
       THEN UNCHANGED <<poller, poll_result>>
       ELSE poller' = "want_snapshot" /\ poll_result' = result

\* A poller that stopped waiting is not told; a success is marked for health.
EndPoll(result) ==
    /\ snapshot' = NoSnapshot
    /\ IF poller = "stopped"
       THEN UNCHANGED <<poller, poll_result>>
       ELSE poller' = "idle" /\ poll_result' = result

ListTasks ==
    /\ poller = "listing"
    /\ poller' = "want_verdict"
    /\ UNCHANGED <<vars, snapshot, accepted, to_mark, last_published,
                   poll_rejections, poll_result>>

FailTaskList ==
    /\ poller = "listing"
    /\ SpendFault
    /\ EndPoll("failed")
    /\ UNCHANGED <<daemon, events, shared, pc, caches, timer, armed, locals,
                   cancelled, clock, accepted, to_mark, last_published,
                   poll_rejections>>

\* Slip: a poll under way is not given up.
StopIdlePoller ==
    /\ cancelled /\ poller \in {"starting", "idle"}
    /\ poller' = "stopped"
    /\ UNCHANGED <<vars, snapshot, accepted, to_mark, last_published, poll_rejections,
                   poll_result>>

\* Every wait of the poller ends with the shutdown.
StopPoller ==
    /\ cancelled /\ poller # "stopped"
    /\ poller' = "stopped"
    /\ snapshot' = IF poller = "judged" THEN snapshot ELSE NoSnapshot
    /\ UNCHANGED <<vars, accepted, to_mark, last_published, poll_rejections, poll_result>>

-----------------------------------------------------------------------------
(* The reconciler's side *)

PollRequested == poller \in {"want_snapshot", "want_verdict"}

\* A request is taken at the start of a cycle or out of the select, after which
\* the next cycle starts.
TakeRequest(kind) ==
    /\ pc \in {"top", "parked"}
    /\ poller = kind
    /\ armed' = {}
    /\ UNCHANGED <<daemon, events, caches, timer, locals, env, wake>>

BuildPollSnapshot ==
    /\ TakeRequest("want_snapshot") /\ ~cancelled
    /\ snapshot' =
         [services |-> [s \in Service |->
              IF Cached(s)
              THEN [generation |-> state.service_generation[s].value,
                    spec |-> metadata[s].spec, nodes |-> metadata[s].nodes]
              ELSE NoPollService],
          node_generation |-> state.node_generation,
          epoch |-> state.epoch]
    /\ poller' = "listing"
    /\ pc' = "top"
    /\ UNCHANGED <<state, accepted, to_mark, last_published, poll_rejections, poll_result>>

Polled == {s \in Service : snapshot.services[s].spec # NoService}

\* Slip: a change that is queued but was already there at the snapshot is missed.
AcceptsQueued(s) ==
    /\ state.epoch = snapshot.epoch
    /\ state.service_generation[s].value = snapshot.services[s].generation

\* Slip: a global service is accepted whatever became of the nodes.
AcceptsAnyNodes(s) ==
    /\ state.epoch = snapshot.epoch
    /\ state.service_generation[s].value = snapshot.services[s].generation
    /\ s \notin Pending(state)

\* PollVerdict::accepts
Accepts(s) ==
    LET service == snapshot.services[s] IN
    /\ state.epoch = snapshot.epoch
    /\ state.service_generation[s].value = service.generation
    /\ s \notin Pending(state)
    /\ service.spec \in Global =>
         state.node_generation = snapshot.node_generation /\ ~state.nodes_dirty

\* current_poll_verdict reads the state once; what apply_poll_counts decides
\* from it and from the caches is settled there.
JudgePoll ==
    /\ TakeRequest("want_verdict") /\ ~cancelled
    /\ accepted' = {s \in Polled : Cached(s) /\ Accepts(s)}
    /\ to_mark' = {s \in Polled : ~Cached(s)}
    /\ poller' = "judged"
    /\ pc' = "judge"
    /\ UNCHANGED <<state, snapshot, last_published, poll_rejections, poll_result>>

\* A service no longer cached is marked dirty, each in a critical section.
MarkUncached(s) ==
    /\ pc = "judge" /\ s \in to_mark
    /\ state' = MarkServiceDirty(state, s, "fresh", clock)
    /\ to_mark' = to_mark \ {s}
    /\ UNCHANGED <<daemon, events, wake, pc, caches, timer, armed, locals, env,
                   poller, snapshot, accepted, last_published, poll_rejections, poll_result>>

\* The count is only compared with MAX_CARRIED_POLLS, so it saturates above it.
Rejections(s) ==
    IF poll_rejections[s] > MaxCarriedPolls THEN poll_rejections[s]
    ELSE poll_rejections[s] + 1

Rejected == {s \in Polled \ accepted : Cached(s)}

\* Slip: one poll more than the limit.
OmittedLate == {s \in Rejected : poll_rejections[s] > MaxCarriedPolls}

Omitted == {s \in Rejected : Rejections(s) > MaxCarriedPolls}

\* The labels of what was published for s are those it has now.
SameIdentity(s) ==
    /\ last_published[s].spec # NoService
    /\ LabelOf(s, last_published[s].spec) = LabelOf(s, metadata[s].spec)

\* Slip: what was not accepted is dropped.
PublishedAccepted(s) ==
    IF s \in accepted
    THEN [spec |-> snapshot.services[s].spec, nodes |-> snapshot.services[s].nodes, age |-> 0]
    ELSE NoEntry

\* Slip: the map is updated, not replaced.
PublishedMerged(s) ==
    IF s \in accepted
    THEN [spec |-> snapshot.services[s].spec, nodes |-> snapshot.services[s].nodes, age |-> 0]
    ELSE last_published[s]

Published(s) ==
    IF s \in accepted
    THEN [spec |-> snapshot.services[s].spec, nodes |-> snapshot.services[s].nodes, age |-> 0]
    ELSE IF s \in Rejected \ Omitted /\ SameIdentity(s)
    THEN [last_published[s] EXCEPT !.age = @ + 1]
    ELSE NoEntry

\* The end of apply_poll_counts: the sets are replaced wholesale.
PublishPoll ==
    /\ pc = "judge" /\ to_mark = {}
    /\ last_published' = [s \in Service |-> Published(s)]
    /\ poll_rejections' = [s \in Service |-> IF s \in Rejected THEN Rejections(s) ELSE 0]
    /\ EndPoll(IF Omitted = {} THEN "ok" ELSE "partial")
    /\ accepted' = {}
    /\ pc' = "top"
    /\ UNCHANGED <<daemon, events, shared, caches, timer, armed, locals, env, to_mark>>

\* The replicas-state build failed: the previous set stays.
FailPublish ==
    /\ pc = "judge" /\ to_mark = {}
    /\ SpendFault
    /\ EndPoll("failed")
    /\ accepted' = {}
    /\ pc' = "top"
    /\ UNCHANGED <<daemon, events, shared, caches, timer, armed, locals, cancelled,
                   clock, to_mark, last_published, poll_rejections>>

\* A request taken once the shutdown is requested is answered with Stopping.
RefusePoll ==
    /\ cancelled
    /\ \E kind \in {"want_snapshot", "want_verdict"} : TakeRequest(kind)
    /\ EndPoll("failed")
    /\ pc' = "top"
    /\ UNCHANGED <<state, accepted, to_mark, last_published, poll_rejections>>

-----------------------------------------------------------------------------

Serve ==
    \/ BuildPollSnapshot \/ JudgePoll \/ PublishPoll \/ FailPublish \/ RefusePoll
    \/ \E s \in Service : MarkUncached(s)

Poller == StartPoll \/ ListTasks \/ FailTaskList \/ StopPoller

\* A cycle starts once no request is waiting.
Reconcile ==
    /\ Daemon \/ Elapse \/ Listener \/ (~PollRequested /\ BeginCycle) \/ Step
    /\ UNCHANGED pollVars

PRest == Rest /\ poller = "stopped" /\ UNCHANGED pollVars

PNext == Reconcile \/ Serve \/ Poller \/ PRest

PSpec == PInit /\ [][PNext]_pvars

\* As in Reconciler; the ticker ticks and the task list ends.  A cycle starts
\* even though requests keep coming, since the poller waits for a tick or for
\* the daemon before each of them and the reconciler does not.
PFairness ==
    /\ WF_pvars(Step /\ UNCHANGED pollVars)
    /\ SF_pvars(~PollRequested /\ BeginCycle /\ UNCHANGED pollVars)
    /\ WF_pvars(Elapse /\ UNCHANGED pollVars)
    /\ WF_pvars(Connect /\ UNCHANGED pollVars)
    /\ WF_pvars(Signal /\ UNCHANGED pollVars)
    /\ WF_pvars(StopListener /\ UNCHANGED pollVars)
    /\ WF_pvars(DispatchEvent /\ UNCHANGED pollVars)
    /\ WF_pvars(Serve) /\ WF_pvars(Poller)

FairPSpec == PSpec /\ PFairness

-----------------------------------------------------------------------------
(* Properties *)

\* What a poll publishes is paired with what the cache holds at that moment: every
\* service has the label identity of its cached metadata, so that no replicas-state
\* series contradicts the desired-replicas series, and new counts were computed from
\* the cached spec and, for a global service, from the nodes behind its desired
\* count.  Generations, epoch and node generation were compared with the
\* snapshot's, never the metadata itself.
PublishedIsCurrent ==
    [][PublishPoll => \A s \in Service :
         LET entry == last_published'[s] IN
         entry.spec # NoService =>
           /\ Cached(s) /\ LabelOf(s, entry.spec) = LabelOf(s, metadata[s].spec)
           /\ entry.age = 0 =>
                /\ metadata[s].spec = entry.spec
                /\ entry.spec \in Global => metadata[s].nodes = entry.nodes]_pvars

\* A change whose event has not been dispatched yet.
Unannounced(s) ==
    InFlight(s) \/ Reconnecting

\* Counts are accepted only if no change the exporter was told of is waiting to
\* be applied (PollVerdict::accepts), unless a resync is outstanding: a change whose
\* key an overflow dropped waits for that resync alone.
AcceptedIsUpToDateUnlessResyncing ==
    [][JudgePoll => \A s \in accepted' :
         metadata[s].spec # world[s] /\ ~ResyncOutstanding(state) => Unannounced(s)]_pvars

\* Numbers that were not accepted by the last poll are shown for at most
\* MAX_CARRIED_POLLS polls in a row, and the rejection count says for how many.
CarriedIsBounded ==
    \A s \in Service : last_published[s].spec # NoService =>
        /\ last_published[s].age <= MaxCarriedPolls
        /\ poll_rejections[s] = last_published[s].age

\* A service that keeps its identity does not lose its series in a poll that
\* counts as a success for the poller that waits for it.
NoSilentOmission ==
    [][PublishPoll /\ poller # "stopped" /\ poll_result' = "ok" => \A s \in Polled :
         Cached(s) /\ SameIdentity(s) => last_published'[s].spec # NoService]_pvars

\* A poll that was started ends: the reconciler does not wait for the poller
\* while the poller waits for it.
PollsEnd == poller = "want_snapshot" ~> poller \in {"idle", "stopped"}

\* Once the cluster stops changing and the daemon answers, every service is
\* published with its current metadata by successful polls, unless a shutdown
\* comes first.
EventuallyPublished ==
    <>[](\/ cancelled
         \/ /\ poll_result = "ok"
            /\ \A s \in Service :
                 last_published[s].spec = world[s] /\ last_published[s].age = 0)

\* A shutdown also stops the poller, whatever it waits for.
CancelStopsAll ==
    cancelled ~> (pc = "stopped" /\ listener = "stopped" /\ poller = "stopped")

=============================================================================
