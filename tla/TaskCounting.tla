---------------------------- MODULE TaskCounting -----------------------------
(***************************************************************************)
(* How a poll turns the task list into counts (poll_replicas_state and     *)
(* at_desired of src/collector/replicas_state.rs): one task is counted per *)
(* slot or node, chosen while the list is walked in the order Docker sent  *)
(* it, which is any order.                                                 *)
(*                                                                         *)
(* The snapshot and the task list of one poll are arbitrary: what relates  *)
(* successive polls is in PollProtocol.                                    *)
(***************************************************************************)
EXTENDS Placement

CONSTANTS
    Snapshots,      \* [services, nodes] a poll may start from
    TaskLists(_)    \* the sets of tasks the daemon may list when it has these services

\* Docker's lists are finite, and a node is listed once.  The reconciler answers
\* between its steps, and apply_service and apply_nodes keep each desired_replicas
\* at the count for the node list it holds then.
ASSUME SnapshotAssumption ==
    \A snapshot \in Snapshots :
        /\ IsFiniteSet(snapshot.nodes)
        /\ \A m, n \in snapshot.nodes : m.id = n.id => m = n
        /\ \A id \in DOMAIN snapshot.services :
             LET metadata == snapshot.services[id]
             IN  metadata.desired_replicas = replica_counts(metadata, snapshot.nodes)[1]
        /\ \A list \in TaskLists(snapshot.services) :
             IsFiniteSet(list) /\ \A t \in list : t.created_at \in Nat

VARIABLES
    pc,
    services,           \* the PollSnapshot: metadata by service ID
    snapshot_nodes,     \* its node list
    tasks,              \* the listed tasks
    unseen,             \* those the walk has not reached
    latest,             \* the chosen task of each dedupe key
    counters,           \* the TaskCounter of each service
    at_desired          \* the services published as at desired

tvars == <<pc, services, snapshot_nodes, tasks, unseen, latest, counters, at_desired>>

Stopped == {"complete", "shutdown", "failed", "rejected", "remove", "orphaned"}
Retired == {"shutdown", "failed", "rejected", "remove", "orphaned"}

retired_task(task) == task.desired_state \in Retired
retired_not_stopped(task) == retired_task(task) /\ task.state \notin Stopped

\* By creation, then by status timestamp when both have one (0 is none), then by
\* version.
newer_than(candidate, current) ==
    IF candidate.created_at # current.created_at
    THEN candidate.created_at > current.created_at
    ELSE IF candidate.timestamp # 0 /\ current.timestamp # 0
    THEN candidate.timestamp > current.timestamp
    ELSE candidate.version > current.version

Running(task) == task.state = "running"

\* Slip: the newest task wins, running or not.
preferred_newest(candidate, current) ==
    IF retired_task(candidate) # retired_task(current) THEN ~retired_task(candidate)
    ELSE newer_than(candidate, current)

preferred_task(candidate, current) ==
    IF retired_task(candidate) # retired_task(current) THEN ~retired_task(candidate)
    ELSE IF Running(candidate) # Running(current) THEN Running(candidate)
    ELSE newer_than(candidate, current)

\* A task of an earlier run of a job; a task without an iteration is one.
EarlierIteration(task) ==
    LET metadata == services[task.service] IN
    is_job_mode(metadata.service_mode) /\ task.iteration # {metadata.job_iteration}

Countable(task) ==
    /\ task.service \in DOMAIN services
    /\ ~retired_not_stopped(task)
    /\ ~EarlierIteration(task)

\* dedupe_key_for_task of a countable task.
LatestKey(task) ==
    IF services[task.service].service_mode \in {"replicated", "replicated-job"}
    THEN <<task.service, task.slot, Empty>>
    ELSE <<task.service, 0, task.node>>

TInit ==
    /\ pc = "start"
    /\ \E snapshot \in Snapshots :
         services = snapshot.services /\ snapshot_nodes = snapshot.nodes
    /\ tasks = {} /\ unseen = {} /\ latest = {}
    /\ counters = <<>> /\ at_desired = {}

\* An empty snapshot needs no list.
ListTasks ==
    /\ pc = "start" /\ DOMAIN services # {}
    /\ \E list \in TaskLists(services) : tasks' = list /\ unseen' = list
    /\ pc' = "walk"
    /\ UNCHANGED <<services, snapshot_nodes, latest, counters, at_desired>>

\* The poll fails and publishes nothing.
FailList ==
    /\ pc = "start" /\ DOMAIN services # {}
    /\ pc' = "failed"
    /\ UNCHANGED <<services, snapshot_nodes, tasks, unseen, latest, counters, at_desired>>

SkipList ==
    /\ pc = "start" /\ DOMAIN services = {}
    /\ pc' = "counted"
    /\ UNCHANGED <<services, snapshot_nodes, tasks, unseen, latest, counters, at_desired>>

\* Slip: the last countable task of a key wins.
ConsiderLast(task) ==
    /\ pc = "walk" /\ task \in unseen
    /\ unseen' = unseen \ {task}
    /\ LET previous == {t \in latest : LatestKey(t) = LatestKey(task)} IN
       latest' = IF Countable(task) THEN (latest \ previous) \cup {task} ELSE latest
    /\ UNCHANGED <<pc, services, snapshot_nodes, tasks, counters, at_desired>>

\* One turn of the walk; the rest of the key's tasks may come before or after.
Consider(task) ==
    /\ pc = "walk" /\ task \in unseen
    /\ unseen' = unseen \ {task}
    /\ LET previous == {t \in latest : LatestKey(t) = LatestKey(task)} IN
       latest' = IF Countable(task) /\ \A t \in previous : preferred_task(task, t)
                 THEN (latest \ previous) \cup {task}
                 ELSE latest
    /\ UNCHANGED <<pc, services, snapshot_nodes, tasks, counters, at_desired>>

\* The chosen tasks of a service.
Chosen(id) == {t \in latest : t.service = id}
Wanted(id) == {t \in Chosen(id) : ~retired_task(t)}
WantedComplete(id) == {t \in Wanted(id) : t.state = "complete"}

\* By the identity of the nodes; an empty node list covers nothing.
eligible_nodes_covered(id) ==
    /\ snapshot_nodes # {}
    /\ \A n \in Eligible(snapshot_nodes, services[id]) :
         \E t \in WantedComplete(id) : t.node = n.id

\* count_wanted and mark_eligible_nodes_covered; add_services_without_tasks gives
\* the services without a chosen task an empty counter.
Counter(id) ==
    [running |-> Cardinality({t \in Chosen(id) : Running(t)}),
     wanted |-> Cardinality(Wanted(id)),
     wanted_complete |-> Cardinality(WantedComplete(id)),
     eligible_nodes_covered |->
         /\ services[id].service_mode = "global-job"
         /\ Chosen(id) # {} /\ eligible_nodes_covered(id),
     desired |-> services[id].desired_replicas]

CountTasks ==
    /\ pc = "walk" /\ unseen = {}
    /\ counters' = [id \in DOMAIN services |-> Counter(id)]
    /\ pc' = "counted"
    /\ UNCHANGED <<services, snapshot_nodes, tasks, unseen, latest, at_desired>>

\* Slip: a job is finished once enough tasks completed.
job_completed(mode, counter) ==
    IF mode = "replicated-job"
    THEN counter.wanted_complete >= counter.desired
    ELSE counter.wanted > 0 /\ counter.eligible_nodes_covered

job_at_desired(mode, counter) ==
    /\ counter.wanted_complete = counter.wanted
    /\ IF mode = "replicated-job"
       THEN counter.wanted_complete >= counter.desired
       ELSE counter.wanted > 0 /\ counter.eligible_nodes_covered

Reached(id) ==
    LET mode == services[id].service_mode IN
    IF is_job_mode(mode) THEN job_at_desired(mode, counters[id])
    ELSE counters[id].running = counters[id].desired

\* ReplicasState::update with the counters of every service.
Publish ==
    /\ pc = "counted"
    /\ at_desired' = {id \in DOMAIN services : Reached(id)}
    /\ pc' = "published"
    /\ UNCHANGED <<services, snapshot_nodes, tasks, unseen, latest, counters>>

NextPoll ==
    /\ pc \in {"published", "failed"}
    /\ pc' = "start"
    /\ \E snapshot \in Snapshots :
         services' = snapshot.services /\ snapshot_nodes' = snapshot.nodes
    /\ tasks' = {} /\ unseen' = {} /\ latest' = {}
    /\ counters' = <<>> /\ at_desired' = {}

TNext ==
    \/ \E task \in unseen : Consider(task)
    \/ ListTasks \/ FailList \/ SkipList \/ CountTasks \/ Publish \/ NextPoll

TSpec == TInit /\ [][TNext]_tvars

-----------------------------------------------------------------------------
(* Properties *)

Walked == tasks \ unseen

ServedKeys(set) == {LatestKey(t) : t \in {u \in set : Running(u) /\ ~retired_task(u)}}

\* At every point of the walk, one task is chosen per slot or node that has a
\* countable task, and it is a wanted, running one exactly where there is one:
\* neither a newer task that is still starting nor a retired one that a dead node
\* keeps reporting hides or inflates the replicas that serve.
RunningIsServed ==
    /\ latest \subseteq {t \in Walked : Countable(t)}
    /\ \A t, u \in latest : LatestKey(t) = LatestKey(u) => t = u
    /\ \A u \in Walked : Countable(u) => \E t \in latest : LatestKey(t) = LatestKey(u)
    /\ {LatestKey(t) : t \in {u \in latest : Running(u)}}
         = ServedKeys({u \in Walked : Countable(u)})

\* The choice does not depend on the order of Docker's list (preferred_task), when
\* no two tasks of it were created at the same time: newer_than falls back to
\* status times and versions, which need not order three tasks alike.
OrderDoesNotMatterIfCreatedApart ==
    (\A t, u \in tasks : t.created_at = u.created_at => t = u) =>
    \A t \in latest, u \in Walked :
        Countable(u) /\ LatestKey(t) = LatestKey(u) => t = u \/ preferred_task(t, u)

\* A job reported as finished is done: no task of it that Swarm wants is still
\* running, wherever in the list that task was, and "covering every eligible node
\* implies wanted_complete >= desired", where node identity, the dedupe by node and
\* the count the snapshot holds have to agree.
FinishedJobIsDone ==
    /\ \A id \in at_desired : is_job_mode(services[id].service_mode) =>
         ~\E t \in tasks : t.service = id /\ Countable(t) /\ Running(t)
    /\ \A id \in DOMAIN counters : counters[id].eligible_nodes_covered =>
         /\ counters[id].wanted_complete >= counters[id].desired
         /\ \A n \in Eligible(snapshot_nodes, services[id]) :
              \E t \in tasks : t.service = id /\ t.node = n.id /\ t.state = "complete"

=============================================================================
