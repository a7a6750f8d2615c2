----------------------------- MODULE Exposition ------------------------------
(* The metric families, written series by series while a scrape reads them    *)
(* family by family.  The reconciler's apply functions are sequences of       *)
(* registry operations, each under the lock of its family only; polls publish *)
(* snapshots; /metrics encodes the registry.                                  *)
(* Source: src/metrics.rs, src/collector/service_update.rs, nodes.rs and      *)
(* reconciler/mod.rs.                                                         *)
EXTENDS Naturals, Sequences, FiniteSets, FiniteSetsExt

CONSTANTS
    Service,       \* service IDs
    Identity(_),   \* the label identities a service may have, no two services share one
    UpdateStatus,  \* update statuses: {} or {[state, started_at, completed_at]}
    NodeLists,     \* node lists: node ID to [role, availability, status]
    MaxChanges,    \* bound: services and node lists applied
    MaxPolls       \* bound: polls

\* Reconciler follows what happens where two services of a name meet in the cache.
ASSUME IdentityAssumption ==
    /\ IsFiniteSet(Service)
    /\ \A s, t \in Service : s # t => Identity(s) \cap Identity(t) = {}

VARIABLES
    metadata, nodes,         \* the reconciler's caches
    gauge, nodes_by_state,   \* the GaugeVecs and the node snapshot
    todo,                    \* registry operations left of the apply that runs
    published, polls,        \* the replicas snapshot: {} or {[poll, series]}
    scrape, held, seen,      \* scrape: its position, snapshot it loaded, what it read
    lasting,                 \* identities that were complete when it began and are still wanted
    changes                  \* bound used up

caches == <<metadata, nodes, changes>>
registry == <<gauge, nodes_by_state>>
polling == <<published, polls>>
scraping == <<scrape, held, seen>>
evars == <<caches, registry, todo, polling, scraping, lasting>>

---------------------------------------------------------------------------
(* Families. *)

KNOWN_STATES == <<"updating", "completed", "paused", "rollback_started", "rollback_completed">>
Vecs == {"desired", "schedulable", "state", "started", "completed"}
ReplicaFamilies == {"at_desired", "running", "state_replicas"}

\* Collectors are encoded in registration order.  The counters, the node counts
\* and the health gauges are one value or one snapshot each and left out.
Order ==
    <<"desired", "schedulable", "load", "at_desired", "running", "state_replicas",
      "state", "started", "completed">>

SetSeries(family, key, value) == [family |-> family, key |-> key, value |-> {value}]
DeleteSeries(family, key) == [family |-> family, key |-> key, value |-> {}]

set_with(series, key, value) ==
    [k \in DOMAIN series \cup {key} |-> IF k = key THEN value ELSE series[k]]
delete_with(series, key) == [k \in DOMAIN series \ {key} |-> series[k]]

---------------------------------------------------------------------------
(* What an apply does to the registry, operation by operation. *)

update_state_from_swarm(state) ==
    IF state = {} THEN "completed"
    ELSE LET s == CHOOSE s \in state : TRUE IN IF s \in Range(KNOWN_STATES) THEN s ELSE "paused"

seconds(time) == IF time = {} THEN 0 ELSE CHOOSE t \in time : TRUE

\* Slip: only the current state is written.
update_current(m) ==
    LET current == update_state_from_swarm({u.state : u \in m.update})
    IN  <<SetSeries("state", <<m.labels, current>>, 1),
          SetSeries("started", m.labels, 0), SetSeries("completed", m.labels, 0)>>

update_for_service(m) ==
    LET current == update_state_from_swarm({u.state : u \in m.update})
    IN  [i \in 1 .. Len(KNOWN_STATES) |->
            SetSeries("state", <<m.labels, KNOWN_STATES[i]>>,
                      IF KNOWN_STATES[i] = current THEN 1 ELSE 0)]
        \o <<SetSeries("started", m.labels, seconds(UNION {u.started_at : u \in m.update})),
             SetSeries("completed", m.labels, seconds(UNION {u.completed_at : u \in m.update}))>>

clear(labels) ==
    [i \in 1 .. Len(KNOWN_STATES) |-> DeleteSeries("state", <<labels, KNOWN_STATES[i]>>)]
    \o <<DeleteSeries("started", labels), DeleteSeries("completed", labels)>>

delete_service_series(labels) ==
    <<DeleteSeries("desired", labels), DeleteSeries("schedulable", labels)>> \o clear(labels)

\* The counts are functions of the metadata and the nodes: see Placement.
SetGauges(m, list) ==
    <<SetSeries("desired", m.labels, [of |-> m, nodes |-> list]),
      SetSeries("schedulable", m.labels, [of |-> m, nodes |-> list])>>

\* Each node adds one to the count of its role, availability and status.
build_nodes_by_state(list) ==
    LET Add(n, counts) ==
            set_with(counts, list[n], IF list[n] \in DOMAIN counts THEN counts[list[n]] + 1 ELSE 1)
    IN  FoldSet(Add, <<>>, DOMAIN list)

---------------------------------------------------------------------------

EInit ==
    /\ metadata = [s \in Service |-> {}] /\ nodes = <<>> /\ changes = 0
    /\ gauge = [f \in Vecs |-> <<>>] /\ nodes_by_state = <<>> /\ todo = <<>>
    /\ published = {} /\ polls = 0
    /\ scrape = 0 /\ held = {} /\ seen = <<>> /\ lasting = {}

Change ==
    /\ todo = <<>> /\ changes < MaxChanges
    /\ changes' = changes + 1

Labels(m) == {x.labels : x \in m}
Cached == UNION {metadata[s] : s \in Service}

\* A service has one identity, or none.
Deletions(identities) ==
    IF identities = {} THEN <<>> ELSE delete_service_series(CHOOSE l \in identities : TRUE)

\* Slip: the series are deleted although the identity is the same.
ApplyServiceAfresh(s, m) ==
    /\ Change
    /\ metadata' = [metadata EXCEPT ![s] = {m}]
    /\ todo' = Deletions(Labels(metadata[s])) \o SetGauges(m, nodes) \o update_for_service(m)
    /\ lasting' = lasting \ (Labels(metadata[s]) \ {m.labels})
    /\ UNCHANGED <<nodes, registry, polling, scraping>>

\* The series of an identity the service no longer has are deleted first.
ApplyService(s, m) ==
    LET left == Labels(metadata[s]) \ {m.labels}
    IN  /\ Change
        /\ metadata' = [metadata EXCEPT ![s] = {m}]
        /\ todo' = Deletions(left) \o SetGauges(m, nodes) \o update_for_service(m)
        /\ lasting' = lasting \ left
        /\ UNCHANGED <<nodes, registry, polling, scraping>>

RemoveService(s) ==
    /\ Change
    /\ metadata[s] # {}
    /\ metadata' = [metadata EXCEPT ![s] = {}]
    /\ todo' = Deletions(Labels(metadata[s]))
    /\ lasting' = lasting \ Labels(metadata[s])
    /\ UNCHANGED <<nodes, registry, polling, scraping>>

\* The cached services are recomputed in any order, each with two operations.
ApplyNodes(list) ==
    /\ Change
    /\ nodes' = list
    /\ nodes_by_state' = build_nodes_by_state(list)
    /\ \E order \in Bijection(1 .. Cardinality(Cached), Cached) :
          todo' = [i \in 1 .. 2 * Len(order) |->
                      SetGauges(order[(i + 1) \div 2], list)[IF i % 2 = 1 THEN 1 ELSE 2]]
    /\ UNCHANGED <<metadata, gauge, polling, scraping, lasting>>

\* One operation, under the lock of its family.
Write ==
    /\ todo # <<>>
    /\ LET op == Head(todo)
       IN  gauge' = [gauge EXCEPT ![op.family] =
                        IF op.value = {} THEN delete_with(@, op.key)
                        ELSE set_with(@, op.key, CHOOSE v \in op.value : TRUE)]
    /\ todo' = Tail(todo)
    /\ UNCHANGED <<caches, nodes_by_state, polling, scraping, lasting>>

---------------------------------------------------------------------------
(* A poll's replicas snapshot, which the reconciler publishes between two     *)
(* applies: the three families are built whole and replaced in one swap.      *)

publish ==
    /\ todo = <<>> /\ polls < MaxPolls
    /\ polls' = polls + 1
    /\ published' = {[poll |-> polls + 1,
                      series |-> [f \in ReplicaFamilies |-> Labels(Cached)]]}
    /\ UNCHANGED <<caches, registry, todo, scraping, lasting>>

---------------------------------------------------------------------------
(* A scrape. *)

\* A service is complete when no operation for it is left.
Complete == {l \in Labels(Cached) :
                \A i \in DOMAIN todo : todo[i].key # l /\ todo[i].key \notin {l} \X Range(KNOWN_STATES)}

BeginScrape ==
    /\ scrape = 0 /\ scrape' = 1
    /\ lasting' = Complete
    /\ UNCHANGED <<caches, registry, todo, polling, held, seen>>

Reading(family) ==
    /\ scrape > 0 /\ scrape <= Len(Order) /\ Order[scrape] = family
    /\ scrape' = scrape + 1
    /\ UNCHANGED <<caches, registry, todo, polling, lasting>>

Saw(family, value) ==
    /\ seen' = set_with(seen, family, value)
    /\ UNCHANGED held

\* A replicas family is encoded from the set the scrape has loaded.
EncodeSnapshot(family) ==
    /\ Reading(family)
    /\ Saw(family, {[poll |-> p.poll, series |-> p.series[family]] : p \in held})

load ==
    /\ Reading("load")
    /\ held' = published
    /\ UNCHANGED seen

\* A GaugeVec's children are cloned under its lock; which series they are is kept.
EncodeVec(family) == Reading(family) /\ Saw(family, DOMAIN gauge[family])

EndScrape ==
    /\ scrape = Len(Order) + 1 /\ scrape' = 0
    /\ held' = {} /\ seen' = <<>> /\ lasting' = {}
    /\ UNCHANGED <<caches, registry, todo, polling>>

---------------------------------------------------------------------------

Apply ==
    \/ \E s \in Service :
          \/ RemoveService(s)
          \/ \E l \in Identity(s), u \in UpdateStatus : ApplyService(s, [labels |-> l, update |-> u])
    \/ \E list \in NodeLists : ApplyNodes(list)
    \/ Write

Scrape ==
    \/ BeginScrape \/ load \/ EndScrape
    \/ \E f \in ReplicaFamilies : EncodeSnapshot(f)
    \/ \E f \in Vecs : EncodeVec(f)

ENext == Apply \/ publish \/ Scrape

ESpec == EInit /\ [][ENext]_evars

---------------------------------------------------------------------------
(* Properties. *)

\* Between two applies the families hold exactly the series of the cached
\* services, whatever renames, updates and removals led there: the counts are
\* those of the cached metadata and nodes, all five update states have a series
\* and one of them is 1 (apply_service, remove_service, apply_nodes).
SettledSeries ==
    todo = <<>> =>
        /\ \A f \in Vecs \ {"state"} : DOMAIN gauge[f] = Labels(Cached)
        /\ DOMAIN gauge["state"] = Labels(Cached) \X Range(KNOWN_STATES)
        /\ \A m \in Cached :
             /\ gauge["desired"][m.labels] = [of |-> m, nodes |-> nodes]
             /\ gauge["schedulable"][m.labels] = [of |-> m, nodes |-> nodes]
             /\ Cardinality({k \in Range(KNOWN_STATES) :
                                gauge["state"][<<m.labels, k>>] = 1}) = 1

\* A scrape is whole although applies and polls go on while it reads.  A service whose
\* series were complete when it began, and which kept its identity until it ended, is
\* in every family it has read: an update in place never takes a series away
\* (apply_service deletes only under another identity).  The replicas families are of
\* one poll and name the same services (SnapshotCollector::encode loads the set once).
ScrapeIsWhole ==
    /\ \A f \in Vecs \cap DOMAIN seen : \A l \in lasting :
         IF f = "state" THEN {l} \X Range(KNOWN_STATES) \subseteq seen[f]
         ELSE l \in seen[f]
    /\ \A f, g \in ReplicaFamilies \cap DOMAIN seen : seen[f] = seen[g]

=============================================================================
