---------------------------- MODULE SeriesProofs -----------------------------
(***************************************************************************)
(* What the published values say: the replica gauges (ReplicaGauges), the  *)
(* counts of a poll (TaskCounting) and the container series (Containers),  *)
(* for every node list, service spec, snapshot, task list and set of       *)
(* containers.                                                             *)
(***************************************************************************)
EXTENDS ReplicaGauges, TaskCounting, Containers, FiniteSetTheorems,
        FunctionTheorems, TLAPS

-----------------------------------------------------------------------------
(* The gauges *)

\* What the reconciler keeps true of one service: the gauges it wrote last are the
\* counts of the metadata and of the nodes that are cached now, whichever of
\* apply_service and apply_nodes wrote them.
GaugesFollowCaches ==
    /\ IsFiniteSet(nodes)
    /\ metadata # NoSpec =>
         /\ \E spec \in ServiceSpecs : metadata = build_metadata(spec)
         /\ desired = {replica_counts(metadata, nodes)[1]}
         /\ schedulable = {schedulable_value(metadata, replica_counts(metadata, nodes)[2])}

\* build_metadata counts in natural numbers and copies the constraints.
LEMMA MetadataFacts ==
    ASSUME NEW spec \in ServiceSpecs
    PROVE  /\ build_metadata(spec).configured_replicas \in Nat
           /\ build_metadata(spec).constraints = spec.constraints
<1>1. \A option \in SUBSET Nat, default \in Nat : OrElse(option, default) \in Nat
  BY Zenon DEF OrElse
<1>2. /\ spec.replicas \in SUBSET Nat /\ spec.total_completions \in SUBSET Nat
      /\ spec.max_concurrent \in SUBSET Nat
  BY Zenon, ListsAssumption
<1>3. 0 \in Nat /\ 1 \in Nat
  OBVIOUS
<1>4. job_total_completions(spec) \in Nat
  BY Zenon, <1>1, <1>2, <1>3 DEF job_total_completions
<1>5. OrElse(spec.replicas, 0) \in Nat
  BY Zenon, <1>1, <1>2, <1>3
<1> QED
  BY <1>3, <1>4, <1>5 DEF build_metadata

\* The counts that replica_counts and schedulable_value compute do not go up when the
\* set of eligible nodes shrinks.
LEMMA CountsMonotone ==
    ASSUME NEW meta, meta.configured_replicas \in Nat,
           NEW before, NEW after, IsFiniteSet(before),
           Eligible(after, meta) \subseteq Eligible(before, meta)
    PROVE  /\ replica_counts(meta, after)[1] <= replica_counts(meta, before)[1]
           /\ schedulable_value(meta, replica_counts(meta, after)[2])
                <= schedulable_value(meta, replica_counts(meta, before)[2])
<1> DEFINE few == Cardinality(Eligible(after, meta))
           many == Cardinality(Eligible(before, meta))
<1>1. Eligible(before, meta) \in SUBSET before
  BY Zenon DEF Eligible
<1>2. IsFiniteSet(Eligible(before, meta))
  BY Zenon, <1>1, FS_Subset
<1>3. IsFiniteSet(Eligible(after, meta)) /\ few <= many
  BY Zenon, <1>2, FS_Subset
<1>4. few \in Nat /\ many \in Nat
  BY Zenon, <1>2, <1>3, FS_CardinalityType
<1> HIDE DEF few, many
<1>5. /\ replica_counts(meta, after)[1] <= replica_counts(meta, before)[1]
      /\ replica_counts(meta, after)[2] <= replica_counts(meta, before)[2]
  BY <1>3, <1>4 DEF replica_counts, few, many
<1> QED
  BY <1>5 DEF schedulable_value

\* The gauges of a service always show the counts of what is cached for it
\* (apply_service, apply_nodes, remove_service).
LEMMA GaugesFollow == GSpec => []GaugesFollowCaches
<1>1. GInit => GaugesFollowCaches
  BY Zenon, FS_EmptySet DEF GInit, GaugesFollowCaches
<1>2. GaugesFollowCaches /\ [GNext]_gvars => GaugesFollowCaches'
  <2> SUFFICES ASSUME GaugesFollowCaches, [GNext]_gvars
               PROVE  GaugesFollowCaches'
    OBVIOUS
  <2>1. ASSUME NEW spec \in ServiceSpecs, ApplyService(spec) PROVE GaugesFollowCaches'
    BY Zenon, <2>1 DEF ApplyService, SetGauges, GaugesFollowCaches
  <2>2. ASSUME NEW list \in NodeLists, ApplyNodes(list) PROVE GaugesFollowCaches'
    <3>1. IsFiniteSet(list)
      BY Zenon, ListsAssumption
    <3> QED
      BY Zenon, <2>2, <3>1 DEF ApplyNodes, SetGauges, GaugesFollowCaches
  <2>3. CASE RemoveService
    BY Zenon, <2>3 DEF RemoveService, GaugesFollowCaches
  <2>4. CASE UNCHANGED gvars
    BY Zenon, <2>4 DEF gvars, GaugesFollowCaches
  <2> QED
    BY Zenon, <2>1, <2>2, <2>3, <2>4 DEF GNext
<1> QED
  BY <1>1, <1>2, PTL DEF GSpec

\* One step of the reconciler that keeps the metadata of a service: draining nodes
\* raises neither gauge, and the desired count of a replicated service or job stays.
LEMMA NodeStep ==
    ASSUME GaugesFollowCaches, GaugesFollowCaches', metadata # NoSpec, metadata' = metadata
    PROVE  /\ Drained(nodes, nodes') =>
                /\ \A d \in desired, e \in desired' : e <= d
                /\ \A m \in schedulable, p \in schedulable' : p <= m
           /\ metadata.service_mode \in {"replicated", "replicated-job"} =>
                desired' = desired
<1>1. /\ desired = {replica_counts(metadata, nodes)[1]}
      /\ desired' = {replica_counts(metadata, nodes')[1]}
      /\ schedulable = {schedulable_value(metadata, replica_counts(metadata, nodes)[2])}
      /\ schedulable' = {schedulable_value(metadata, replica_counts(metadata, nodes')[2])}
      /\ IsFiniteSet(nodes)
  BY Zenon DEF GaugesFollowCaches
<1>2. metadata.configured_replicas \in Nat
  BY Zenon, MetadataFacts DEF GaugesFollowCaches
<1>3. ASSUME Drained(nodes, nodes')
      PROVE  /\ \A d \in desired, e \in desired' : e <= d
             /\ \A m \in schedulable, p \in schedulable' : p <= m
  <2>1. Eligible(nodes', metadata) \subseteq Eligible(nodes, metadata)
    BY Zenon, <1>3 DEF Drained, Eligible, node_eligible
  <2>2. /\ replica_counts(metadata, nodes')[1] <= replica_counts(metadata, nodes)[1]
        /\ schedulable_value(metadata, replica_counts(metadata, nodes')[2])
             <= schedulable_value(metadata, replica_counts(metadata, nodes)[2])
    BY Zenon, <1>1, <1>2, <2>1, CountsMonotone
  <2> QED
    BY Zenon, <1>1, <2>2
<1>4. ASSUME metadata.service_mode \in {"replicated", "replicated-job"}
      PROVE  desired' = desired
  <2>1. replica_counts(metadata, nodes)[1] = replica_counts(metadata, nodes')[1]
    BY <1>4 DEF replica_counts
  <2> QED
    BY Zenon, <1>1, <2>1
<1> QED
  BY Zenon, <1>3, <1>4

\* Whatever the nodes do, the gauges of a service move only as its spec allows:
\* draining never raises a count, and the desired count of the modes that
\* PollVerdict::accepts judges without looking at the nodes never moves.
THEOREM NodeChangesCorrect == GSpec => NodeChangesAreContained
<1>1. GaugesFollowCaches /\ GaugesFollowCaches' =>
        [metadata # NoSpec /\ metadata' = metadata =>
           /\ Drained(nodes, nodes') =>
                /\ \A d \in desired, e \in desired' : e <= d
                /\ \A m \in schedulable, p \in schedulable' : p <= m
           /\ metadata.service_mode \in {"replicated", "replicated-job"} =>
                desired' = desired]_gvars
  BY Zenon, NodeStep
<1> QED
  BY <1>1, GaugesFollow, PTL DEF NodeChangesAreContained

\* A parsed constraint and its negation are opposite, and one of them holds exactly
\* when swarmkit accepts the key and the value (node_matches_constraint).
LEMMA ConstraintDecided ==
    ASSUME NEW n, NEW c, ParsedConstraint(c)
    PROVE  LET this == constraints_match(n, {c})
               other == constraints_match(n, {Negated(c)}) IN
           /\ ~(this /\ other)
           /\ this \/ other <=>
                /\ c.key # "unknown"
                /\ c.key = "node.ip" => Addresses(c.expected) # {}
<1> DEFINE d == Negated(c)
<1>1. /\ d.key = c.key /\ d.label = c.label /\ d.expected = c.expected
      /\ (d.operator = "==") <=> ~(c.operator = "==")
  BY DEF Negated, ParsedConstraint
<1>2. c # MalformedConstraint /\ d # MalformedConstraint
  BY <1>1 DEF ParsedConstraint, MalformedConstraint, Keys, Fields, LabelKeys
<1>3. Candidate(n, d) = Candidate(n, c)
  BY Zenon, <1>1 DEF Candidate
<1> HIDE DEF d
<1>4. /\ constraints_match(n, {c}) <=> node_matches_constraint(n, c)
      /\ constraints_match(n, {d}) <=> node_matches_constraint(n, d)
  BY Zenon, <1>2 DEF constraints_match
<1>5. CASE c.key = "node.ip"
  <2>1. "node.ip" \notin Fields \cup LabelKeys /\ "node.ip" # "unknown"
    BY DEF Fields, LabelKeys
  <2> QED
    BY Zenon, <1>1, <1>4, <1>5, <2>1
    DEF node_matches_constraint, match_node_ip_constraint, d
<1>6. CASE c.key \in Fields \cup LabelKeys
  <2>1. c.key # "node.ip" /\ c.key # "unknown"
    BY <1>6 DEF Fields, LabelKeys
  <2> QED
    BY Zenon, <1>1, <1>3, <1>4, <1>6, <2>1
    DEF node_matches_constraint, match_constraint_value, d
<1>7. CASE c.key = "unknown"
  <2>1. "unknown" \notin Fields \cup LabelKeys /\ "node.ip" # "unknown"
    BY DEF Fields, LabelKeys
  <2> QED
    BY Zenon, <1>1, <1>4, <1>7, <2>1 DEF node_matches_constraint, d
<1> QED
  BY Zenon, <1>5, <1>6, <1>7 DEF ParsedConstraint, Keys

\* On every node and for every service that can be cached, a constraint excludes its
\* negation, and one of the two holds unless swarmkit rejects both.
THEOREM ConstraintsCorrect == GSpec => []ConstraintsAreDecided
<1>1. GaugesFollowCaches => ConstraintsAreDecided
  <2> SUFFICES ASSUME GaugesFollowCaches, metadata # NoSpec,
                      NEW n \in nodes, NEW c \in metadata.constraints \ {MalformedConstraint}
               PROVE  LET this == constraints_match(n, {c})
                          other == constraints_match(n, {Negated(c)}) IN
                      /\ ~(this /\ other)
                      /\ this \/ other <=>
                           /\ c.key # "unknown"
                           /\ c.key = "node.ip" => Addresses(c.expected) # {}
    BY Zenon DEF ConstraintsAreDecided
  <2>1. ParsedConstraint(c)
    BY Zenon, MetadataFacts, ListsAssumption DEF GaugesFollowCaches
  <2> QED
    BY Zenon, <2>1, ConstraintDecided
<1> QED
  BY <1>1, GaugesFollow, PTL

-----------------------------------------------------------------------------
(* The counts of a poll *)

\* The lists a poll works on, and how far it has come.
WalkInv ==
    /\ \E snapshot \in Snapshots :
         /\ services = snapshot.services /\ snapshot_nodes = snapshot.nodes
         /\ tasks = {} \/ tasks \in TaskLists(snapshot.services)
    /\ unseen \subseteq tasks
    /\ pc = "start" => tasks = {} /\ latest = {}

\* What is kept between the walk and the end of the poll: the counters of every
\* service are those of the chosen tasks, once the whole list is walked.
CountersInv ==
    /\ \A id \in DOMAIN counters :
         id \in DOMAIN services /\ counters[id] = Counter(id) /\ unseen = {}
    /\ pc \in {"start", "walk", "failed"} => counters = <<>> /\ at_desired = {}
    /\ pc = "counted" => DOMAIN counters = DOMAIN services
    /\ \A id \in at_desired : id \in DOMAIN counters /\ Reached(id)

\* A countable running task is wanted: retired_not_stopped drops the others.
LEMMA RunningIsWanted ==
    ASSUME NEW t, Countable(t), Running(t)
    PROVE  ~retired_task(t)
<1>1. "running" \notin Stopped
  BY DEF Stopped
<1> QED
  BY Zenon, <1>1 DEF Countable, retired_not_stopped, Running

\* A wanted running task gives way to wanted running tasks only.
LEMMA ServingIsKept ==
    ASSUME NEW t, Running(t), ~retired_task(t), NEW u
    PROVE  /\ preferred_task(u, t) => Running(u) /\ ~retired_task(u)
           /\ ~preferred_task(t, u) => Running(u) /\ ~retired_task(u)
  BY DEF preferred_task, Running, retired_task

\* preferred_task orders tasks that were created apart: it decides between two, and
\* is transitive.
LEMMA PreferredDecides ==
    ASSUME NEW t, NEW u, t.created_at \in Nat, u.created_at \in Nat,
           t.created_at # u.created_at
    PROVE  ~preferred_task(t, u) => preferred_task(u, t)
<1>1. /\ newer_than(t, u) <=> t.created_at > u.created_at
      /\ newer_than(u, t) <=> u.created_at > t.created_at
  BY Zenon DEF newer_than
<1>2. ~newer_than(t, u) => newer_than(u, t)
  BY <1>1
<1> QED
  BY <1>2 DEF preferred_task, Running, retired_task

\* See PreferredDecides.
LEMMA PreferredIsTransitive ==
    ASSUME NEW t, NEW u, NEW v,
           t.created_at \in Nat, u.created_at \in Nat, v.created_at \in Nat,
           t.created_at # u.created_at, u.created_at # v.created_at,
           t.created_at # v.created_at, preferred_task(t, u), preferred_task(u, v)
    PROVE  preferred_task(t, v)
<1>1. /\ newer_than(t, u) <=> t.created_at > u.created_at
      /\ newer_than(u, v) <=> u.created_at > v.created_at
      /\ newer_than(t, v) <=> t.created_at > v.created_at
  BY Zenon DEF newer_than
<1>2. newer_than(t, u) /\ newer_than(u, v) => newer_than(t, v)
  BY <1>1
<1> QED
  BY <1>2 DEF preferred_task, Running, retired_task

\* RunningIsServed, task by task.
ServedInv ==
    /\ \A t \in latest : t \in Walked /\ Countable(t)
    /\ \A t, u \in latest : LatestKey(t) = LatestKey(u) => t = u
    /\ \A u \in Walked : Countable(u) =>
         \E t \in latest : LatestKey(t) = LatestKey(u) /\ (Running(u) => Running(t))

\* The task by task form is enough.
LEMMA ServedImplies == ServedInv => RunningIsServed
<1> SUFFICES ASSUME ServedInv PROVE RunningIsServed
  OBVIOUS
<1>1. latest \subseteq {t \in Walked : Countable(t)}
  BY Zenon DEF ServedInv
<1>2. ASSUME NEW t \in latest, Running(t)
      PROVE  LatestKey(t) \in ServedKeys({u \in Walked : Countable(u)})
  BY Zenon, <1>2, RunningIsWanted DEF ServedInv, ServedKeys
<1>3. ASSUME NEW u \in Walked, Countable(u), Running(u)
      PROVE  \E t \in latest : Running(t) /\ LatestKey(t) = LatestKey(u)
  BY Zenon, <1>3 DEF ServedInv
<1>4. {LatestKey(t) : t \in {u \in latest : Running(u)}}
        \subseteq ServedKeys({u \in Walked : Countable(u)})
  BY Zenon, <1>2
<1>5. ServedKeys({u \in Walked : Countable(u)})
        \subseteq {LatestKey(t) : t \in {u \in latest : Running(u)}}
  BY Zenon, <1>3 DEF ServedKeys
<1> QED
  BY Zenon, <1>1, <1>4, <1>5 DEF RunningIsServed, ServedInv

\* The snapshot decides which tasks count and what their keys are.
LEMMA SnapshotFrame ==
    ASSUME services' = services, NEW t
    PROVE  Countable(t)' = Countable(t) /\ LatestKey(t)' = LatestKey(t)
  BY Zenon DEF Countable, EarlierIteration, LatestKey

\* What one turn of the walk does to the chosen tasks.
LEMMA ConsiderFacts ==
    ASSUME WalkInv, NEW task \in unseen, Consider(task)
    PROVE  /\ services' = services /\ tasks' = tasks
           /\ Walked' = Walked \cup {task}
           /\ \/ /\ Countable(task)
                 /\ \A t \in latest : LatestKey(t) = LatestKey(task) => preferred_task(task, t)
                 /\ latest' = {t \in latest : LatestKey(t) # LatestKey(task)} \cup {task}
              \/ /\ Countable(task) =>
                      \E t \in latest : LatestKey(t) = LatestKey(task) /\ ~preferred_task(task, t)
                 /\ latest' = latest
<1>1. services' = services /\ tasks' = tasks /\ unseen' = unseen \ {task}
  BY Zenon DEF Consider
<1>2. Walked' = Walked \cup {task}
  <2>1. task \in tasks
    BY Zenon DEF WalkInv
  <2> QED
    BY Zenon, <1>1, <2>1 DEF Walked
<1> DEFINE previous == {t \in latest : LatestKey(t) = LatestKey(task)}
<1>3. latest' = IF Countable(task) /\ \A t \in previous : preferred_task(task, t)
                THEN (latest \ previous) \cup {task}
                ELSE latest
  BY Zenon DEF Consider
<1>4. latest \ previous = {t \in latest : LatestKey(t) # LatestKey(task)}
  BY Zenon
<1>5. CASE Countable(task) /\ \A t \in previous : preferred_task(task, t)
  BY Zenon, <1>1, <1>2, <1>3, <1>4, <1>5
<1>6. CASE ~(Countable(task) /\ \A t \in previous : preferred_task(task, t))
  BY Zenon, <1>1, <1>2, <1>3, <1>6
<1> QED
  BY Zenon, <1>5, <1>6

\* One turn of the walk keeps a chosen task for every key, a serving one where there
\* is one (the body of the loop in poll_replicas_state).
LEMMA ConsiderServes ==
    ASSUME WalkInv, ServedInv, NEW task \in unseen, Consider(task)
    PROVE  ServedInv'
<1>1. /\ \A t : Countable(t)' = Countable(t)
      /\ \A t : LatestKey(t)' = LatestKey(t)
  BY Zenon, ConsiderFacts, SnapshotFrame
<1>2. \A u : u \in Walked' <=> u \in Walked \/ u = task
  BY Zenon, ConsiderFacts
<1>3. CASE /\ Countable(task)
           /\ \A t \in latest : LatestKey(t) = LatestKey(task) => preferred_task(task, t)
           /\ latest' = {t \in latest : LatestKey(t) # LatestKey(task)} \cup {task}
  <2>1. \A t \in latest' : t \in Walked' /\ Countable(t)
    BY Zenon, <1>2, <1>3 DEF ServedInv
  <2>2. \A t, u \in latest' : LatestKey(t) = LatestKey(u) => t = u
    BY Zenon, <1>3 DEF ServedInv
  <2>3. ASSUME NEW u, u \in Walked', Countable(u)
        PROVE  \E t \in latest' : LatestKey(t) = LatestKey(u) /\ (Running(u) => Running(t))
    <3>1. CASE u = task
      BY Zenon, <1>3, <3>1
    <3>2. CASE u \in Walked
      <4>1. PICK t \in latest : LatestKey(t) = LatestKey(u) /\ (Running(u) => Running(t))
        BY Zenon, <2>3, <3>2 DEF ServedInv
      <4>2. CASE LatestKey(t) # LatestKey(task)
        BY Zenon, <1>3, <4>1, <4>2
      <4>3. CASE LatestKey(t) = LatestKey(task)
        <5>1. Countable(t) /\ preferred_task(task, t)
          BY Zenon, <1>3, <4>3 DEF ServedInv
        <5>2. Running(t) => Running(task)
          BY Zenon, <5>1, RunningIsWanted, ServingIsKept
        <5>3. task \in latest'
          BY Zenon, <1>3
        <5> QED
          BY Zenon, <4>1, <4>3, <5>2, <5>3
      <4> QED
        BY Zenon, <4>2, <4>3
    <3> QED
      BY Zenon, <1>2, <2>3, <3>1, <3>2
  <2> QED
    BY Zenon, <1>1, <2>1, <2>2, <2>3 DEF ServedInv
<1>4. CASE /\ Countable(task) =>
                \E t \in latest : LatestKey(t) = LatestKey(task) /\ ~preferred_task(task, t)
           /\ latest' = latest
  <2>1. ASSUME NEW u, u \in Walked', Countable(u)
        PROVE  \E t \in latest' : LatestKey(t) = LatestKey(u) /\ (Running(u) => Running(t))
    <3>1. CASE u = task
      BY Zenon, <1>4, <2>1, <3>1, RunningIsWanted, ServingIsKept
    <3>2. CASE u \in Walked
      BY Zenon, <1>4, <2>1, <3>2 DEF ServedInv
    <3> QED
      BY Zenon, <1>2, <2>1, <3>1, <3>2
  <2> QED
    BY Zenon, <1>1, <1>2, <1>4, <2>1 DEF ServedInv
<1> QED
  BY Zenon, <1>3, <1>4, ConsiderFacts

\* One turn of the walk keeps the preferred task of every key, when no two tasks were
\* created at the same time.
LEMMA ConsiderPrefers ==
    ASSUME WalkInv, ServedInv, OrderDoesNotMatterIfCreatedApart,
           NEW task \in unseen, Consider(task)
    PROVE  OrderDoesNotMatterIfCreatedApart'
<1>1. /\ \A t : Countable(t)' = Countable(t)
      /\ \A t : LatestKey(t)' = LatestKey(t)
      /\ tasks' = tasks
  BY Zenon, ConsiderFacts, SnapshotFrame
<1>2. \A u : u \in Walked' <=> u \in Walked \/ u = task
  BY Zenon, ConsiderFacts
<1> SUFFICES ASSUME \A t, u \in tasks : t.created_at = u.created_at => t = u,
                    NEW t, t \in latest', NEW u, u \in Walked',
                    Countable(u), LatestKey(t) = LatestKey(u), t # u
             PROVE  preferred_task(t, u)
  BY Zenon, <1>1 DEF OrderDoesNotMatterIfCreatedApart
<1>3. \A v \in tasks : v.created_at \in Nat
  BY Zenon, SnapshotAssumption DEF WalkInv
<1>4. \A v \in Walked : v \in tasks /\ v # task
  BY Zenon DEF Walked
<1>5. task \in tasks
  BY Zenon DEF WalkInv
<1>6. \A v \in latest, w \in Walked :
        Countable(w) /\ LatestKey(v) = LatestKey(w) => v = w \/ preferred_task(v, w)
  BY Zenon DEF OrderDoesNotMatterIfCreatedApart
<1>7. \A v \in latest : v \in Walked /\ Countable(v)
  BY Zenon DEF ServedInv
<1>8. CASE /\ Countable(task)
           /\ \A v \in latest : LatestKey(v) = LatestKey(task) => preferred_task(task, v)
           /\ latest' = {v \in latest : LatestKey(v) # LatestKey(task)} \cup {task}
  <2>1. CASE t = task
    <3>1. u \in Walked
      BY Zenon, <1>2, <2>1
    <3>2. PICK v \in latest : LatestKey(v) = LatestKey(u)
      BY Zenon, <3>1 DEF ServedInv
    <3>3. preferred_task(task, v)
      BY Zenon, <1>8, <2>1, <3>2
    <3>4. CASE v = u
      BY Zenon, <2>1, <3>3, <3>4
    <3>5. CASE v # u
      <4>1. preferred_task(v, u)
        BY Zenon, <1>6, <3>1, <3>2, <3>5
      <4>2. /\ task \in tasks /\ v \in tasks /\ u \in tasks
            /\ task # v /\ task # u
        BY Zenon, <1>4, <1>5, <1>7, <3>1
      <4>3. /\ task.created_at \in Nat /\ v.created_at \in Nat /\ u.created_at \in Nat
            /\ task.created_at # v.created_at /\ v.created_at # u.created_at
            /\ task.created_at # u.created_at
        BY Zenon, <1>3, <3>5, <4>2
      <4> QED
        BY Zenon, <2>1, <3>3, <4>1, <4>3, PreferredIsTransitive
    <3> QED
      BY Zenon, <3>4, <3>5
  <2>2. CASE t # task
    BY Zenon, <1>2, <1>6, <1>8, <2>2
  <2> QED
    BY Zenon, <2>1, <2>2
<1>9. CASE /\ Countable(task) =>
                \E v \in latest : LatestKey(v) = LatestKey(task) /\ ~preferred_task(task, v)
           /\ latest' = latest
  <2>1. CASE u = task
    <3>1. ~preferred_task(task, t)
      BY Zenon, <1>9, <2>1 DEF ServedInv
    <3>2. t \in tasks /\ t # task
      BY Zenon, <1>4, <1>7, <1>9
    <3>3. /\ task.created_at \in Nat /\ t.created_at \in Nat
          /\ task.created_at # t.created_at
      BY Zenon, <1>3, <1>5, <3>2
    <3> QED
      BY Zenon, <2>1, <3>1, <3>3, PreferredDecides
  <2>2. CASE u # task
    BY Zenon, <1>2, <1>6, <1>9, <2>2
  <2> QED
    BY Zenon, <2>1, <2>2
<1> QED
  BY Zenon, <1>8, <1>9, ConsiderFacts

\* The inductive invariant of the poll.
TaskInv == WalkInv /\ ServedInv /\ OrderDoesNotMatterIfCreatedApart /\ CountersInv

\* Nothing is chosen before a task is walked.
LEMMA EmptyWalk ==
    ASSUME latest = {}, Walked = {}
    PROVE  ServedInv /\ OrderDoesNotMatterIfCreatedApart
  BY Zenon DEF ServedInv, OrderDoesNotMatterIfCreatedApart

\* A step that leaves the lists and the choice alone keeps what they promise.
LEMMA ChoiceFrame ==
    ASSUME TaskInv, UNCHANGED <<services, snapshot_nodes, tasks, unseen, latest>>
    PROVE  /\ ServedInv' /\ OrderDoesNotMatterIfCreatedApart'
           /\ (pc' # "start") => WalkInv'
           /\ \A id : Counter(id)' = Counter(id)
<1>1. /\ \A t : Countable(t)' = Countable(t)
      /\ \A t : LatestKey(t)' = LatestKey(t)
  BY Zenon, SnapshotFrame
<1>2. Walked' = Walked /\ latest' = latest /\ tasks' = tasks
  BY Zenon DEF Walked
<1>3. ServedInv'
  BY Zenon, <1>1, <1>2 DEF TaskInv, ServedInv
<1>4. OrderDoesNotMatterIfCreatedApart'
  BY Zenon, <1>1, <1>2 DEF TaskInv, OrderDoesNotMatterIfCreatedApart
<1>5. (pc' # "start") => WalkInv'
  BY Zenon DEF TaskInv, WalkInv
<1>6. \A id : Counter(id)' = Counter(id)
  BY Zenon DEF Counter, Chosen, Wanted, WantedComplete, eligible_nodes_covered
<1> QED
  BY Zenon, <1>3, <1>4, <1>5, <1>6

\* The invariant holds at every point of every poll.
LEMMA TaskInvHolds == TSpec => []TaskInv
<1>1. TInit => TaskInv
  <2> SUFFICES ASSUME TInit PROVE TaskInv
    OBVIOUS
  <2>1. WalkInv /\ Walked = {} /\ latest = {}
    BY Zenon DEF TInit, WalkInv, Walked
  <2>2. DOMAIN counters = {}
    BY DEF TInit
  <2>3. CountersInv
    <3>1. pc = "start" /\ counters = <<>> /\ at_desired = {}
      BY Zenon DEF TInit
    <3> QED
      BY Zenon, <2>2, <3>1 DEF CountersInv
  <2> QED
    BY Zenon, <2>1, <2>3, EmptyWalk DEF TaskInv
<1>2. TaskInv /\ [TNext]_tvars => TaskInv'
  <2> SUFFICES ASSUME TaskInv, [TNext]_tvars PROVE TaskInv'
    OBVIOUS
  <2>0. DOMAIN <<>> = {}
    OBVIOUS
  <2>1. ASSUME NEW task \in unseen, Consider(task) PROVE TaskInv'
    <3>1. ServedInv' /\ OrderDoesNotMatterIfCreatedApart'
      BY Zenon, <2>1, ConsiderServes, ConsiderPrefers DEF TaskInv
    <3>2. pc = "walk" /\ pc' = "walk" /\ UNCHANGED <<services, snapshot_nodes, tasks, counters, at_desired>>
          /\ unseen' = unseen \ {task}
      BY Zenon, <2>1 DEF Consider
    <3>3. WalkInv'
      BY Zenon, <3>2 DEF TaskInv, WalkInv
    <3>4. counters = <<>> /\ at_desired = {}
      BY Zenon, <3>2 DEF TaskInv, CountersInv
    <3>5. CountersInv'
      BY Zenon, <2>0, <3>2, <3>4 DEF CountersInv
    <3> QED
      BY Zenon, <3>1, <3>3, <3>5 DEF TaskInv
  <2>2. CASE ListTasks
    <3>1. /\ pc = "start" /\ pc' = "walk" /\ latest' = {} /\ tasks' = unseen'
          /\ counters' = counters /\ at_desired' = at_desired
          /\ services' = services /\ snapshot_nodes' = snapshot_nodes
          /\ tasks' \in TaskLists(services)
      BY Zenon, <2>2 DEF ListTasks, TaskInv, WalkInv
    <3>2. counters = <<>> /\ at_desired = {}
      BY Zenon, <3>1 DEF TaskInv, CountersInv
    <3>3. WalkInv'
      BY Zenon, <3>1 DEF TaskInv, WalkInv
    <3>4. ServedInv' /\ OrderDoesNotMatterIfCreatedApart'
      BY Zenon, <3>1 DEF ServedInv, OrderDoesNotMatterIfCreatedApart, Walked
    <3>5. CountersInv'
      BY Zenon, <2>0, <3>1, <3>2 DEF CountersInv
    <3> QED
      BY Zenon, <3>3, <3>4, <3>5 DEF TaskInv
  <2>3. CASE FailList
    <3>1. /\ pc = "start" /\ pc' = "failed" /\ counters' = counters /\ at_desired' = at_desired
          /\ UNCHANGED <<services, snapshot_nodes, tasks, unseen, latest>>
      BY Zenon, <2>3 DEF FailList
    <3>2. counters = <<>> /\ at_desired = {}
      BY Zenon, <3>1 DEF TaskInv, CountersInv
    <3>3. CountersInv'
      BY Zenon, <2>0, <3>1, <3>2 DEF CountersInv
    <3> QED
      BY Zenon, <3>1, <3>3, ChoiceFrame DEF TaskInv
  <2>4. CASE SkipList
    <3>1. /\ pc = "start" /\ pc' = "counted" /\ counters' = counters /\ at_desired' = at_desired
          /\ UNCHANGED <<services, snapshot_nodes, tasks, unseen, latest>>
          /\ DOMAIN services = {}
      BY Zenon, <2>4 DEF SkipList
    <3>2. counters = <<>> /\ at_desired = {}
      BY Zenon, <3>1 DEF TaskInv, CountersInv
    <3>3. CountersInv'
      BY Zenon, <2>0, <3>1, <3>2 DEF CountersInv
    <3> QED
      BY Zenon, <3>1, <3>3, ChoiceFrame DEF TaskInv
  <2>5. CASE CountTasks
    <3>1. /\ pc = "walk" /\ pc' = "counted" /\ unseen = {} /\ at_desired' = at_desired
          /\ UNCHANGED <<services, snapshot_nodes, tasks, unseen, latest>>
          /\ counters' = [id \in DOMAIN services |-> Counter(id)]
      BY Zenon, <2>5 DEF CountTasks
    <3>2. at_desired = {}
      BY Zenon, <3>1 DEF TaskInv, CountersInv
    <3>3. CountersInv'
      BY Zenon, <3>1, <3>2, ChoiceFrame DEF CountersInv
    <3> QED
      BY Zenon, <3>1, <3>3, ChoiceFrame DEF TaskInv
  <2>6. CASE Publish
    <3>1. /\ pc = "counted" /\ pc' = "published" /\ counters' = counters
          /\ UNCHANGED <<services, snapshot_nodes, tasks, unseen, latest>>
          /\ at_desired' = {id \in DOMAIN services : Reached(id)}
      BY Zenon, <2>6 DEF Publish
    <3>2. DOMAIN counters = DOMAIN services
      BY Zenon, <3>1 DEF TaskInv, CountersInv
    <3>3. \A id : Reached(id)' = Reached(id)
      BY Zenon, <3>1 DEF Reached
    <3>4. CountersInv'
      BY Zenon, <3>1, <3>2, <3>3, ChoiceFrame DEF CountersInv, TaskInv
    <3> QED
      BY Zenon, <3>1, <3>4, ChoiceFrame DEF TaskInv
  <2>7. CASE NextPoll
    <3>1. /\ pc' = "start" /\ tasks' = {} /\ unseen' = {} /\ latest' = {}
          /\ counters' = <<>> /\ at_desired' = {}
      BY Zenon, <2>7 DEF NextPoll
    <3>2. WalkInv'
      BY Zenon, <2>7 DEF NextPoll, WalkInv
    <3>3. ServedInv' /\ OrderDoesNotMatterIfCreatedApart'
      BY Zenon, <3>1 DEF ServedInv, OrderDoesNotMatterIfCreatedApart, Walked
    <3>4. CountersInv'
      BY Zenon, <2>0, <3>1 DEF CountersInv
    <3> QED
      BY Zenon, <3>2, <3>3, <3>4 DEF TaskInv
  <2>8. CASE UNCHANGED tvars
    <3>1. /\ pc' = pc /\ counters' = counters /\ at_desired' = at_desired
          /\ UNCHANGED <<services, snapshot_nodes, tasks, unseen, latest>>
      BY Zenon, <2>8 DEF tvars
    <3>2. \A id : Reached(id)' = Reached(id)
      BY Zenon, <3>1 DEF Reached
    <3>3. CountersInv'
      BY Zenon, <3>1, <3>2, ChoiceFrame DEF CountersInv, TaskInv
    <3>4. WalkInv'
      BY Zenon, <3>1 DEF WalkInv, TaskInv
    <3> QED
      BY Zenon, <3>1, <3>3, <3>4, ChoiceFrame DEF TaskInv
  <2> QED
    BY Zenon, <2>1, <2>2, <2>3, <2>4, <2>5, <2>6, <2>7, <2>8 DEF TNext
<1> QED
  BY <1>1, <1>2, PTL DEF TSpec

\* A key begins with the service it is a slot or a node of.
LEMMA KeyNamesService ==
    ASSUME NEW t, NEW u, LatestKey(t) = LatestKey(u)
    PROVE  t.service = u.service
  BY DEF LatestKey

\* The chosen tasks are finitely many.
LEMMA ChosenFinite ==
    ASSUME TaskInv, NEW id
    PROVE  IsFiniteSet(Wanted(id)) /\ IsFiniteSet(WantedComplete(id))
<1>1. IsFiniteSet(tasks) /\ latest \subseteq tasks
  BY Zenon, SnapshotAssumption, FS_EmptySet DEF TaskInv, WalkInv, ServedInv, Walked
<1>2. Wanted(id) \in SUBSET tasks /\ WantedComplete(id) \in SUBSET tasks
  BY Zenon, <1>1 DEF WantedComplete, Wanted, Chosen
<1> QED
  BY Zenon, <1>1, <1>2, FS_Subset

\* When the completed tasks Swarm wants are on every eligible node, there are at least
\* as many of them: one for each node, and no two nodes share one.
LEMMA CoveredIsEnough ==
    ASSUME TaskInv, NEW id, eligible_nodes_covered(id)
    PROVE  Cardinality(Eligible(snapshot_nodes, services[id]))
             <= Cardinality(WantedComplete(id))
<1> DEFINE E == Eligible(snapshot_nodes, services[id])
           C == WantedComplete(id)
           f == [n \in E |-> CHOOSE t \in C : t.node = n.id]
<1>1. \A n \in E : f[n] \in C /\ f[n].node = n.id
  BY Zenon DEF eligible_nodes_covered
<1>2. \A m, n \in E : m.id = n.id => m = n
  BY Zenon, SnapshotAssumption DEF TaskInv, WalkInv, Eligible
<1>3. f \in [E -> C]
  BY Zenon, <1>1
<1>4. \A m, n \in E : f[m] = f[n] => m = n
  BY Zenon, <1>1, <1>2
<1> HIDE DEF E, C, f
<1>5. f \in Injection(E, C)
  BY Zenon, <1>3, <1>4 DEF Injection, IsInjective
<1>6. IsFiniteSet(C)
  BY Zenon, ChosenFinite DEF C
<1> QED
  BY Zenon, <1>5, <1>6, FS_Injection DEF E, C

\* A job that Reached judges finished has no wanted running task anywhere in the list.
LEMMA ReachedIsDone ==
    ASSUME TaskInv, NEW id \in DOMAIN counters, Reached(id),
           is_job_mode(services[id].service_mode),
           NEW t \in tasks, t.service = id, Countable(t)
    PROVE  ~Running(t)
<1> SUFFICES ASSUME Running(t) PROVE FALSE
  BY Zenon
<1>1. counters[id] = Counter(id) /\ unseen = {}
  BY Zenon DEF TaskInv, CountersInv
<1>2. counters[id].wanted_complete = counters[id].wanted
  BY Zenon DEF Reached, job_at_desired
<1>3. Cardinality(WantedComplete(id)) = Cardinality(Wanted(id))
  <2>1. /\ Counter(id).wanted_complete = Cardinality(WantedComplete(id))
        /\ Counter(id).wanted = Cardinality(Wanted(id))
    BY Zenon DEF Counter
  <2> QED
    BY Zenon, <1>1, <1>2, <2>1
<1>4. WantedComplete(id) = Wanted(id)
  <2>1. WantedComplete(id) \in SUBSET Wanted(id)
    BY Zenon DEF WantedComplete
  <2> QED
    BY Zenon, <1>3, <2>1, ChosenFinite, FS_Subset
<1>5. t \in Walked
  BY Zenon, <1>1 DEF Walked
<1>6. PICK u \in latest : LatestKey(u) = LatestKey(t) /\ Running(u)
  BY Zenon, <1>5 DEF TaskInv, ServedInv
<1>7. u.service = id /\ Countable(u)
  BY Zenon, <1>6, KeyNamesService DEF TaskInv, ServedInv
<1>8. u \in Wanted(id)
  BY Zenon, <1>6, <1>7, RunningIsWanted DEF Wanted, Chosen
<1>9. u.state = "complete"
  BY Zenon, <1>4, <1>8 DEF WantedComplete
<1>10. "complete" # "running"
  OBVIOUS
<1> QED
  BY Zenon, <1>6, <1>9, <1>10 DEF Running

\* One task is chosen per slot or node, a wanted, running one exactly where there is
\* one, at every point of the walk over Docker's list (poll_replicas_state).
THEOREM ServedCorrect == TSpec => []RunningIsServed
<1>1. TaskInv => RunningIsServed
  BY Zenon, ServedImplies DEF TaskInv
<1> QED
  BY <1>1, TaskInvHolds, PTL

\* The choice does not depend on the order of Docker's list, when no two tasks were
\* created at the same time (preferred_task, newer_than).
THEOREM OrderCorrect == TSpec => []OrderDoesNotMatterIfCreatedApart
<1>1. TaskInv => OrderDoesNotMatterIfCreatedApart
  BY Zenon DEF TaskInv
<1> QED
  BY <1>1, TaskInvHolds, PTL

\* A job reported as finished is done, and a global job that covers its eligible nodes
\* completed at least the desired count (job_at_desired, eligible_nodes_covered).
THEOREM FinishedCorrect == TSpec => []FinishedJobIsDone
<1>1. TaskInv => FinishedJobIsDone
  <2> SUFFICES ASSUME TaskInv PROVE FinishedJobIsDone
    OBVIOUS
  <2>1. ASSUME NEW id \in at_desired, is_job_mode(services[id].service_mode)
        PROVE  ~\E t \in tasks : t.service = id /\ Countable(t) /\ Running(t)
    <3>1. id \in DOMAIN counters /\ Reached(id)
      BY Zenon DEF TaskInv, CountersInv
    <3> QED
      BY Zenon, <2>1, <3>1, ReachedIsDone
  <2>2. ASSUME NEW id \in DOMAIN counters, counters[id].eligible_nodes_covered
        PROVE  /\ counters[id].wanted_complete >= counters[id].desired
               /\ \A n \in Eligible(snapshot_nodes, services[id]) :
                    \E t \in tasks : t.service = id /\ t.node = n.id /\ t.state = "complete"
    <3>1. counters[id] = Counter(id)
      BY Zenon DEF TaskInv, CountersInv
    <3>2. /\ Counter(id).wanted_complete = Cardinality(WantedComplete(id))
          /\ Counter(id).desired = services[id].desired_replicas
          /\ Counter(id).eligible_nodes_covered <=>
               /\ services[id].service_mode = "global-job"
               /\ Chosen(id) # {} /\ eligible_nodes_covered(id)
      BY Zenon DEF Counter
    <3>3. services[id].service_mode = "global-job" /\ eligible_nodes_covered(id)
      BY Zenon, <2>2, <3>1, <3>2
    <3>4. services[id].desired_replicas = Cardinality(Eligible(snapshot_nodes, services[id]))
      <4>1. id \in DOMAIN services
        BY Zenon DEF TaskInv, CountersInv
      <4>2. services[id].desired_replicas = replica_counts(services[id], snapshot_nodes)[1]
        BY Zenon, <4>1, SnapshotAssumption DEF TaskInv, WalkInv
      <4>3. replica_counts(services[id], snapshot_nodes)[1]
              = Cardinality(Eligible(snapshot_nodes, services[id]))
        BY <3>3 DEF replica_counts
      <4> QED
        BY Zenon, <4>2, <4>3
    <3>5. Cardinality(Eligible(snapshot_nodes, services[id]))
            <= Cardinality(WantedComplete(id))
      BY Zenon, <3>3, CoveredIsEnough
    <3>6. IsFiniteSet(WantedComplete(id))
      BY Zenon, ChosenFinite
    <3>7. \A x, y : x <= y => y >= x
      OBVIOUS
    <3>8. counters[id].wanted_complete >= counters[id].desired
      BY Zenon, <3>1, <3>2, <3>4, <3>5, <3>7
    <3>9. WantedComplete(id) \subseteq {t \in tasks : t.service = id /\ t.state = "complete"}
      BY Zenon DEF WantedComplete, Wanted, Chosen, TaskInv, ServedInv, Walked
    <3> QED
      BY Zenon, <3>3, <3>8, <3>9 DEF eligible_nodes_covered
  <2> QED
    BY Zenon, <2>1, <2>2 DEF FinishedJobIsDone
<1> QED
  BY <1>1, TaskInvHolds, PTL

-----------------------------------------------------------------------------
(* The container poll *)

\* Where a poll is decides how long it has taken: the list ends within its timeout,
\* and the deadline of the inspects is set when it has.
ContainerClock ==
    /\ phase \in {"idle", "list", "enrich", "inspect", "stopped"}
    /\ elapsed \in Nat /\ deadline \in Nat /\ inspected \in Nat
    /\ calls = inspected /\ inspected <= inspect_cap
    /\ phase \in {"idle", "stopped"} => elapsed = 0
    /\ phase = "list" => elapsed <= ListTimeout
    /\ phase \in {"enrich", "inspect"} =>
         elapsed <= deadline /\ deadline <= ListTimeout + EnrichTimeout

\* The code a container reports is one it exited with, or 0.
WorldInv ==
    /\ world \in [Container -> Known \cup {Absent}]
    /\ exits \in [Container -> SUBSET ExitCode]
    /\ \A c \in Container :
         /\ world[c].code \in exits[c] \cup {0}
         /\ world[c].state # "exited" => world[c].code = 0

Row == [listed : BaseStates, state : KNOWN_CONTAINER_STATES \cup {UnsetState},
        exit_code : SUBSET ExitCode]

\* A row has its state once enrich is done with it, and no exit code before; the code
\* it has then comes with the state exited and from an exit.
RowInv(c) ==
    /\ rows[c] \in Row
    /\ c \in ahead \cup current => rows[c].exit_code = NoCode
    /\ c \notin ahead \cup current => rows[c].state \in KNOWN_CONTAINER_STATES
    /\ rows[c].exit_code # NoCode => rows[c].state = "exited"
    /\ rows[c].exit_code \subseteq exits[c] \cup {0}

RowsInv ==
    /\ rows = [c \in DOMAIN rows |-> rows[c]]
    /\ DOMAIN rows \subseteq Container
    /\ ahead \subseteq DOMAIN rows /\ current \subseteq DOMAIN rows
    /\ ahead \cap current = {} /\ (phase # "inspect" => current = {})
    /\ \A c \in DOMAIN rows : RowInv(c)

PublishedInv ==
    /\ ContainerSeriesAreSound
    /\ \A s \in published : s.container \in Container

ContainerInv == ContainerClock /\ WorldInv /\ RowsInv /\ PublishedInv

-----------------------------------------------------------------------------
(* The clock and the cap *)

\* No step of a poll, of its timers or of the daemon breaks the cap or a timeout.
LEMMA ContainerClockStep ==
    ASSUME ContainerClock, [CNext]_cvars
    PROVE  ContainerClock'
<1> USE ContainersAssumption
<1>1. CASE StartPoll
  BY <1>1 DEF StartPoll, ContainerClock
<1>2. ASSUME NEW next \in {"idle", "stopped"}, Ends(next)
      PROVE  ContainerClock'
  BY <1>2 DEF Ends, ContainerClock
<1>3. CASE ListContainers
  BY <1>3 DEF ListContainers, ContainerClock
<1>4. ASSUME NEW c \in ahead, SkipInspect(c)
      PROVE  ContainerClock'
  BY <1>4 DEF SkipInspect, ContainerClock
<1>5. ASSUME NEW c \in ahead, Inspect(c)
      PROVE  ContainerClock'
  BY <1>5 DEF Inspect, can_inspect, ContainerClock
<1>6. ASSUME NEW row, Inspected(row)
      PROVE  ContainerClock'
  BY <1>6 DEF Inspected, ContainerClock
<1>7. CASE Tick
  BY <1>7 DEF Tick, poll, ContainerClock
<1>8. CASE UNCHANGED <<poll, elapsed>>
  BY <1>8 DEF poll, ContainerClock
<1>9. ASSUME NEW c \in Container,
             StartContainer(c) \/ CheckHealth(c) \/ Pause(c) \/ ExitContainer(c)
               \/ RemoveContainer(c)
      PROVE  UNCHANGED <<poll, elapsed>>
  BY Zenon, <1>9 DEF StartContainer, CheckHealth, Pause, ExitContainer, RemoveContainer, Become
<1>10. FailContainerList \/ Update \/ CancelPoll => Ends("idle") \/ Ends("stopped")
  BY Zenon DEF FailContainerList, Update, CancelPoll
<1>11. CASE FailInspect \/ AnswerInspect
  BY Zenon, <1>6, <1>11 DEF FailInspect, AnswerInspect
<1>12. CASE Enrich
  BY Zenon, <1>4, <1>5, <1>12 DEF Enrich
<1>13. UNCHANGED cvars => UNCHANGED <<poll, elapsed>>
  BY Zenon DEF cvars
<1> QED
  BY Zenon, <1>1, <1>2, <1>3, <1>7, <1>8, <1>9, <1>10, <1>11, <1>12, <1>13 DEF CNext

-----------------------------------------------------------------------------
(* The daemon *)

\* A change of a container adds to the codes it exited with and takes none away.
ExitsGrow ==
    /\ exits' \in [Container -> SUBSET ExitCode]
    /\ \A c \in Container : exits[c] \subseteq exits'[c]

\* Become keeps what a container reports within what it exited with.
LEMMA BecomeStep ==
    ASSUME WorldInv, NEW c \in Container, NEW next \in Known \cup {Absent},
           next.state # "exited" => next.code = 0, Become(c, next)
    PROVE  WorldInv' /\ ExitsGrow
<1>1. /\ world' = [world EXCEPT ![c] = next]
      /\ exits' = IF next.state = "exited" THEN [exits EXCEPT ![c] = @ \cup {next.code}]
                  ELSE exits
  BY Zenon DEF Become
<1>2. next.state = "exited" => next.code \in ExitCode
  BY DEF Known, Absent
<1>3. world' \in [Container -> Known \cup {Absent}] /\ exits' \in [Container -> SUBSET ExitCode]
  BY <1>1, <1>2 DEF WorldInv
<1>4. \A d \in Container : exits[d] \subseteq exits'[d]
  BY <1>1 DEF WorldInv
<1>5. ASSUME NEW d \in Container
      PROVE  /\ world'[d].code \in exits'[d] \cup {0}
             /\ world'[d].state # "exited" => world'[d].code = 0
  <2>1. CASE d = c
    <3>1. world'[d] = next
      BY <1>1, <2>1 DEF WorldInv
    <3>2. next.state = "exited" => next.code \in exits'[d]
      BY <1>1, <2>1 DEF WorldInv
    <3> QED BY Zenon, <3>1, <3>2
  <2>2. CASE d # c
    <3>1. world'[d] = world[d]
      BY <1>1, <2>2 DEF WorldInv
    <3> QED BY Zenon, <1>4, <3>1 DEF WorldInv
  <2> QED BY Zenon, <2>1, <2>2
<1> QED
  BY Zenon, <1>3, <1>4, <1>5 DEF WorldInv, ExitsGrow

\* So does every step: a start, a health check, a pause, an exit and a removal become
\* what the daemon may report, and a poll only reads.
LEMMA WorldStep ==
    ASSUME WorldInv, [CNext]_cvars
    PROVE  WorldInv' /\ ExitsGrow
<1> USE ContainersAssumption
<1> DEFINE Daemon(c) == StartContainer(c) \/ CheckHealth(c) \/ Pause(c) \/ ExitContainer(c)
                          \/ RemoveContainer(c)
<1>1. ASSUME NEW c \in Container, Daemon(c)
      PROVE  WorldInv' /\ ExitsGrow
  <2>1. /\ world[c] \in Known \cup {Absent}
        /\ world[c].state # "exited" => world[c].code = 0
    BY Zenon DEF WorldInv
  <2>2. CASE StartContainer(c)
    <3>1. PICK health \in {"none", "starting"} :
            Become(c, [state |-> "running", code |-> 0, health |-> health])
      BY Zenon, <2>2 DEF StartContainer
    <3>2. [state |-> "running", code |-> 0, health |-> health] \in Known
      BY DEF Known, BaseStates, Overlay
    <3> QED BY <3>1, <3>2, BecomeStep
  <2>3. CASE CheckHealth(c)
    <3>1. PICK health \in DOMAIN Overlay : Become(c, [world[c] EXCEPT !.health = health])
      BY Zenon, <2>3 DEF CheckHealth
    <3>2. world[c] \in Known /\ world[c].code = 0
      BY <2>1, <2>3 DEF CheckHealth, Absent
    <3>3. /\ [world[c] EXCEPT !.health = health] \in Known
          /\ [world[c] EXCEPT !.health = health].code = 0
      BY <3>2 DEF Known
    <3> QED BY Zenon, <3>1, <3>3, BecomeStep
  <2>4. CASE Pause(c)
    <3>1. PICK next : /\ next = [world[c] EXCEPT !.state = IF @ = "running" THEN "paused"
                                                         ELSE "running"]
                      /\ Become(c, next)
      BY Zenon, <2>4 DEF Pause
    <3>2. world[c] \in Known /\ world[c].code = 0
      BY <2>1, <2>4 DEF Pause, Absent
    <3>3. next \in Known /\ next.code = 0
      BY <3>1, <3>2 DEF Known, BaseStates
    <3> QED BY Zenon, <3>1, <3>3, BecomeStep
  <2>5. CASE ExitContainer(c)
    <3>1. PICK code \in ExitCode :
            Become(c, [world[c] EXCEPT !.state = "exited", !.code = code])
      BY Zenon, <2>5 DEF ExitContainer
    <3>2. world[c] \in Known
      BY <2>1, <2>5 DEF ExitContainer, Absent
    <3>3. PICK next : next = [world[c] EXCEPT !.state = "exited", !.code = code]
      BY Zenon
    <3>4. next \in Known /\ next.state = "exited"
      BY <3>2, <3>3 DEF Known, BaseStates
    <3> QED BY Zenon, <3>1, <3>3, <3>4, BecomeStep
  <2>6. CASE RemoveContainer(c)
    <3>1. Become(c, Absent) /\ Absent.code = 0
      BY Zenon, <2>6 DEF RemoveContainer, Absent
    <3> QED BY Zenon, <3>1, BecomeStep
  <2> QED BY Zenon, <1>1, <2>2, <2>3, <2>4, <2>5, <2>6
<1>2. CASE UNCHANGED <<world, exits>>
  BY Zenon, <1>2 DEF WorldInv, ExitsGrow
<1>3. \/ UNCHANGED <<world, exits>>
      \/ \E c \in Container : Daemon(c)
  BY Zenon DEF CNext, cvars, daemon, StartPoll, FailContainerList, ListContainers, Enrich, SkipInspect, Inspect,
     FailInspect, AnswerInspect, Inspected, Update, CancelPoll, Ends, Tick
<1> QED
  BY Zenon, <1>1, <1>2, <1>3

-----------------------------------------------------------------------------
(* The rows *)

\* Codes that were exits stay exits, so an untouched row stays as it is.
LEMMA RowKept ==
    ASSUME NEW c \in Container, ExitsGrow, RowInv(c), rows'[c] = rows[c],
           c \in ahead' \cup current' <=> c \in ahead \cup current
    PROVE  RowInv(c)'
  BY Zenon DEF RowInv, ExitsGrow

\* keep_base_state gives a row the state it was listed with.
LEMMA KeptRow ==
    ASSUME NEW row \in Row
    PROVE  /\ keep_base_state(row) \in Row
           /\ keep_base_state(row).state = row.listed
           /\ keep_base_state(row).state \in KNOWN_CONTAINER_STATES
           /\ keep_base_state(row).exit_code = row.exit_code
  BY DEF keep_base_state, Row, KNOWN_CONTAINER_STATES

\* Whatever an inspect finds, a row gets a known state, and a code only as exited.
LEMMA EnrichedRow ==
    ASSUME NEW row \in Row, row.exit_code = NoCode, NEW found \in Known
    PROVE  /\ Enriched(row, found) \in Row
           /\ Enriched(row, found).state \in KNOWN_CONTAINER_STATES
           /\ Enriched(row, found).exit_code # NoCode => Enriched(row, found).state = "exited"
           /\ Enriched(row, found).exit_code \subseteq {found.code}
<1>1. found.code \in ExitCode /\ found.health \in DOMAIN Overlay \cup {"none"}
  BY DEF Known
<1>2. CASE row.listed = "running"
  <2>1. Enriched(row, found) = apply_health_overlay(row, found)
    BY Zenon, <1>2 DEF Enriched
  <2>2. CASE found.health \in DOMAIN Overlay
    <3>1. Overlay[found.health] \in KNOWN_CONTAINER_STATES
      BY Zenon, <2>2 DEF KNOWN_CONTAINER_STATES
    <3>2. Enriched(row, found) = [row EXCEPT !.state = Overlay[found.health]]
      BY Zenon, <2>1, <2>2 DEF apply_health_overlay
    <3> QED BY <3>1, <3>2 DEF Row, NoCode
  <2>3. CASE found.health \notin DOMAIN Overlay
    <3>1. Enriched(row, found) = keep_base_state(row)
      BY Zenon, <2>1, <2>3 DEF apply_health_overlay
    <3> QED BY Zenon, <3>1, KeptRow DEF NoCode
  <2> QED BY Zenon, <2>2, <2>3
<1>3. CASE row.listed # "running"
  <2>1. PICK base : base = keep_base_state(row)
    BY Zenon
  <2>2. /\ base \in Row /\ base.state = row.listed /\ base.exit_code = NoCode
        /\ base.state \in KNOWN_CONTAINER_STATES
    BY Zenon, <2>1, KeptRow
  <2>3. Enriched(row, found) =
          [base EXCEPT !.exit_code = IF row.listed = "exited" THEN {found.code} ELSE @]
    BY Zenon, <1>3, <2>1 DEF Enriched, apply_exit_code
  <2> QED BY <1>1, <2>2, <2>3 DEF Row, NoCode
<1> QED
  BY Zenon, <1>2, <1>3

\* A list gives one row to each listed container, all of them ahead.
LEMMA ListStep ==
    ASSUME WorldInv, RowsInv, ExitsGrow, phase = "list", ListContainers
    PROVE  RowsInv'
<1>1. /\ rows' = [c \in Listed |-> [listed |-> world[c].state, state |-> UnsetState,
                                    exit_code |-> NoCode]]
      /\ ahead' = Listed /\ current' = current /\ current = {} /\ phase' = "enrich"
  BY Zenon DEF ListContainers, RowsInv
<1>2. ASSUME NEW c \in Listed
      PROVE  RowInv(c)'
  <2>1. world[c] \in Known /\ c \in Container
    BY Zenon DEF Listed, WorldInv
  <2>2. world[c].state \in BaseStates
    BY <2>1 DEF Known
  <2>3. rows'[c] \in Row /\ rows'[c].exit_code = NoCode
    BY <1>1, <2>2 DEF Row, NoCode
  <2> QED BY Zenon, <1>1, <2>3 DEF RowInv, NoCode
<1>3. Listed \subseteq Container
  BY Zenon DEF Listed
<1> QED
  BY Zenon, <1>1, <1>2, <1>3 DEF RowsInv

\* A row that needs no inspect, or comes after the cap or the deadline, is done.
LEMMA SkipStep ==
    ASSUME RowsInv, ExitsGrow, NEW c \in ahead, SkipInspect(c)
    PROVE  RowsInv'
<1>1. /\ rows' = [rows EXCEPT ![c] = keep_base_state(@)] /\ ahead' = ahead \ {c}
      /\ current' = current /\ phase' = phase /\ phase = "enrich"
  BY Zenon DEF SkipInspect
<1>2. c \in DOMAIN rows /\ c \in Container /\ RowInv(c) /\ current = {}
  BY Zenon, <1>1 DEF RowsInv
<1>3. /\ DOMAIN rows' = DOMAIN rows /\ rows'[c] = keep_base_state(rows[c])
      /\ rows' = [d \in DOMAIN rows' |-> rows'[d]]
      /\ \A d \in DOMAIN rows : d # c => rows'[d] = rows[d]
  BY <1>1, <1>2 DEF RowsInv
<1>4. RowInv(c)'
  BY Zenon, <1>1, <1>2, <1>3, KeptRow DEF RowInv, ExitsGrow, NoCode
<1>5. ASSUME NEW d \in DOMAIN rows, d # c
      PROVE  RowInv(d)'
  <2>1. d \in Container /\ RowInv(d)
    BY Zenon DEF RowsInv
  <2>2. d \in ahead' \cup current' <=> d \in ahead \cup current
    BY Zenon, <1>1, <1>5
  <2> QED BY Zenon, <1>3, <1>5, <2>1, <2>2, RowKept
<1> QED
  BY Zenon, <1>1, <1>2, <1>3, <1>4, <1>5 DEF RowsInv

\* The row of an inspect waits for its answer.
LEMMA InspectStep ==
    ASSUME RowsInv, ExitsGrow, NEW c \in ahead, Inspect(c)
    PROVE  RowsInv'
<1>1. /\ rows' = rows /\ ahead' = ahead \ {c} /\ current' = {c} /\ current = {}
      /\ phase' = "inspect"
  BY Zenon DEF Inspect, RowsInv
<1>2. \A d : d \in ahead' \cup current' <=> d \in ahead \cup current
  BY Zenon, <1>1
<1>3. \A d \in DOMAIN rows : RowInv(d)'
  BY Zenon, <1>1, <1>2, RowKept DEF RowsInv
<1> QED
  BY Zenon, <1>1, <1>3 DEF RowsInv

\* The end of an inspect, when the new row is one enrich may leave.
LEMMA InspectedStep ==
    ASSUME RowsInv, ExitsGrow, NEW row, Inspected(row),
           \A c \in current :
             /\ row[c] \in Row /\ row[c].state \in KNOWN_CONTAINER_STATES
             /\ row[c].exit_code # NoCode => row[c].state = "exited"
             /\ row[c].exit_code \subseteq exits[c] \cup {0}
    PROVE  RowsInv'
<1>1. /\ rows' = [c \in DOMAIN rows |-> IF c \in current THEN row[c] ELSE rows[c]]
      /\ current' = {} /\ phase' = "enrich" /\ ahead' = ahead
  BY Zenon DEF Inspected
<1>2. DOMAIN rows' = DOMAIN rows /\ DOMAIN rows \subseteq Container
  BY Zenon, <1>1 DEF RowsInv
<1>3. ASSUME NEW c \in DOMAIN rows, c \in current
      PROVE  RowInv(c)'
  <2>1. rows'[c] = row[c] /\ c \in Container
    BY Zenon, <1>1, <1>2, <1>3
  <2>2. c \in ahead' \cup current' => c \in ahead
    BY Zenon, <1>1
  <2> QED BY Zenon, <1>1, <1>3, <2>1, <2>2 DEF RowInv, ExitsGrow, RowsInv
<1>4. ASSUME NEW c \in DOMAIN rows, c \notin current
      PROVE  RowInv(c)'
  <2>1. rows'[c] = rows[c] /\ c \in Container /\ RowInv(c)
    BY Zenon, <1>1, <1>2, <1>4 DEF RowsInv
  <2>2. c \in ahead' \cup current' <=> c \in ahead \cup current
    BY Zenon, <1>1, <1>4
  <2> QED BY Zenon, <2>1, <2>2, RowKept
<1> QED
  BY Zenon, <1>1, <1>2, <1>3, <1>4 DEF RowsInv

\* Every step keeps the rows: a call that fails leaves the listed state, one that
\* answers is read by the listed state, and a poll that ends has no rows.
LEMMA RowsStep ==
    ASSUME WorldInv, RowsInv, ExitsGrow, [CNext]_cvars
    PROVE  RowsInv'
<1>1. ASSUME NEW next, Ends(next)
      PROVE  RowsInv'
  <2>1. rows' = <<>> /\ ahead' = {} /\ current' = {}
    BY Zenon, <1>1 DEF Ends
  <2>2. rows' = [c \in DOMAIN rows' |-> rows'[c]] /\ DOMAIN rows' = {}
    BY <2>1
  <2> QED BY Zenon, <2>1, <2>2 DEF RowsInv
<1>2. CASE FailInspect
  <2>1. PICK row : /\ row = [c \in DOMAIN rows |-> keep_base_state(rows[c])]
                   /\ Inspected(row)
    BY Zenon, <1>2 DEF FailInspect
  <2>2. ASSUME NEW c \in current
        PROVE  /\ row[c] \in Row /\ row[c].state \in KNOWN_CONTAINER_STATES
               /\ row[c].exit_code # NoCode => row[c].state = "exited"
               /\ row[c].exit_code \subseteq exits[c] \cup {0}
    <3>1. row[c] = keep_base_state(rows[c]) /\ RowInv(c)
      BY Zenon, <2>1 DEF RowsInv
    <3>2. rows[c] \in Row /\ rows[c].exit_code = NoCode
      BY Zenon, <3>1 DEF RowInv
    <3> QED BY Zenon, <3>1, <3>2, KeptRow DEF NoCode
  <2> QED BY Zenon, <2>1, <2>2, InspectedStep
<1>3. CASE AnswerInspect
  <2>1. PICK row : /\ row = [c \in DOMAIN rows |-> Enriched(rows[c], world[c])]
                   /\ Inspected(row)
    BY Zenon, <1>3 DEF AnswerInspect
  <2>2. ASSUME NEW c \in current
        PROVE  /\ row[c] \in Row /\ row[c].state \in KNOWN_CONTAINER_STATES
               /\ row[c].exit_code # NoCode => row[c].state = "exited"
               /\ row[c].exit_code \subseteq exits[c] \cup {0}
    <3>1. row[c] = Enriched(rows[c], world[c]) /\ RowInv(c) /\ c \in Container
      BY Zenon, <2>1 DEF RowsInv
    <3>2. rows[c] \in Row /\ rows[c].exit_code = NoCode
      BY Zenon, <3>1 DEF RowInv
    <3>3. world[c] \in Known /\ world[c].code \in exits[c] \cup {0}
      BY Zenon, <1>3, <3>1 DEF AnswerInspect, WorldInv
    <3> QED BY Zenon, <3>1, <3>2, <3>3, EnrichedRow
  <2> QED BY Zenon, <2>1, <2>2, InspectedStep
<1>4. ASSUME UNCHANGED <<rows, ahead, current>>, phase' = phase \/ phase = "idle"
      PROVE  RowsInv'
  <2>1. \A c \in DOMAIN rows : RowInv(c)'
    BY Zenon, <1>4, RowKept DEF RowsInv
  <2> QED BY Zenon, <1>4, <2>1 DEF RowsInv
<1>5. ASSUME NEW c \in Container,
             StartContainer(c) \/ CheckHealth(c) \/ Pause(c) \/ ExitContainer(c)
               \/ RemoveContainer(c)
      PROVE  UNCHANGED <<phase, rows, ahead, current>>
  BY Zenon, <1>5 DEF StartContainer, CheckHealth, Pause, ExitContainer, RemoveContainer, Become, poll
<1>6. FailContainerList \/ Update \/ CancelPoll => Ends("idle") \/ Ends("stopped")
  BY Zenon DEF FailContainerList, Update, CancelPoll
<1>7. StartPoll => phase = "idle" /\ UNCHANGED <<rows, ahead, current>>
  BY Zenon DEF StartPoll
<1>8. Tick \/ UNCHANGED cvars => UNCHANGED <<phase, rows, ahead, current>>
  BY Zenon DEF Tick, cvars, poll
<1>9. CASE ListContainers
  BY Zenon, <1>9, ListStep DEF ListContainers
<1>10. CASE Enrich
  BY Zenon, <1>10, SkipStep, InspectStep DEF Enrich
<1> QED
  BY Zenon, <1>1, <1>2, <1>3, <1>4, <1>5, <1>6, <1>7, <1>8, <1>9, <1>10 DEF CNext

-----------------------------------------------------------------------------
(* The publication *)

\* There are finitely many known states.
LEMMA KnownStatesFinite == IsFiniteSet(KNOWN_CONTAINER_STATES)
<1>1. KNOWN_CONTAINER_STATES =
        ((((({"running"} \cup {"exited"}) \cup {"paused"}) \cup {"healthy"})
           \cup {"unhealthy"}) \cup {"health_starting"})
  BY DEF KNOWN_CONTAINER_STATES, BaseStates, Overlay
<1>2. \A S, x : IsFiniteSet(S) => IsFiniteSet(S \cup {x})
  BY FS_AddElement
<1>3. IsFiniteSet({"running"})
  BY FS_Singleton
<1> QED
  BY Zenon, <1>1, <1>2, <1>3

SamplesOf(table, c) == {s \in build_containers_state(table) : s.container = c}

\* build_containers_state gives every row each known state once, and the value 1 to
\* the row's own.
LEMMA BuildIsSound ==
    ASSUME NEW table, NEW c \in DOMAIN table, table[c].state \in KNOWN_CONTAINER_STATES
    PROVE  /\ Cardinality({s \in SamplesOf(table, c) : s.value = 1}) = 1
           /\ Cardinality(SamplesOf(table, c)) = Cardinality(KNOWN_CONTAINER_STATES)
<1> DEFINE Sample(d, s) ==
             [container |-> d, state |-> s, exit_code |-> table[d].exit_code,
              value |-> IF table[d].state = s THEN 1 ELSE 0]
           own == SamplesOf(table, c)
           f == [s \in KNOWN_CONTAINER_STATES |-> Sample(c, s)]
<1>1. \A t : t \in build_containers_state(table) <=>
        \E d \in DOMAIN table, s \in KNOWN_CONTAINER_STATES : t = Sample(d, s)
  BY DEF build_containers_state
<1>2. \A d, s : /\ Sample(d, s).container = d /\ Sample(d, s).state = s
                /\ Sample(d, s).value = IF table[d].state = s THEN 1 ELSE 0
  BY Zenon
<1> HIDE DEF Sample
<1>3. own = {Sample(c, s) : s \in KNOWN_CONTAINER_STATES}
  <2>1. \A t : t \in own <=> \E s \in KNOWN_CONTAINER_STATES : t = Sample(c, s)
    BY <1>1, <1>2 DEF SamplesOf
  <2> QED BY Zenon, <2>1
<1>4. Cardinality(own) = Cardinality(KNOWN_CONTAINER_STATES)
  <2>1. f \in [KNOWN_CONTAINER_STATES -> own]
    BY Zenon, <1>3
  <2>2. \A s \in KNOWN_CONTAINER_STATES : f[s].state = s
    BY Zenon, <1>2
  <2>3. \A a, b \in KNOWN_CONTAINER_STATES : f[a] = f[b] => a = b
    BY Zenon, <2>2
  <2>4. \A t \in own : \E s \in KNOWN_CONTAINER_STATES : f[s] = t
    BY Zenon, <1>3
  <2> HIDE DEF f, own
  <2>5. f \in Bijection(KNOWN_CONTAINER_STATES, own)
    BY <2>1, <2>3, <2>4, Fun_IsBij
  <2>6. ExistsBijection(KNOWN_CONTAINER_STATES, own)
    BY Zenon, <2>5 DEF ExistsBijection
  <2> QED BY <2>6, KnownStatesFinite, FS_Bijection
<1>5. {s \in own : s.value = 1} = {Sample(c, table[c].state)}
  <2>1. \A s \in KNOWN_CONTAINER_STATES :
          Sample(c, s).value = 1 <=> s = table[c].state
    BY <1>2
  <2>2. \A t : t \in {s \in own : s.value = 1} <=> t = Sample(c, table[c].state)
    BY <1>3, <2>1
  <2> QED BY Zenon, <2>2
<1>6. Cardinality({s \in own : s.value = 1}) = 1
  BY Zenon, <1>5, FS_Singleton
<1> QED
  BY Zenon, <1>4, <1>6

\* A publication is sound because every row is done when it happens, and stays sound
\* while containers go on exiting.
LEMMA PublishedStep ==
    ASSUME RowsInv, PublishedInv, ExitsGrow, [CNext]_cvars
    PROVE  PublishedInv'
<1>1. CASE UNCHANGED published
  <2>1. \A c : Series(c)' = Series(c)
    BY Zenon, <1>1 DEF Series
  <2>2. \A s \in published : exits[s.container] \subseteq exits'[s.container]
    BY Zenon DEF PublishedInv, ExitsGrow
  <2> QED BY Zenon, <1>1, <2>1, <2>2 DEF PublishedInv, ContainerSeriesAreSound
<1>2. CASE Update
  <2>1. published' = build_containers_state(rows) /\ ahead = {} /\ current = {}
    BY Zenon, <1>2 DEF Update, RowsInv
  <2>2. ASSUME NEW c \in DOMAIN rows
        PROVE  /\ c \in Container /\ rows[c].state \in KNOWN_CONTAINER_STATES
               /\ rows[c].exit_code # NoCode => rows[c].state = "exited"
               /\ rows[c].exit_code \subseteq exits[c] \cup {0}
    BY Zenon, <2>1 DEF RowsInv, RowInv
  <2>3. ASSUME NEW s \in published'
        PROVE  /\ s.container \in DOMAIN rows
               /\ s.exit_code = rows[s.container].exit_code
               /\ s.value = 1 => s.state = rows[s.container].state
    BY <2>1, <2>3 DEF build_containers_state
  <2>4. ASSUME NEW c \in DOMAIN rows
        PROVE  /\ Cardinality({s \in Series(c)' : s.value = 1}) = 1
               /\ Cardinality(Series(c)') = Cardinality(KNOWN_CONTAINER_STATES)
    <3>1. Series(c)' = SamplesOf(rows, c)
      BY Zenon, <2>1 DEF Series, SamplesOf
    <3>2. /\ Cardinality({s \in SamplesOf(rows, c) : s.value = 1}) = 1
          /\ Cardinality(SamplesOf(rows, c)) = Cardinality(KNOWN_CONTAINER_STATES)
      BY <2>2, BuildIsSound
    <3> QED BY <3>1, <3>2
  <2>5. ASSUME NEW s \in published', s.exit_code # NoCode
        PROVE  /\ s.value = 1 => s.state = "exited"
               /\ s.exit_code \subseteq exits'[s.container] \cup {0}
    BY Zenon, <2>2, <2>3, <2>5 DEF ExitsGrow
  <2>6. ContainerSeriesAreSound'
    BY Zenon, <2>3, <2>4, <2>5 DEF ContainerSeriesAreSound
  <2> QED BY Zenon, <2>2, <2>3, <2>6 DEF PublishedInv
<1>3. Update \/ UNCHANGED published
  BY Zenon DEF CNext, cvars, StartPoll, FailContainerList, ListContainers, Enrich, SkipInspect, Inspect,
     FailInspect, AnswerInspect, Inspected, CancelPoll, Tick, StartContainer, CheckHealth, Pause,
     ExitContainer, RemoveContainer, Become
<1> QED
  BY Zenon, <1>1, <1>2, <1>3

-----------------------------------------------------------------------------
(* Theorems *)

\* Before the first poll nothing is published and no row exists.
LEMMA ContainerInvInit == CInit => ContainerInv
<1> SUFFICES ASSUME CInit PROVE ContainerInv
  BY Zenon
<1> USE ContainersAssumption
<1>1. ContainerClock
  BY DEF CInit, ContainerClock
<1>2. WorldInv
  <2>1. world \in [Container -> Known \cup {Absent}]
    BY DEF CInit, Known, BaseStates, Overlay
  <2>2. exits \in [Container -> SUBSET ExitCode]
    BY DEF CInit
  <2>3. \A c \in Container : world[c].code = 0
    BY DEF CInit, Absent
  <2> QED BY Zenon, <2>1, <2>2, <2>3 DEF WorldInv
<1>3. rows = [c \in DOMAIN rows |-> rows[c]] /\ DOMAIN rows = {} /\ ahead = {} /\ current = {}
  BY DEF CInit
<1>4. RowsInv
  BY Zenon, <1>3 DEF RowsInv
<1>5. PublishedInv
  BY Zenon DEF CInit, PublishedInv, ContainerSeriesAreSound
<1> QED
  BY Zenon, <1>1, <1>2, <1>4, <1>5 DEF ContainerInv

\* Every step preserves the invariant.
LEMMA ContainerInvHolds == CSpec => []ContainerInv
<1>1. ContainerInv /\ [CNext]_cvars => ContainerInv'
  BY Zenon, ContainerClockStep, WorldStep, RowsStep, PublishedStep DEF ContainerInv
<1> QED
  BY <1>1, ContainerInvInit, PTL DEF CSpec

\* For every cap and every pair of timeouts: a poll of the containers makes at most
\* inspect_cap inspects and is over within the two timeouts.
THEOREM ContainerPollCorrect == CSpec => []ContainerPollIsBounded
<1>1. ContainerInv => ContainerPollIsBounded
  BY ContainersAssumption DEF ContainerInv, ContainerClock, ContainerPollIsBounded
<1> QED
  BY <1>1, ContainerInvHolds, PTL

\* For every set of containers, whichever inspects fail, are skipped or come late: one
\* state of a published container is 1, every known one is there, and an exit code
\* comes with the state exited and from an exit.
THEOREM ContainerSeriesCorrect == CSpec => []ContainerSeriesAreSound
<1>1. ContainerInv => ContainerSeriesAreSound
  BY Zenon DEF ContainerInv, PublishedInv
<1> QED
  BY <1>1, ContainerInvHolds, PTL

=============================================================================
