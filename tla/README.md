# Verification of swarm-scheduler-exporter

TLA+ models of the exporter, the TLC runs that check them on small instances,
and TLAPS proofs for every value of the constants. All source paths are
relative to the repository's crate (`src/…`).

## The system

The exporter is one process of a few Tokio tasks.

| Part | Source | State | Operations |
|---|---|---|---|
| Shared state | `collector/reconciler/mod.rs` | `State` under a mutex: dirty keys and their order, generations, epoch, resync counters, `nodes_dirty` | mark, take, retry, overflow, request and complete a resync, bump and prune generations |
| Reconciler task | `collector/reconciler/mod.rs` | metadata cache, node cache, per-service series, timers | one cycle: polls, nodes, resync, a batch of keys; then wait |
| Event listener | `collector/reconciler/listener.rs` | stream, resume time, backoff | connect, dispatch, lose, reconnect |
| Poll protocol | `collector/reconciler/poll.rs`, `poll_snapshot.rs`, `run.rs` | request and reply channels, carried results, published set | snapshot, task list, verdict, publication |
| Task counting | `collector/replicas_state.rs` | the task chosen per slot or node, counters | walk the list, count, at_desired |
| Placement | `collector/desired.rs`, `types.rs` | desired and schedulable gauges | constraints, platforms, eligible nodes, counts |
| Health | `collector/health.rs` | poll and resync times | evaluate, answer `/healthz` |
| Lifecycle | `run.rs`, `server.rs` | root token, deadline, workers, connections | start, signal, drain, cut, join, exit |
| Containers | `collector/containers.rs` | rows of a poll, published series | list, inspect, publish |
| Metric families | `metrics.rs`, `collector/service_update.rs`, `collector/nodes.rs` | one lock per family, snapshots that are swapped | set, delete, publish, encode |
| Docker client | `docker/api.rs`, `docker/error.rs` | one connection in a `OnceCell`, a deadline per call | connect and negotiate, call, time out, drop |
| Command line and labels | `cli.rs`, `host_port.rs`, `labels.rs`, `healthcheck.rs` | none | parse, validate, sanitize; probe `/healthz` |

How they interact: the listener marks keys in the shared state and wakes the
reconciler; the reconciler inspects or lists and is the only writer of caches
and series; the poller asks it for a snapshot, lists tasks, and hands the counts
back to be judged against what the caches hold by then; health reads the resync
counters and the poll time; the lifecycle stops them all through one token.

What is hard about it: the mutex is released across every Docker call, so
whatever is read before one may be stale after it; events are lost, repeated
and dropped by overflow; a resync may fail or panic halfway; a poll's counts
and the metadata they are paired with come from different moments; shutdown
races all of it. `PROJECT.json` lists the hazards at their lines.

## Modules

| Module | Models | Used by |
|---|---|---|
| `SharedState` | `State` and its critical sections, one operator each | `Reconciler` |
| `Reconciler` | daemon, listener, reconciler task, timers, series | `PollProtocol` |
| `PollProtocol` | poller and the poll half of the reconciler, composed with `Reconciler` | |
| `Resync` | abstract specification of the resync counters | refined by `Reconciler`, extended by `Health` |
| `Health` | the health evaluation, read by read | |
| `Placement` | the pure placement rules | `ReplicaGauges`, `TaskCounting` |
| `ReplicaGauges` | the two gauges of a service | |
| `TaskCounting` | one poll's walk over the task list | |
| `Lifecycle` | start to exit, and the probe of `--healthcheck` | |
| `CommandLine` | arguments, listen address, environment | `Lifecycle` |
| `Labels` | custom labels and the label sets of every family | `CommandLine` |
| `Containers` | the container poll | |
| `Exposition` | the families written series by series while a scrape reads them | |
| `DockerClient` | the shared connection and the deadlines of calls | `Listener` |
| `Listener` | resume point, backoff, reconnects over the shared client | |
| `MC…` | values of the constants for TLC | the runs |
| `ReconcilerProofs` | one lemma per critical section; types, queue order, resync counters, refinement of `Resync` | `CacheProofs` |
| `CacheProofs` | no change is lost; series and generations mirror the caches | `PollProofs` |
| `PollProofs` | what polls accept, carry over and publish | `QueueProofs` |
| `QueueProofs` | queue and cap, wake-ups, and with the counters the same beside polls | |
| `SeriesProofs` | replica gauges, counts of a poll, container series | |
| `EndpointProofs` | what a health answer means, what a scrape shows | |
| `ListenerProofs` | deadlines of calls, no event missed, the backoff | |
| `LifecycleProofs` | the end in time, the exit code; arguments, probe and labels | |

`Reconciler` and `Listener` model the listener from two sides. In `Reconciler`
a stream is lost and found at any moment, and the question is what the
reconciler makes of it; in `Listener` the question is why a lost stream loses no
change, which is about times, the daemon's history and the connection that other
tasks share. What `Listener` shows (`HeldEventsArrive`, `EveryEventIsCovered`)
is what `Reconciler` takes for granted when it reopens a stream.

State and actions keep the source's names. An action is one stretch of code
between two awaits. A Docker call has a `pc` of its own: the daemon answers from
what it holds at that moment, and a later step applies the answer. Some
definitions are followed or preceded by a *slip*, an operator marked `Slip:`
that holds a plausible mistake in the same code; no specification uses it. Each
property has a slip that breaks it, so that none holds by accident.

### Abstractions

- Service and node specs are a few values; the replica counts that follow from
  them are the pair (spec, nodes) in `Reconciler` and numbers in
  `ReplicaGauges`.
- `not_before` is `none`, `due`, `fresh` or `later` relative to the clock the
  running cycle read. Backoff durations are "later".
- The order queue maps each key to the set of keys up to and including it,
  which keeps proofs free of sequences.
- A series is keyed by its label identity. `LabelOf` is a constant: with unique
  identities `SeriesMirrorCache` holds, with identities shared by a recreated
  service the run `SameName` shows what goes wrong.
- A text is a value with a case fold; an address text denotes a set of
  addresses.
- In `Reconciler` the daemon's event history is `in_flight`; a new stream may
  have lost its oldest part and may repeat an event. In `Listener` events have
  stamps, up to `Skew` before the moment they are sent, and the daemon replays
  from `since` what it still holds. Its history is taken to reach back over the
  first connect of the process (`Forget` needs `reconnect`).
- In `Exposition` a value is what it was computed from (metadata and nodes);
  the computation is `ReplicaGauges` and `Placement`.
- A label name is a sequence of bytes of a few classes; an argument its dashes,
  its name, whether a `=` follows and whether more than one character follows the
  dashes; an address a sequence of marks.
- The probe's HTTP client (`hyper-util`'s `HttpConnector` and `http::Uri`) is
  external, `Dialled`: a `%` outside brackets makes the URL invalid, and the host
  is looked up with its `%25` as it stands.
- A snapshot of `TaskCounting` holds the desired count `apply_service` and
  `apply_nodes` stored with the metadata. That it is the count for the node list
  of the snapshot is part of `SnapshotAssumption`: the reconciler answers polls
  between its steps, and each of the two stores it with the list it has.
- A container is listed in one of Docker's documented states, which are all among
  `KNOWN_CONTAINER_STATES`. In any other state it would be published with every
  value 0.
- A wait of the reconciler begins where it computes its delay: what is signalled
  between that and the `select` leaves a permit, as `Notify` does.

## Runs

| Run | Module | Properties | Shows |
|---|---|---|---|
| `Services` | `MCReconciler` | `TypeOK`, `QueueWellFormed`, `QueueIsFifo`, `GenerationsMirrorCache`, `NoLostServiceChange` | no service change is forgotten under node changes, faults, panics, overflow and shutdown; the queue is one queue; generations follow the cache |
| `Mirror` | `MCReconciler` | `EventuallyMirrored`, `WorkIsServed`, `ImplementsResync` | the caches become what the daemon has, every resync and key is served (liveness); `Reconciler` implements `Resync` |
| `Polls` | `MCPollProtocol` | `CarriedIsBounded`, `NoSilentOmission`, `AcceptedIsUpToDateUnlessResyncing`, `PublishedIsCurrent`, `NoLostNodeChange`, `NoLostWakeup`, `SeriesMirrorCache` | what a poll accepts, carries over and publishes, with which metadata and for how long; beside it no node change and no wake-up is lost, and the series are those of the cache |
| `Polled` | `MCPollProtocol` | `PollsEnd`, `EventuallyPublished`, `CancelStopsAll` | polls end and publish, a shutdown stops all three tasks (liveness) |
| `Gauges` | `MCReplicaGauges` | `ConstraintsAreDecided`, `NodeChangesAreContained` | placement and the two gauges over modes, constraints, platforms and node states |
| `Counting` | `MCTaskCounting` | `RunningIsServed`, `OrderDoesNotMatterIfCreatedApart`, `FinishedJobIsDone` | which task of a slot is counted, and when a job is finished |
| `Healthz` | `MCHealth` | `HealthyHasServed`, `OutstandingIsUnbroken` | what a healthy or unhealthy answer means while everything it reads moves |
| `Stops` | `MCLifecycle` | `PreScanIsExact`, `ProbeReachesServer`, `FamiliesFit`, `StopsInTime`, `ExitTellsWhatHappened`, `StopEnds` | from the arguments to the exit code |
| `Containers` | `MCContainers` | `ContainerPollIsBounded`, `ContainerSeriesAreSound` | a container poll while containers change and calls hang |
| `Scrapes` | `MCExposition` | `SettledSeries`, `ScrapeIsWhole` | what one `/metrics` request may mix |
| `Stream` | `MCListener` | `CallsEndInTime`, `HeldEventsArrive`, `EveryEventIsCovered`, `BackoffMatchesAttempts`, `EventuallyStreaming` | deadlines over a shared connection, and reconnects that lose nothing |

`SameName` ends in a violation of `SettledServiceHasSeries`: a resync that finds
a service recreated under its name writes the new series and then deletes it
with the old ID. Nothing is left to do at that point: no key is pending and no
resync outstanding. The series comes back when something applies the service
again: its next event or the next resync, at the latest the periodic one after
`PERIODIC_RESYNC_INTERVAL` (five minutes); the two replica gauges also with the
next node list (`apply_nodes`). `PROJECT.json` quotes the line it disagrees with.

### Exceptions met

Some properties above have an exception in their statement, because the code
has it. Each was seen in a counterexample before the exception was written down.

- `AcceptedIsUpToDateUnlessResyncing`: `poll.rs:297` says counts are accepted if
  "no change is waiting to be applied". A key that an overflow dropped waits for
  the resync alone, and its service's counts are accepted meanwhile.
- `NoSilentOmission` holds for services that keep their identity. A rejected
  service that is new, renamed or gone is neither published nor carried over,
  and the poll still succeeds (`poll.rs:226`).
- `OrderDoesNotMatterIfCreatedApart`: tasks with the same creation time fall back
  to status times and versions, and then the order of the list can decide.
- `StopsInTime`: the lookup of a listen address is not interrupted by a signal.
- `ContainerSeriesAreSound`: a container restarted between list and inspect is
  published as exited with code 0.
- `ProbeReachesServer`: an address with a zone, such as `[fe80::1%eth0]:8888`.
  `server.rs` binds it with the zone's scope. `healthcheck_url` says "any other
  host is kept" but writes the `%` as `%25`, and the client looks the host up
  without decoding it, or refuses the URL where the host has no brackets; so the
  probe of a healthy exporter there exits with 1. The other exception is an
  unspecified IPv6 address where there is no IPv6: `bind` falls back to `0.0.0.0`
  and the probe asks for `::1`.
- `OutstandingIsUnbroken` speaks of resyncs outstanding without a break, not of
  one: a request raised during a long pass counts from the start of that pass.

### Bounds

One to three services, a queue of one or two keys, one key per cycle and one
retry make every branch of marking, overflow, retry and batching happen; two
node lists and a replicated and a global spec tell all mode-dependent branches
apart. Changes, faults, lost streams and periodic intervals are capped by
`MaxChanges`, `MaxFaults`, `MaxDrops`, `MaxPeriodic`; each is at least one in
some run, and two changes of one service are enough for an old answer to meet a
new event. `Services` has three services, for the queue, and one spec;
`Polls` has two services and both modes, and since the mode is a label, a change
of mode renames the series. The constraint `Budget` limits changes and faults to
three in all in `Services`, changes and periodic resyncs to two in `Polls`. `TaskCounting` takes every list of up to three tasks of
a slot, since the choice is pairwise and three are needed to see that it is not
transitive. `Health` runs its clock past two windows. `Lifecycle` uses a budget
of two ticks, so that a signal can come before, at and after every timer, and
command lines and labels from a list that has each kind of argument, address and
name collision. `Containers` lists one container more than the cap allows, and
one that is filtered out. `Listener` has two callers, two faults and two events,
so that one task waits for the other's connection while the daemon is silent
and an event is stamped before one that was already seen; `MaxNaps` bounds the
attempts that are remembered, and the backoff is at its cap by then
(`BackoffAssumption`).
`Exposition` makes three changes to one service during a scrape: renamed,
updated and removed. Symmetry is used only in runs without liveness.

Deadlock is checked, except in `Polled`, where a shutdown stops every task, and
in `Containers`, where it stops the poller.

### Fairness

Weak fairness of each task's steps: the runtime polls a ready task. Strong
fairness only for the start of a reconciler cycle beside polls: it waits until no
poll request is queued, and the poller waits for its ticker or for the daemon
before each. Docker calls end because every one has a deadline, after which it
fails. Timers go off. Nothing is assumed of clients, of workers once a shutdown
is under way, of the daemon's changes or of signals; in `Listener` a daemon that
went silent answers again, or no stream could be promised. In `Lifecycle` and
`Listener` a ready step runs before the clock moves; this is the assumption
under which deadlines are meant.

## Proofs

| Theorem | Module | Statement |
|---|---|---|
| `TypeCorrect` | `ReconcilerProofs` | `Spec => []TypeOK` |
| `QueueFair` | `ReconcilerProofs` | `Spec => QueueIsFifo` |
| `SinceCorrect` | `ReconcilerProofs` | `Spec => []OutstandingSinceIsSet` |
| `SinceMoves` | `ReconcilerProofs` | `Spec => OutstandingSinceOnlyMovesOnCompletion` |
| `QueueCorrect` | `QueueProofs` | `Spec => []QueueWellFormed` |
| `WakeupCorrect` | `QueueProofs` | `Spec => []NoLostWakeup` |
| `NoServiceChangeLost` | `CacheProofs` | `Spec => []NoLostServiceChange` |
| `NoNodeChangeLost` | `CacheProofs` | `Spec => []NoLostNodeChange` |
| `SeriesCorrect` | `CacheProofs` | `Spec => []SeriesMirrorCache`, if `UniqueLabels` |
| `GenerationsCorrect` | `CacheProofs` | `Spec => []GenerationsMirrorCache` |
| `PublishedCorrect` | `PollProofs` | `PSpec => PublishedIsCurrent` |
| `AcceptedCorrect` | `PollProofs` | `PSpec => AcceptedIsUpToDateUnlessResyncing` |
| `CarriedCorrect` | `PollProofs` | `PSpec => []CarriedIsBounded` |
| `NoChangeLostByPolls` | `PollProofs` | `PSpec => [](NoLostServiceChange /\ NoLostNodeChange /\ GenerationsMirrorCache)` |
| `OmissionCorrect` | `PollProofs` | `PSpec => NoSilentOmission` |
| `WakeupByPolls` | `QueueProofs` | `PSpec => []NoLostWakeup` |
| `QueueByPolls` | `QueueProofs` | `PSpec => []QueueWellFormed /\ QueueIsFifo` |
| `ResyncByPolls` | `QueueProofs` | `PSpec => ImplementsResync /\ []OutstandingSinceIsSet` |
| `SeriesByPolls` | `PollProofs` | `PSpec => []SeriesMirrorCache`, if `UniqueLabels` |
| `ResyncImplemented` | `ReconcilerProofs` | `Spec => ImplementsResync` |
| `HealthyCorrect` | `EndpointProofs` | `HSpec => []HealthyHasServed` |
| `OutstandingCorrect` | `EndpointProofs` | `HSpec => []OutstandingIsUnbroken` |
| `SettledCorrect` | `EndpointProofs` | `ESpec => []SettledSeries` |
| `ScrapeCorrect` | `EndpointProofs` | `ESpec => []ScrapeIsWhole` |
| `CallsCorrect` | `ListenerProofs` | `LSpec => []CallsEndInTime` |
| `HeldCorrect` | `ListenerProofs` | `LSpec => []HeldEventsArrive` |
| `CoveredCorrect` | `ListenerProofs` | `LSpec => []EveryEventIsCovered` |
| `BackoffCorrect` | `ListenerProofs` | `LSpec => []BackoffMatchesAttempts` |
| `StopCorrect` | `LifecycleProofs` | `LSpec => []StopsInTime` |
| `ExitCorrect` | `LifecycleProofs` | `LSpec => []ExitTellsWhatHappened` |
| `ProbeCorrect` | `LifecycleProofs` | `LSpec => []ProbeReachesServer` |
| `PreScanCorrect` | `LifecycleProofs` | `LSpec => []PreScanIsExact` |
| `FamiliesCorrect` | `LifecycleProofs` | `LSpec => []FamiliesFit` |
| `NodeChangesCorrect` | `SeriesProofs` | `GSpec => NodeChangesAreContained` |
| `ConstraintsCorrect` | `SeriesProofs` | `GSpec => []ConstraintsAreDecided` |
| `ServedCorrect` | `SeriesProofs` | `TSpec => []RunningIsServed` |
| `OrderCorrect` | `SeriesProofs` | `TSpec => []OrderDoesNotMatterIfCreatedApart` |
| `FinishedCorrect` | `SeriesProofs` | `TSpec => []FinishedJobIsDone` |
| `ContainerPollCorrect` | `SeriesProofs` | `CSpec => []ContainerPollIsBounded` |
| `ContainerSeriesCorrect` | `SeriesProofs` | `CSpec => []ContainerSeriesAreSound` |

They hold for every set of services (finite), specs, node lists, task lists,
containers, label identities, command lines, custom labels, addresses, caps, windows, deadlines and bounds that satisfy
the named assumptions of the modules:

- numbers are natural numbers, and Docker's lists are finite
  (`SnapshotAssumption`, `ListsAssumption`, `ContainersAssumption` and those of
  `SharedState`, `Reconciler`, `PollProtocol`, `Health` and `DockerClient`);
- the desired count of a snapshot is that of its nodes (`SnapshotAssumption`);
- a node is listed once, and a constraint is malformed or one of the forms
  `parse_constraint` returns (`SnapshotAssumption`, `ListsAssumption`);
- the daemon's stamps are at most `EVENTS_SINCE_MARGIN` out of order
  (`ListenerAssumption`): this is what the margin is for, and `HeldEventsArrive`
  is false without it;
- the backoff begins at or below its cap and would have doubled past it by the
  attempt up to which they are counted (`BackoffAssumption`), so that `MaxNaps`
  bounds the count and not the delay;
- the exporter's own label names are valid and distinct, `state` included, and a
  byte that leads a UTF-8 sequence is no letter, digit or underscore
  (`LabelsAssumption`); a process is started with a list of arguments, a list of
  names that are byte strings and an address made of marks (`InputsAssumption`),
  none of which is the escape `%25` itself (`MarkAssumption`). Of the names,
  arguments and addresses themselves nothing is assumed;
- the clock runs further than the last stop and one budget
  (`LifecycleAssumption`), or deadlines would not be reached;
- `Exposition` follows services that share no label identity
  (`IdentityAssumption`), and `SeriesCorrect` and `SeriesByPolls` have the same
  as a hypothesis (`UniqueLabels`). `SameName` shows that it is needed.

The argument of each:

- `ReconcilerProofs` has one lemma per critical section: what it leaves
  alone, and what it does to the queue, the generations and the counters. The
  later modules use these and never unfold the operators.
- Types, control and queue form one invariant, `StateInv`: `TypeOK`, which
  local is in use at which `pc` (`ControlInv`), and `QueueShape`, the prefix
  sets being a chain over exactly the pending keys. `QueueWellFormed` is not
  inductive without the chain: taking a prefix of the queue would not leave a
  queue. The cap is a second induction in `QueueProofs`, the only place of these
  that counts. A mark made for a poll is one more way into the queue, and the
  same lemmas serve `QueueByPolls`.
- For the outstanding time the invariant adds that a pass's target is between
  the counters and its start is not zero and not in the future.
- No lost change is not inductive: in the middle of a resync or an inspect the
  answer held is older than the world. The strengthening says, for each point
  of a pass, that a service whose listed answer differs from the world still has
  its event to come or a later request outstanding, and the same for inspected
  keys and listed nodes.
- A lost wake-up is about work that has come, which time decides. `WakeInv` says
  instead that everything scheduled while the task is parked is what its timer
  is armed for, unless a permit or the signal that leaves one is under way.
- Series are computed from the cached nodes, so `SeriesMirrorCache` needs
  `ReadyInv`: no service is applied and no key taken before a node list was.
  `GenerationsMirrorCache` needs in addition which keys a batch holds
  (`BatchInv`), since a key being inspected is in no queue.
- A poll's verdict compares generations, never the metadata. `SnapshotInv` says
  what an equal generation is worth: a service cached under the generation of
  the snapshot has the spec of the snapshot, and its nodes while the node
  generation is the snapshot's too. It is inductive because a generation only
  ever moves to a number never used before, or is dropped from a service that
  is not cached (`Ahead`, `PairsKept`); that in turn needs the flag to mirror
  the cache. `JudgeInv` carries the verdict to the publication, past the
  critical sections that mark services in between, and the poller's shutdown.
- The same module shows that answering polls disturbs none of the reconciler's
  invariants (`ServeKeeps`), so that they also hold of the composition, and that
  a verdict given between two cycles finds no key taken: this is why an accepted
  service is up to date. A request disarms the timer only as it takes the task
  out of its wait, so no wake-up is lost either.
- For the deadlines, `CallInv` says that the time a call has left and the time
  it has taken add up to the timeout, whoever's connection it waits for.
- For the events, `StreamInv` says where the resume point is. It is a margin
  before the clock; whatever is on its way is in the daemon's order and not
  stamped before the resume point; and the last event seen was sent before all
  that is on its way. So when a stream ends, what it did not deliver was sent
  later than the last event seen, is stamped at most the skew before it, and is
  not before the new resume point. Nothing is forgotten before the first stream
  is lost; after that the reconnect requests a resync.
- A scrape interleaves with writes, so what the registry shows is seldom what the
  caches say. `RegistryInv` says that it is, up to what is left to do: every
  remaining operation writes what the caches want or deletes what they do not
  want, and a series with no operation left is one they want, with the wanted
  value. Each operation then only has to be followed for one step. `ScrapeInv`
  says of a service that was complete when the scrape began and kept its identity
  that it has every series, and that what was read of it is whole; and of the
  replica families that those read so far are from the set that was loaded.
- The end of the process has a time (`TimeInv`: the deadline is the first signal
  or failure and one budget, whoever computes it, since nothing waits between a
  failure and that computation), a place (`PlaceInv`: what the deadline and the
  server are at each `pc`) and a cause (`ServerInv`, `ExitInv`: nothing drains,
  fails or is cut before a signal or a failure, nothing is cut before the budget is
  over, and the code says which came).
- `GaugesFollowCaches`: the gauges written last are the counts of what is cached
  now, whichever of `apply_service` and `apply_nodes` wrote them. With it a change
  of nodes compares two counts of one spec, and a subset of the eligible nodes is
  no larger.
- The walk over a task list keeps one chosen task per key, which runs if one it
  has passed does (`ServedInv`), and which is preferred to all it has passed if
  the creation times differ: then `preferred_task` decides between any two tasks
  and is transitive. The counters of a poll are those of the chosen tasks once the
  whole list is walked (`CountersInv`).
- A row of a container poll has no exit code until `enrich` is done with it and a
  known state from then on (`RowInv`), and a code that is reported was an exit
  and stays one (`WorldInv`). The publication happens when no row is ahead.
- `Reconciler` implements `Resync`: from the same invariant, every step is a
  request, the start, the end or the loss of a pass, a tick, or a stutter. Beside
  polls it still does: a mark made for a poll leaves the counters alone or, if it
  overflows the queue, is a request.
- What a loop computes, for inputs of every length, is proved without an induction
  theorem over predicates: a set of numbers that has 0 and the successor of each of
  its members has all of them, because a set of numbers that is not empty has a
  least one (`LeastNatural`, `InductionUpTo`). The same shows that a function with
  the equations of a recursion exists (`RecursionExists`, and
  `RecursionAheadExists` for a recursion towards the end), which is what makes the
  recursive functions `Scanned`, `Pushed` and `Doubled` mean their equations.
- The backoff: `BackoffInv` says that the next delay is the doubling of the
  attempts so far up to the cap, and that the count of attempts stops only where
  the cap holds.
- The pre-scan: after each argument the loop has skipped exactly the values of
  flags, has stopped exactly at the terminator, and has refused exactly a cluster
  seen before it (`ScanKnows`). `PreScanIsExact` follows after the last argument.
- The probe: the host and the port of an address are parts of it, without a
  bracket (`SplitParts`), so a host without a zone is not changed by the escape;
  the client parts the authority at its last colon into that host and port again,
  with brackets (`BracketsDialled`) and without (`PlainDialled`); and the target is
  then the bound address, or a loopback where that is a wildcard
  (`TargetReached`).
- The families: a name that is already valid is left as it is by `sanitize_name`
  (`ValidIsSanitized`), so that sanitizing twice, as the families do, is
  sanitizing once; the accepted names are valid, distinct and none of the
  exporter's own (`AcceptedNames`); so the lists of a family join without
  repetition (`GoodNamesJoin`) and a label set with these names has as many
  (`GoodNamesFit`). `GivenInv` carries the validation to the start of the workers.
- The health theorems are about an evaluation over `Resync`, so with that
  refinement they are about the reconciler's own counters. `HealthInv` adds
  that the time kept is no later than any unserved request and no earlier than
  the last moment nothing was left (`SinceOK`), the same of the start of a pass
  (`PassOK`), and that whatever an evaluation has not seen came after the clock
  it read (`ReadOK`): without the last, an answer could rest on counters that
  were old before it was given.

Checked by TLC only:

- Liveness and everything that needs `ENABLED` or fairness: `EventuallyMirrored`,
  `WorkIsServed`, `PollsEnd`, `EventuallyPublished`, `CancelStopsAll`, `StopEnds`,
  `EventuallyStreaming`.

Every other property of a passing run is a theorem.

## Not modelled

- The bytes of the requests to Docker and the field copies of
  `docker/convert.rs`: a call is a request in flight that is answered, fails,
  times out or is abandoned (`DockerClient`), its answer a value.
- `clap`'s own parsing in `cli.rs`. The pre-scan, the probe and the label
  checks the code adds to it are in `CommandLine` and `Labels`.
- The text of the exposition: encoding, escaping, `HELP` and `TYPE` lines, and
  the formatting of a snapshot. `Exposition` models which values a scrape reads
  and in which order.
- Logging, and the warning about many series: they write no state anything
  reads back. The same holds of the counters of `exporter_metrics.rs`.
- `text.rs`, `num.rs`, `version.rs`, `testenv.rs`: conversions without state,
  and test support. The `since` parameter is formatted without loss, so the
  time it stands for is what `Listener` keeps.
- HTTP routing and headers, and service-kit's HTTP server beyond accept, drain
  and cut (external); the runtime's own shutdown after `run_with`.
- The orchestrator labels and names of containers: they are constant for a
  container's life, and a container is its ID in `Containers`.
- A wall clock that is stepped back: `outstanding_since` is wall time, and the
  age `Health` computes is then too small. The modules let time only advance.
