--------------------------- MODULE MCTaskCounting ----------------------------
(* Up to three tasks of one service, and jobs over three nodes. *)
EXTENDS TaskCounting

MCText == {"", "n1", "n2", "n3"}
MCFold(t) == t
MCAddresses(t) == {}

MCNode(id, availability) ==
    [id |-> id, hostname |-> id, state |-> "ready", availability |-> availability,
     role |-> "", os |-> "", arch |-> "", addr |-> "", labels |-> <<>>, engine |-> <<>>]

MCMeta(mode, configured) ==
    [service_mode |-> mode, configured_replicas |-> configured, job_iteration |-> 1,
     constraints |-> {[key |-> "node.id", operator |-> "!=", expected |-> "n3"]},
     platforms |-> {}, restart_condition_none |-> FALSE,
     desired_replicas |-> 0]

MCSnapshot(id, meta, list) ==
    [services |-> [i \in {id} |->
                      [meta EXCEPT !.desired_replicas = replica_counts(meta, list)[1]]],
     nodes |-> list]

MCTask(service, slot, node, iteration, wanted, state, created, timestamp, version) ==
    [service |-> service, slot |-> slot, node |-> node, iteration |-> iteration,
     desired_state |-> IF wanted THEN "running" ELSE "shutdown", state |-> state,
     created_at |-> created, timestamp |-> timestamp, version |-> version]

UpToThree(pool) == {{}} \cup {{a, b, c} : a, b, c \in pool}

\* One slot of a replicated service, and a second one with a task of its own.
WebSlot ==
    {MCTask("web", 1, "n1", {}, w, s, c, t, v) : w \in BOOLEAN,
        s \in {"running", "preparing", "failed"}, c \in 1 .. 2, t \in 0 .. 1, v \in 1 .. 2}
WebLists ==
    UpToThree(WebSlot)
    \cup {{a, MCTask("web", 2, "n2", {}, TRUE, s, 1, 1, 1)} :
             a \in WebSlot, s \in {"running", "failed"}}
    \cup {{MCTask("gone", 1, "n2", {}, TRUE, "running", 1, 1, 1)}}
WebSnapshots ==
    {MCSnapshot("web", MCMeta("replicated", 1), {}), [services |-> <<>>, nodes |-> {}]}

\* Distinct creation times, every status.
ApartLists ==
    {{a, b, c} :
        a \in {MCTask("web", 1, "n1", {}, w, s, 1, t, 3) : w \in BOOLEAN, t \in 0 .. 1,
                   s \in {"running", "preparing", "failed"}},
        b \in {MCTask("web", 1, "n1", {}, w, s, 2, 1, 2) : w \in BOOLEAN,
                   s \in {"running", "preparing", "failed"}},
        c \in {MCTask("web", 1, "n1", {}, w, s, 3, 2, 1) : w \in BOOLEAN,
                   s \in {"running", "preparing", "failed"}}}

\* Jobs whose tasks run on nodes that are eligible, drained, excluded or gone.
JobTasks(service) ==
    {MCTask(service, n, <<"n1", "n2", "n3">>[n], {1}, w, s, c, 1, 1) :
        n \in 1 .. 3, w \in BOOLEAN, s \in {"running", "complete", "failed"}, c \in 1 .. 2}
    \cup {MCTask(service, 1, "n1", i, TRUE, "complete", 3, 1, 1) : i \in {{}, {0}}}
JobLists == UpToThree(JobTasks("job"))
JobNodes ==
    {{}, {MCNode("n1", "active"), MCNode("n2", "active"), MCNode("n3", "active")},
     {MCNode("n1", "drain"), MCNode("n2", "active")}, {MCNode("n2", "drain")}}
JobSnapshots ==
    {MCSnapshot("job", MCMeta(mode, IF mode = "global-job" THEN 0 ELSE c), list) :
        mode \in JobModes, c \in 1 .. 2, list \in JobNodes}

MCSnapshots == WebSnapshots \cup JobSnapshots
MCTaskLists(services_) ==
    IF "job" \in DOMAIN services_ THEN JobLists ELSE WebLists \cup ApartLists

=============================================================================
