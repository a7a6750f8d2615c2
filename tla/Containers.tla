----------------------------- MODULE Containers ------------------------------
(***************************************************************************)
(* The optional container poll (src/collector/containers.rs, called from   *)
(* poll_once of src/run.rs): one list, then an inspect of each running or  *)
(* exited container under one cap and one deadline, then one publication.  *)
(* Containers go on changing between the list and each inspect.            *)
(*                                                                         *)
(* Names and the labels derived from them are left out: a row is keyed by  *)
(* its container.  The label names of the family are fixed, so the build   *)
(* of update does not fail.                                                *)
(***************************************************************************)
EXTENDS Naturals, FiniteSets

CONSTANTS
    Container,
    Swarm,              \* the containers of Swarm tasks
    include_swarm,
    ExitCode,           \* the codes a container may exit with, 0 among them
    inspect_cap,
    ListTimeout,        \* CONTAINERS_LIST_TIMEOUT, in ticks
    EnrichTimeout,      \* enrich_timeout, in ticks
    MaxChanges          \* bound: changes of containers in all

ASSUME ContainersAssumption ==
    /\ Swarm \subseteq Container /\ include_swarm \in BOOLEAN
    /\ 0 \in ExitCode /\ ExitCode \subseteq Nat
    /\ {inspect_cap, ListTimeout, EnrichTimeout, MaxChanges} \subseteq Nat

VARIABLES
    world,          \* what the daemon knows of each container
    changes,
    phase, elapsed, \* the poll, and the time since it started
    rows,           \* the working records, of the listed containers
    ahead,          \* the rows enrich has not reached
    current,        \* the container being inspected, a set of at most one
    inspected, deadline,
    published,      \* the published series
    calls,          \* history: the inspects this poll made
    exits           \* history: the codes each container exited with

poll == <<phase, rows, ahead, current, inspected, deadline, calls>>
daemon == <<world, changes, exits>>
cvars == <<daemon, poll, elapsed, published>>

\* "paused" stands for every state that needs no inspect.  The daemon reports no state
\* that is not known: a container in one would be published without a 1.
BaseStates == {"running", "exited", "paused"}
Overlay == [healthy |-> "healthy", unhealthy |-> "unhealthy", starting |-> "health_starting"]
KNOWN_CONTAINER_STATES == BaseStates \cup {Overlay[h] : h \in DOMAIN Overlay}

\* The exit_code label: a set of at most one code.
NoCode == {}
Code == {NoCode} \cup {{code} : code \in ExitCode}
UnsetState == "unset"

Absent == [state |-> "absent", code |-> 0, health |-> "none"]
Known == [state : BaseStates, code : ExitCode, health : DOMAIN Overlay \cup {"none"}]

CInit ==
    /\ world \in [Container -> {Absent, [state |-> "running", code |-> 0, health |-> "starting"],
                                [state |-> "exited", code |-> 0, health |-> "none"]}]
    /\ changes = 0
    /\ phase = "idle" /\ elapsed = 0
    /\ rows = <<>> /\ ahead = {} /\ current = {} /\ inspected = 0 /\ deadline = 0
    /\ published = {} /\ calls = 0
    /\ exits = [c \in Container |-> IF world[c].state = "exited" THEN {0} ELSE {}]

-----------------------------------------------------------------------------
(* The daemon: a running container reports exit code 0 *)

Become(c, next) ==
    /\ changes < MaxChanges /\ next # world[c]
    /\ changes' = changes + 1
    /\ world' = [world EXCEPT ![c] = next]
    /\ exits' = IF next.state = "exited" THEN [exits EXCEPT ![c] = @ \cup {next.code}] ELSE exits
    /\ UNCHANGED <<poll, elapsed, published>>

StartContainer(c) ==
    /\ world[c].state \in {"absent", "exited"}
    /\ \E health \in {"none", "starting"} :
         Become(c, [state |-> "running", code |-> 0, health |-> health])

CheckHealth(c) ==
    /\ world[c].state = "running" /\ world[c].health # "none"
    /\ \E health \in DOMAIN Overlay : Become(c, [world[c] EXCEPT !.health = health])

Pause(c) ==
    /\ world[c].state \in {"running", "paused"}
    /\ Become(c, [world[c] EXCEPT !.state = IF @ = "running" THEN "paused" ELSE "running"])

ExitContainer(c) ==
    /\ world[c].state = "running"
    /\ \E code \in ExitCode : Become(c, [world[c] EXCEPT !.state = "exited", !.code = code])

RemoveContainer(c) == world[c] # Absent /\ Become(c, Absent)

-----------------------------------------------------------------------------
(* The poll *)

StartPoll ==
    /\ phase = "idle"
    /\ phase' = "list"
    /\ UNCHANGED <<daemon, elapsed, rows, ahead, current, inspected, deadline, published, calls>>

\* The working state of a poll ends with it.
Ends(next) ==
    /\ phase' = next /\ elapsed' = 0
    /\ rows' = <<>> /\ ahead' = {} /\ current' = {} /\ inspected' = 0 /\ deadline' = 0
    /\ calls' = 0
    /\ UNCHANGED daemon

\* A failed list, or one that outlasts its timeout, keeps the published set.
FailContainerList ==
    /\ phase = "list" /\ Ends("idle")
    /\ UNCHANGED published

Listed == {c \in Container : world[c] # Absent /\ (c \in Swarm => include_swarm)}

ListContainers ==
    /\ phase = "list"
    /\ rows' = [c \in Listed |-> [listed |-> world[c].state, state |-> UnsetState,
                                  exit_code |-> NoCode]]
    /\ ahead' = Listed
    /\ deadline' = elapsed + EnrichTimeout
    /\ phase' = "enrich"
    /\ UNCHANGED <<daemon, elapsed, current, inspected, published, calls>>

Needs(c) == rows[c].listed \in {"running", "exited"}
can_inspect == inspected < inspect_cap /\ elapsed < deadline

keep_base_state(row) == [row EXCEPT !.state = row.listed]

\* Rows are taken in list order, which is any order.
SkipInspect(c) ==
    /\ phase = "enrich" /\ c \in ahead
    /\ ~(Needs(c) /\ can_inspect)
    /\ rows' = [rows EXCEPT ![c] = keep_base_state(@)]
    /\ ahead' = ahead \ {c}
    /\ UNCHANGED <<daemon, phase, elapsed, current, inspected, deadline, published, calls>>

\* Slip: the inspect is not counted.
InspectFree(c) ==
    /\ phase = "enrich" /\ c \in ahead /\ Needs(c) /\ can_inspect
    /\ ahead' = ahead \ {c} /\ current' = {c}
    /\ calls' = calls + 1
    /\ phase' = "inspect"
    /\ UNCHANGED <<daemon, elapsed, rows, inspected, deadline, published>>

Inspect(c) ==
    /\ phase = "enrich" /\ c \in ahead /\ Needs(c) /\ can_inspect
    /\ ahead' = ahead \ {c} /\ current' = {c}
    /\ inspected' = inspected + 1 /\ calls' = calls + 1
    /\ phase' = "inspect"
    /\ UNCHANGED <<daemon, elapsed, rows, deadline, published>>

Inspected(row) ==
    /\ phase = "inspect"
    /\ rows' = [c \in DOMAIN rows |-> IF c \in current THEN row[c] ELSE rows[c]]
    /\ current' = {} /\ phase' = "enrich"
    /\ UNCHANGED <<daemon, elapsed, ahead, inspected, deadline, published, calls>>

\* The call fails, finds no such container, or runs into the deadline.
FailInspect == Inspected([c \in DOMAIN rows |-> keep_base_state(rows[c])])

\* A container without a healthcheck reports no health.
apply_health_overlay(row, found) ==
    IF found.health \in DOMAIN Overlay
    THEN [row EXCEPT !.state = Overlay[found.health]]
    ELSE keep_base_state(row)

\* Slip: the code goes by what the inspect says.
apply_found_code(row, found) ==
    [keep_base_state(row) EXCEPT !.exit_code = IF found.state = "exited" THEN {found.code} ELSE @]

apply_exit_code(row, found) ==
    [keep_base_state(row) EXCEPT !.exit_code = IF row.listed = "exited" THEN {found.code} ELSE @]

\* Slip: what is read off the answer goes by the answer.
EnrichedByAnswer(row, found) ==
    IF found.state = "running" THEN apply_health_overlay(row, found)
    ELSE apply_found_code(row, found)

\* What is read off the answer goes by the listed state.
Enriched(row, found) ==
    IF row.listed = "running" THEN apply_health_overlay(row, found)
    ELSE apply_exit_code(row, found)

AnswerInspect ==
    /\ \A c \in current : world[c] # Absent
    /\ Inspected([c \in DOMAIN rows |-> Enriched(rows[c], world[c])])

\* build_containers_state: every known state of every row.
build_containers_state(table) ==
    {[container |-> c, state |-> s, exit_code |-> table[c].exit_code,
      value |-> IF table[c].state = s THEN 1 ELSE 0] :
        c \in DOMAIN table, s \in KNOWN_CONTAINER_STATES}

Update ==
    /\ phase = "enrich" /\ ahead = {}
    /\ published' = build_containers_state(rows)
    /\ Ends("idle")

\* A shutdown drops the poll wherever it is.
CancelPoll ==
    /\ phase # "stopped" /\ Ends("stopped")
    /\ UNCHANGED published

\* Time passes while a call is out and its timer has not fired.
Tick ==
    /\ \/ phase = "list" /\ elapsed < ListTimeout
       \/ phase = "inspect" /\ elapsed < deadline
    /\ elapsed' = elapsed + 1
    /\ UNCHANGED <<daemon, poll, published>>

Enrich == \E c \in ahead : SkipInspect(c) \/ Inspect(c)

CNext ==
    \/ StartPoll \/ FailContainerList \/ ListContainers \/ Enrich \/ FailInspect \/ AnswerInspect
    \/ Update \/ CancelPoll \/ Tick
    \/ \E c \in Container :
         StartContainer(c) \/ CheckHealth(c) \/ Pause(c) \/ ExitContainer(c) \/ RemoveContainer(c)

CSpec == CInit /\ [][CNext]_cvars

-----------------------------------------------------------------------------
(* Properties *)

Series(c) == {s \in published : s.container = c}

\* However many inspects fail or hang, a poll makes at most inspect_cap of them and is
\* over within the two timeouts, so it cannot hold up the next replica poll.
ContainerPollIsBounded == calls <= inspect_cap /\ elapsed <= ListTimeout + EnrichTimeout

\* Whichever inspects failed, were skipped or came late, a container is published with
\* "exactly one state=1 per container" and every known state present.  An exit code
\* stands for an exit: only a series set whose state is exited carries one, and it is
\* a code the container exited with, or the 0 of one that was restarted between the
\* list and its inspect (apply_exit_code).
ContainerSeriesAreSound ==
    /\ \A c \in {s.container : s \in published} :
         /\ Cardinality({s \in Series(c) : s.value = 1}) = 1
         /\ Cardinality(Series(c)) = Cardinality(KNOWN_CONTAINER_STATES)
    /\ \A s \in published : s.exit_code # NoCode =>
         /\ s.value = 1 => s.state = "exited"
         /\ s.exit_code \subseteq exits[s.container] \cup {0}

=============================================================================
