------------------------------ MODULE Lifecycle ------------------------------
(***************************************************************************)
(* From the start of the process to its exit: run_with and watch_shutdown  *)
(* (src/run.rs), serve_until_done and serve_listener (src/server.rs).      *)
(* The HTTP server under them (service_kit::http) is external: it accepts, *)
(* drains once it is stopped or accepting fails, for at most its own drain *)
(* budget, and closes what is open when it is cut.                         *)
(*                                                                         *)
(* A step that is ready runs before the clock moves on; clients, workers   *)
(* and, for a host name, the lookup of the address take their time.        *)
(***************************************************************************)
EXTENDS CommandLine

CONSTANTS
    Inputs,             \* what the process may be started with
    ProbeTimeout,       \* HEALTHCHECK_TIMEOUT, in ticks
    Worker,             \* the reconciler, the listener and the poller
    Client,             \* connections clients may open
    Budget,             \* SHUTDOWN_BUDGET, in ticks
    MaxStop,            \* bound: the last moment of a signal or a failure
    MaxTime             \* bound: how far the clock runs

ASSUME LifecycleAssumption ==
    /\ {Budget, ProbeTimeout} \subseteq Nat \ {0}
    /\ MaxStop \in Nat /\ MaxTime \in Nat /\ MaxStop + Budget < MaxTime

ASSUME InputsAssumption ==
    \A i \in Inputs :
        /\ i.arguments \in Seq([dashes : Nat, name : STRING, eq : BOOLEAN, longer : BOOLEAN])
        /\ i.labels \in Seq(Seq(Byte))
        /\ i.listen_addr \in Seq(Mark)

VARIABLES
    clock, pc,
    input,              \* the set of what the process was started with, until it is used up
    probe,              \* the deadline of a probe, 0 before
    signalled,          \* when shutdown resolved, 0 before
    root,               \* the root token is cancelled
    lifecycle,          \* what the server was told: "run", "stop", "cut"
    http,               \* the server, or its outcome
    failed,             \* accepting failed
    drain_start,
    open,               \* the open connections
    worker,
    deadline,           \* the OnceLock, 0 before it is computed
    code,
    stop,               \* history: when the first signal or failure came, 0 before
    looked_up           \* history: when the lookup of a host name ended, 0 before

startup == <<input, probe, looked_up>>
process == <<pc, deadline, code, startup>>
server == <<lifecycle, http, failed, drain_start, open>>
lvars == <<clock, process, signalled, root, server, worker, stop>>

Outcomes == {"listener_failed", "deadline_exceeded", "drained"}

\* run_with before the shutdown watch.
Starting == {"parse", "probe", "request", "body", "poll_delay", "labels", "watch"}

LInit ==
    /\ clock = 1 /\ pc = "parse"
    /\ \E i \in Inputs : input = {i}
    /\ probe = 0 /\ looked_up = 0
    /\ signalled = 0 /\ root = FALSE
    /\ lifecycle = "run" /\ http = "none" /\ failed = FALSE /\ drain_start = 0 /\ open = {}
    /\ worker = [w \in Worker |-> "none"]
    /\ deadline = 0 /\ code = 0 /\ stop = 0

Stopping == stop' = IF stop = 0 THEN clock ELSE stop

-----------------------------------------------------------------------------
(* Startup *)

\* A name, unlike an address, is looked up.
HostName(address) == \E a \in split_host_port(address) : Has(Unscoped(a[1]), "a")

Given == CHOOSE i \in input : TRUE

\* Exit::early.
ExitEarly(exit_code) ==
    /\ pc' = "exited" /\ code' = exit_code /\ input' = {}
    /\ UNCHANGED <<clock, deadline, probe, looked_up, signalled, root, server, worker, stop>>

Continue(next) ==
    /\ pc' = next
    /\ UNCHANGED <<clock, deadline, code, startup, signalled, root, server, worker, stop>>

parse ==
    /\ pc = "parse"
    /\ \/ refuse_single_dash(Given.arguments) /\ ExitEarly(2)
       \/ /\ ~refuse_single_dash(Given.arguments)
          /\ \E answer \in ClapAnswers(Given) :
                 CASE answer = "help" -> ExitEarly(0)
                   [] answer = "error" -> ExitEarly(2)
                   [] OTHER -> Continue(IF Given.healthcheck THEN "probe" ELSE "poll_delay")

\* One deadline for the request and the body.
run_healthcheck ==
    /\ pc = "probe"
    /\ IF Targets(Given.listen_addr) = {} THEN ExitEarly(1)
       ELSE /\ pc' = "request" /\ probe' = clock + ProbeTimeout /\ input' = {}
            /\ UNCHANGED <<clock, deadline, code, looked_up, signalled, root, server, worker, stop>>

\* 200, an error, or a status with a body.
Answer == pc = "request" /\ (Continue("body") \/ \E exit_code \in 0 .. 1 : ExitEarly(exit_code))

RequestTimesOut == pc = "request" /\ clock >= probe /\ ExitEarly(1)

\* The body ended, failed, reached HEALTHCHECK_REASON_LIMIT, or the deadline came.
ReadReason == pc = "body" /\ ExitEarly(1)

CheckPollDelay ==
    /\ pc = "poll_delay"
    /\ IF check_poll_delay(Given.poll_delay) THEN Continue("labels") ELSE ExitEarly(1)

CheckLabels ==
    /\ pc = "labels"
    /\ IF validate_custom_labels(Given.labels) THEN Continue("watch") ELSE ExitEarly(1)

\* Before the watch no handler is installed.
SignalKills == pc \in Starting /\ Continue("killed")

watch_shutdown == pc = "watch" /\ Continue("settings")

\* The environment is refused; Client::new may fail as well.
NoSettings == pc = "settings" /\ ~settings_from_env(Given.env) /\ ExitEarly(1)
NoClient == pc = "settings" /\ settings_from_env(Given.env) /\ ExitEarly(1)

\* What is left of the input is the address: how its bind begins.
start_workers ==
    /\ pc = "settings" /\ settings_from_env(Given.env)
    /\ worker' = [w \in Worker |-> "running"]
    /\ pc' = IF bind_address(Given.listen_addr, TRUE) = {} THEN "malformed"
             ELSE IF HostName(Given.listen_addr) THEN "lookup" ELSE "bind"
    /\ input' = {}
    /\ UNCHANGED <<clock, deadline, code, probe, looked_up, signalled, root, server, stop>>

-----------------------------------------------------------------------------
(* The signal and the workers *)

\* The time is stored before the token is cancelled.
Signal ==
    /\ pc \notin Starting \cup {"exited", "killed"} /\ signalled = 0 /\ clock <= MaxStop
    /\ signalled' = clock /\ Stopping
    /\ UNCHANGED <<clock, process, root, server, worker>>

CancelRoot ==
    /\ signalled # 0 /\ ~root /\ pc # "exited"
    /\ root' = TRUE
    /\ UNCHANGED <<clock, process, signalled, server, worker, stop>>

\* A cancelled worker returns, some time; one that panics returned too.
WorkerReturns(w) ==
    /\ worker[w] = "running" /\ pc # "exited"
    /\ worker' = [worker EXCEPT ![w] = "returned"]
    /\ UNCHANGED <<clock, process, signalled, root, server, stop>>

-----------------------------------------------------------------------------
(* The HTTP server *)

OpenConnection(c) ==
    /\ http = "accepting" /\ c \notin open
    /\ open' = open \cup {c}
    /\ UNCHANGED <<clock, process, signalled, root, lifecycle, http, failed, drain_start,
                   worker, stop>>

CloseConnection(c) ==
    /\ c \in open
    /\ open' = open \ {c}
    /\ UNCHANGED <<clock, process, signalled, root, lifecycle, http, failed, drain_start,
                   worker, stop>>

\* The server stops its own lifecycle and drains.
AcceptFails ==
    /\ http = "accepting" /\ clock <= MaxStop
    /\ failed' = TRUE /\ http' = "draining" /\ drain_start' = clock
    /\ lifecycle' = IF lifecycle = "run" THEN "stop" ELSE lifecycle
    /\ Stopping
    /\ UNCHANGED <<clock, process, signalled, root, open, worker>>

StartDrain ==
    /\ http = "accepting" /\ lifecycle # "run"
    /\ http' = "draining" /\ drain_start' = clock
    /\ UNCHANGED <<clock, process, signalled, root, lifecycle, failed, open, worker, stop>>

DrainEnds ==
    /\ http = "draining"
    /\ \/ open = {} /\ http' = IF failed THEN "listener_failed" ELSE "drained"
       \/ /\ open # {} /\ (lifecycle = "cut" \/ clock >= drain_start + Budget)
          /\ http' = IF failed THEN "listener_failed" ELSE "deadline_exceeded"
    /\ open' = {}
    /\ UNCHANGED <<clock, process, signalled, root, lifecycle, failed, drain_start, worker,
                   stop>>

-----------------------------------------------------------------------------
(* serve_until_done *)

\* What the closure run_with passes computes, once.
Deadline ==
    IF deadline # 0 THEN deadline
    ELSE (IF signalled # 0 THEN signalled ELSE clock) + Budget

BindFails ==
    /\ http' = "listener_failed" /\ failed' = TRUE /\ pc' = "served"
    /\ Stopping

\* resolve: the lookup takes its time and may fail; nothing interrupts it.
resolve ==
    /\ pc = "lookup"
    /\ looked_up' = clock
    /\ \/ pc' = "bind" /\ UNCHANGED <<http, failed, stop>>
       \/ (clock <= MaxStop \/ signalled # 0) /\ BindFails
    /\ UNCHANGED <<clock, deadline, code, input, probe, signalled, root, lifecycle, drain_start,
                   open, worker>>

bind ==
    /\ \/ pc = "malformed" /\ BindFails
       \/ pc = "bind" /\ clock <= MaxStop /\ BindFails
       \/ /\ pc = "bind" /\ http' = "accepting" /\ pc' = "select"
          /\ UNCHANGED <<failed, stop>>
    /\ UNCHANGED <<clock, deadline, code, startup, signalled, root, lifecycle, drain_start, open,
                   worker>>

\* serve_listener's first select: the server finished, root was cancelled, or the
\* server stopped itself.
Select ==
    /\ pc = "select"
    /\ \/ /\ http \in Outcomes
          /\ pc' = "served" /\ UNCHANGED <<lifecycle, deadline>>
       \/ /\ root
          /\ lifecycle' = "stop"
          /\ deadline' = Deadline /\ pc' = "drain"
       \/ /\ lifecycle = "stop"
          /\ deadline' = Deadline /\ pc' = "drain"
          /\ UNCHANGED lifecycle
    /\ UNCHANGED <<clock, code, startup, signalled, root, http, failed, drain_start, open, worker, stop>>

\* The second select: the drain ended, or it is cut at the deadline.
Drain ==
    /\ pc = "drain"
    /\ \/ http \in Outcomes /\ pc' = "served" /\ UNCHANGED lifecycle
       \/ clock >= deadline /\ lifecycle' = "cut" /\ pc' = "cut"
    /\ UNCHANGED <<clock, deadline, code, startup, signalled, root, http, failed, drain_start, open,
                   worker, stop>>

Cut ==
    /\ pc = "cut" /\ http \in Outcomes
    /\ pc' = "served"
    /\ UNCHANGED <<clock, deadline, code, startup, signalled, root, server, worker, stop>>

\* Slip: the wait for the workers has a budget of its own.
ServedThenWaits ==
    /\ pc = "served"
    /\ code' = IF http = "listener_failed" THEN 1 ELSE 0
    /\ deadline' = clock + Budget
    /\ root' = TRUE /\ pc' = "join"
    /\ UNCHANGED <<clock, startup, signalled, server, worker, stop>>

\* The exit code, and the workers are told to stop.
Served ==
    /\ pc = "served"
    /\ code' = IF http = "listener_failed" THEN 1 ELSE 0
    /\ deadline' = Deadline
    /\ root' = TRUE /\ pc' = "join"
    /\ UNCHANGED <<clock, startup, signalled, server, worker, stop>>

\* Slip: the first worker to return ends the wait.
JoinFirst ==
    /\ pc = "join"
    /\ (\E w \in Worker : worker[w] = "returned") \/ clock >= deadline
    /\ pc' = "exited"
    /\ UNCHANGED <<clock, deadline, code, startup, signalled, root, server, worker, stop>>

\* Slip: the wait is not bounded.
JoinAll ==
    /\ pc = "join"
    /\ \A w \in Worker : worker[w] = "returned"
    /\ pc' = "exited"
    /\ UNCHANGED <<clock, deadline, code, startup, signalled, root, server, worker, stop>>

\* Workers::join under timeout_at.
Join ==
    /\ pc = "join"
    /\ (\A w \in Worker : worker[w] = "returned") \/ clock >= deadline
    /\ pc' = "exited"
    /\ UNCHANGED <<clock, deadline, code, startup, signalled, root, server, worker, stop>>

-----------------------------------------------------------------------------

\* A step of the process or the server that waits for nothing.
Ready ==
    \/ pc \in (Starting \ {"request", "body"}) \cup {"settings", "malformed", "bind", "served", "cut"}
    \/ pc \in {"request", "body"} /\ clock >= probe
    \/ signalled # 0 /\ ~root /\ pc # "exited"
    \/ http = "accepting" /\ lifecycle # "run"
    \/ http = "draining" /\ (open = {} \/ clock >= drain_start + Budget)
    \/ pc = "select" /\ (root \/ lifecycle = "stop" \/ http \in Outcomes)
    \/ pc = "drain" /\ (clock >= deadline \/ http \in Outcomes)
    \/ pc = "join" /\ (clock >= deadline \/ \A w \in Worker : worker[w] = "returned")

Tick ==
    /\ clock < MaxTime /\ ~Ready
    /\ clock' = clock + 1
    /\ UNCHANGED <<process, signalled, root, server, worker, stop>>

Rest == pc \in {"exited", "killed"} /\ UNCHANGED lvars

Progress ==
    \/ parse \/ run_healthcheck \/ RequestTimesOut \/ (clock >= probe /\ ReadReason)
    \/ CheckPollDelay \/ CheckLabels \/ watch_shutdown \/ NoSettings \/ start_workers
    \/ CancelRoot \/ StartDrain \/ DrainEnds \/ bind \/ Select \/ Drain \/ Cut \/ Served \/ Join

LNext ==
    \/ Progress \/ Tick \/ Rest
    \/ Answer \/ ReadReason \/ resolve \/ SignalKills \/ NoClient \/ Signal \/ AcceptFails
    \/ \E w \in Worker : WorkerReturns(w)
    \/ \E c \in Client : OpenConnection(c) \/ CloseConnection(c)

LSpec == LInit /\ [][LNext]_lvars

\* The runtime runs what is ready and time passes; no client and no worker owes
\* anything.
LFairSpec == LSpec /\ WF_lvars(Progress) /\ WF_lvars(Tick)

-----------------------------------------------------------------------------
(* Properties of the start *)

\* refuse_single_dash lets clap see no single-dash argument longer than one
\* character where it looks for a flag, and refuses none that is the value of a
\* flag: an argument is a value if an odd number of value flags stands right
\* before it, and "--" ends the flags unless it is a value itself.
PreScanIsExact ==
    pc = "parse" =>
        LET arguments == Given.arguments
            Value(i) == \E n \in 1 .. i - 1 :
                           /\ n % 2 = 1
                           /\ \A j \in i - n .. i - 1 : TakesValue(arguments[j])
                           /\ n = i - 1 \/ ~TakesValue(arguments[i - n - 1])
            Flag(i) == /\ ~Value(i)
                       /\ \A j \in 1 .. i - 1 : arguments[j] = Terminator => Value(j)
        IN  refuse_single_dash(arguments) <=>
                \E i \in DOMAIN arguments : Flag(i) /\ Cluster(arguments[i])

\* The probe of the image's HEALTHCHECK connects to where an exporter with the same
\* listen address listens, with and without IPv6: "any other host is kept, since the
\* exporter listens there only".  Two kinds of address are excepted.  A zone is escaped
\* in the URL and the client does not read the escape back, so the probe of a healthy
\* exporter on such an address fails; and an unspecified IPv6 address is listened on
\* with IPv4 where there is no IPv6, while the probe goes on asking IPv6.
ProbeReachesServer ==
    pc = "parse" =>
        \A ipv6 \in BOOLEAN : \A bound \in bind_address(Given.listen_addr, ipv6) :
            \/ \E target \in Targets(Given.listen_addr) : Reaches(target, bound)
            \/ Has(Given.listen_addr, "%")
            \/ ~ipv6 /\ \E a \in split_host_port(Given.listen_addr) : Has(a[1], ":")

\* No series of an exporter with accepted labels fails to be built or panics in
\* `must`: every family has distinct valid label names, every label set written to
\* it has exactly these, and no custom label replaces a service's own.
FamiliesFit ==
    pc = "watch" =>
        \A w \in Written(Given.labels) :
            /\ Fits(w[1], w[2]) /\ IsInjective(w[1])
            /\ \A name \in Range(w[1]) : is_valid_label_name(name)
            /\ \A name \in Range(BASE) : w[2][name] = [field |-> name]
            /\ \A i \in DOMAIN Given.labels :
                   w[2][sanitize_name(Given.labels[i])] = [raw |-> Given.labels[i]]

-----------------------------------------------------------------------------
(* Properties of the end *)

\* "The time from the shutdown signal to the exit": drain and join together end
\* within one budget of the first signal or server failure, whoever comes first
\* and whatever clients and workers do.  Only the lookup of a host name is not
\* interrupted; a process it kept past the budget exits as soon as it ends.
StopsInTime ==
    stop # 0 /\ pc \notin {"exited", "lookup"} => clock <= stop + Budget \/ clock = looked_up

\* The exit tells what happened.  A served exporter exits with 1 exactly if its server
\* failed on its own, also when a signal arrives while a failed server drains; and if
\* it exits before the deadline, no connection was cut and no worker left behind.
ExitTellsWhatHappened ==
    pc = "exited" /\ deadline # 0 =>
        /\ code = 1 <=> failed
        /\ code = 0 => signalled # 0
        /\ clock < deadline =>
             /\ http # "deadline_exceeded" /\ lifecycle # "cut"
             /\ \A w \in Worker : worker[w] = "returned"

\* A signal or a failed server always ends the process, with clients that never
\* close and workers that never return; only a lookup that never ends holds it.
StopEnds ==
    /\ stop # 0 ~> pc \in {"exited", "lookup"}
    /\ stop # 0 /\ http # "none" ~> pc = "exited"

=============================================================================
