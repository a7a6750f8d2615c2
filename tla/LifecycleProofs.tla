--------------------------- MODULE LifecycleProofs ---------------------------
(***************************************************************************)
(* Proofs about the process (Lifecycle), for every command line, list of   *)
(* custom labels, listen address, budget, set of workers and clients and   *)
(* order of their steps:                                                   *)
(*  - it stops within one budget of the first signal or failure, and the   *)
(*    exit code tells what happened;                                       *)
(*  - the health check asks where the server listens (CommandLine);        *)
(*  - the pre-scan refuses exactly what clap would misread (CommandLine);  *)
(*  - accepted labels fit every family (Labels).                           *)
(* The last two are about loops over sequences of any length, the code's   *)
(* `for`, here recursive functions: that such a function has the values    *)
(* its equation says follows from the least-element principle.             *)
(***************************************************************************)
EXTENDS Lifecycle, FiniteSetTheorems, WellFoundedInduction, TLAPS

\* Where run_with and serve_until_done are, before and after the deadline is known.
Early == Starting \cup {"killed", "settings", "malformed", "lookup", "bind", "select"}
Late == {"drain", "cut", "served", "join", "exited"}

\* The times: the deadline is the first signal or failure plus the budget, whoever
\* computes it, because nothing waits between a failure and that computation.
TimeInv ==
    /\ clock \in Nat \ {0} /\ stop \in Nat /\ signalled \in Nat /\ deadline \in Nat
    /\ drain_start \in Nat
    /\ stop <= clock
    /\ stop = 0 => signalled = 0 /\ deadline = 0 /\ ~root
    /\ deadline # 0 => deadline = stop + Budget
    /\ stop # 0 /\ deadline = 0 /\ signalled # stop =>
         signalled = 0 /\ failed /\ clock = stop /\ pc \in {"select", "served"}

\* Where the process is, against the deadline and the server.
PlaceInv ==
    /\ pc \in Early \cup Late
    /\ pc \in Starting \cup {"killed"} => stop = 0
    /\ pc \in Early => deadline = 0
    /\ pc \in {"drain", "cut", "join"} => deadline # 0
    /\ pc \in {"served", "join"} => http \in Outcomes
    /\ pc = "exited" /\ deadline # 0 => http \in Outcomes
    /\ http \in {"accepting", "draining"} => pc \in {"select", "drain", "cut"}
    /\ pc \in Early \ {"select"} => lifecycle = "run" /\ ~failed
    /\ pc = "select" => lifecycle # "cut" /\ (failed => lifecycle = "stop")
    /\ pc \in {"drain", "cut"} => lifecycle # "run"

\* The server: it drains, fails or is cut only after the signal or a failure, and no
\* connection is cut before the budget is over.
ServerInv ==
    /\ failed \in BOOLEAN /\ root \in BOOLEAN /\ lifecycle \in {"run", "stop", "cut"}
    /\ failed \/ lifecycle # "run" \/ http \in Outcomes \cup {"draining"} => stop # 0
    /\ lifecycle # "run" \/ http \in Outcomes \cup {"draining"} => failed \/ signalled # 0
    /\ root /\ pc \notin {"join", "exited"} => signalled # 0
    /\ http \in Outcomes => (http = "listener_failed" <=> failed)
    /\ http = "draining" => drain_start >= stop
    /\ lifecycle = "cut" \/ http = "deadline_exceeded" => clock >= stop + Budget

\* What the exit code and the workers were when serve_until_done ended.
ExitInv ==
    /\ pc = "join" \/ (pc = "exited" /\ deadline # 0) =>
         code \in {0, 1} /\ (code = 1 <=> failed) /\ (code = 0 => signalled # 0)
    /\ pc = "exited" /\ deadline # 0 =>
         clock >= deadline \/ \A w \in Worker : worker[w] = "returned"

LInv == TimeInv /\ PlaceInv /\ ServerInv /\ ExitInv /\ StopsInTime

-----------------------------------------------------------------------------
(* Startup *)

\* An early exit, before anything is served, leaves the promises alone (Exit::early).
LEMMA ExitEarlyKeeps ==
    ASSUME LInv, pc \in Starting \cup {"settings"}, NEW exit_code, ExitEarly(exit_code)
    PROVE  LInv'
<1>1. /\ pc' = "exited"
      /\ UNCHANGED <<clock, deadline, looked_up, signalled, root, lifecycle, http, failed,
                     drain_start, worker, stop>>
  BY Zenon DEF ExitEarly, server
<1> QED
  BY <1>1, LifecycleAssumption
  DEF LInv, TimeInv, PlaceInv, ServerInv, ExitInv, StopsInTime, Early, Late, Starting,
      Outcomes

\* So does the next step of the startup, or a signal without a handler.
LEMMA ContinueKeeps ==
    ASSUME LInv, pc \in Starting, NEW next \in Starting \cup {"killed", "settings"},
           Continue(next)
    PROVE  LInv'
<1>1. /\ pc' = next
      /\ UNCHANGED <<clock, deadline, code, looked_up, signalled, root, lifecycle, http, failed,
                     drain_start, worker, stop>>
  BY Zenon DEF Continue, server, startup
<1> QED
  BY <1>1, LifecycleAssumption
  DEF LInv, TimeInv, PlaceInv, ServerInv, ExitInv, StopsInTime, Early, Late, Starting,
      Outcomes

-----------------------------------------------------------------------------
(* From the workers to the exit *)

\* Nothing is served yet when the workers start (run_with).
LEMMA StartWorkersKeeps ==
    ASSUME LInv, start_workers
    PROVE  LInv'
<1>1. /\ pc = "settings" /\ pc' \in {"malformed", "lookup", "bind"}
      /\ UNCHANGED <<clock, deadline, code, looked_up, signalled, root, lifecycle, http,
                    failed, drain_start, stop>>
  BY Zenon DEF start_workers, server
<1> QED
  BY <1>1, LifecycleAssumption
  DEF LInv, TimeInv, PlaceInv, ServerInv, ExitInv, StopsInTime, Early, Late, Starting,
      Outcomes

\* The signal sets the time the budget counts from, unless a failure did.
LEMMA SignalKeeps ==
    ASSUME LInv, Signal
    PROVE  LInv'
<1>1. /\ pc \notin Starting \cup {"exited", "killed"} /\ signalled = 0
      /\ signalled' = clock /\ stop' = IF stop = 0 THEN clock ELSE stop
      /\ UNCHANGED <<clock, pc, deadline, code, looked_up, root, lifecycle, http, failed,
                    drain_start, worker>>
  BY Zenon DEF Signal, Stopping, process, server, startup
<1> QED
  BY <1>1, LifecycleAssumption
  DEF LInv, TimeInv, PlaceInv, ServerInv, ExitInv, StopsInTime, Early, Late, Starting,
      Outcomes

\* The token is cancelled after the signal.
LEMMA CancelRootKeeps ==
    ASSUME LInv, CancelRoot
    PROVE  LInv'
<1>1. /\ signalled # 0 /\ pc # "exited" /\ root' = TRUE
      /\ UNCHANGED <<clock, pc, deadline, code, looked_up, signalled, lifecycle, http, failed,
                    drain_start, worker, stop>>
  BY Zenon DEF CancelRoot, process, server, startup
<1> QED
  BY <1>1, LifecycleAssumption
  DEF LInv, TimeInv, PlaceInv, ServerInv, ExitInv, StopsInTime, Early, Late, Starting,
      Outcomes

\* A server that fails drains, and starts the budget unless a signal did.
LEMMA AcceptFailsKeeps ==
    ASSUME LInv, AcceptFails
    PROVE  LInv'
<1>1. /\ http = "accepting" /\ http' = "draining" /\ drain_start' = clock
      /\ failed' /\ failed' \in BOOLEAN
      /\ lifecycle' = IF lifecycle = "run" THEN "stop" ELSE lifecycle
      /\ stop' = IF stop = 0 THEN clock ELSE stop
      /\ UNCHANGED <<clock, pc, deadline, code, looked_up, signalled, root, worker>>
  BY Zenon DEF AcceptFails, Stopping, process, startup
<1> QED
  BY <1>1, LifecycleAssumption
  DEF LInv, TimeInv, PlaceInv, ServerInv, ExitInv, StopsInTime, Early, Late, Starting,
      Outcomes

\* A server that is told to stop drains.
LEMMA StartDrainKeeps ==
    ASSUME LInv, StartDrain
    PROVE  LInv'
<1>1. /\ http = "accepting" /\ lifecycle # "run" /\ http' = "draining" /\ drain_start' = clock
      /\ UNCHANGED <<clock, pc, deadline, code, looked_up, signalled, root, lifecycle, failed,
                    worker, stop>>
  BY Zenon DEF StartDrain, process, startup
<1> QED
  BY <1>1, LifecycleAssumption
  DEF LInv, TimeInv, PlaceInv, ServerInv, ExitInv, StopsInTime, Early, Late, Starting,
      Outcomes

\* The drain ends with the outcome the exit code is read from.
LEMMA DrainEndsKeeps ==
    ASSUME LInv, DrainEnds
    PROVE  LInv'
<1>1. /\ http = "draining"
      /\ \/ http' = IF failed THEN "listener_failed" ELSE "drained"
         \/ /\ lifecycle = "cut" \/ clock >= drain_start + Budget
            /\ http' = IF failed THEN "listener_failed" ELSE "deadline_exceeded"
      /\ UNCHANGED <<clock, pc, deadline, code, looked_up, signalled, root, lifecycle, failed,
                    drain_start, worker, stop>>
  BY Zenon DEF DrainEnds, process, startup
<1> QED
  BY <1>1, LifecycleAssumption
  DEF LInv, TimeInv, PlaceInv, ServerInv, ExitInv, StopsInTime, Early, Late, Starting,
      Outcomes

\* A cut drain ends (serve_listener).
LEMMA CutKeeps ==
    ASSUME LInv, Cut
    PROVE  LInv'
<1>1. /\ pc = "cut" /\ http \in Outcomes /\ pc' = "served"
      /\ UNCHANGED <<clock, deadline, code, looked_up, signalled, root, lifecycle, http,
                    failed, drain_start, worker, stop>>
  BY Zenon DEF Cut, startup, server
<1> QED
  BY <1>1, LifecycleAssumption
  DEF LInv, TimeInv, PlaceInv, ServerInv, ExitInv, StopsInTime, Early, Late, Starting,
      Outcomes

\* The exit code is chosen, and the deadline is the same whoever asks (serve_until_done).
LEMMA ServedKeeps ==
    ASSUME LInv, Served
    PROVE  LInv'
<1>1. /\ pc = "served" /\ pc' = "join" /\ root' = TRUE
      /\ code' = IF http = "listener_failed" THEN 1 ELSE 0
      /\ deadline' = IF deadline # 0 THEN deadline
                     ELSE (IF signalled # 0 THEN signalled ELSE clock) + Budget
      /\ UNCHANGED <<clock, looked_up, signalled, lifecycle, http, failed, drain_start, worker,
                    stop>>
  BY Zenon DEF Served, Deadline, startup, server
<1> QED
  BY <1>1, LifecycleAssumption
  DEF LInv, TimeInv, PlaceInv, ServerInv, ExitInv, StopsInTime, Early, Late, Starting,
      Outcomes

\* The wait for the workers ends at the deadline (Workers::join).
LEMMA JoinKeeps ==
    ASSUME LInv, Join
    PROVE  LInv'
<1>1. /\ pc = "join" /\ pc' = "exited"
      /\ (\A w \in Worker : worker[w] = "returned") \/ clock >= deadline
      /\ UNCHANGED <<clock, deadline, code, looked_up, signalled, root, lifecycle, http,
                    failed, drain_start, worker, stop>>
  BY Zenon DEF Join, startup, server
<1> QED
  BY <1>1, LifecycleAssumption
  DEF LInv, TimeInv, PlaceInv, ServerInv, ExitInv, StopsInTime, Early, Late, Starting,
      Outcomes

\* The drain is cut at the deadline (serve_listener's second select).
LEMMA DrainKeeps ==
    ASSUME LInv, Drain
    PROVE  LInv'
<1>1. /\ pc = "drain"
      /\ \/ http \in Outcomes /\ pc' = "served" /\ lifecycle' = lifecycle
         \/ clock >= deadline /\ lifecycle' = "cut" /\ pc' = "cut"
      /\ UNCHANGED <<clock, deadline, code, looked_up, signalled, root, http, failed,
                    drain_start, worker, stop>>
  BY Zenon DEF Drain, startup
<1> QED
  BY <1>1, LifecycleAssumption
  DEF LInv, TimeInv, PlaceInv, ServerInv, ExitInv, StopsInTime, Early, Late, Starting,
      Outcomes

\* serve_listener's first select computes the deadline when it starts a drain.
LEMMA SelectKeeps ==
    ASSUME LInv, Select
    PROVE  LInv'
<1>1. /\ pc = "select"
      /\ \/ http \in Outcomes /\ pc' = "served" /\ UNCHANGED <<lifecycle, deadline>>
         \/ /\ root \/ lifecycle = "stop"
            /\ lifecycle' = "stop" /\ pc' = "drain"
            /\ deadline' = IF deadline # 0 THEN deadline
                           ELSE (IF signalled # 0 THEN signalled ELSE clock) + Budget
      /\ UNCHANGED <<clock, code, looked_up, signalled, root, http, failed, drain_start,
                    worker, stop>>
  BY Zenon DEF Select, Deadline, startup
<1> QED
  BY <1>1, LifecycleAssumption
  DEF LInv, TimeInv, PlaceInv, ServerInv, ExitInv, StopsInTime, Early, Late, Starting,
      Outcomes

\* Binding fails or begins to accept (bind, serve_until_done).
LEMMA BindKeeps ==
    ASSUME LInv, bind
    PROVE  LInv'
<1>1. /\ pc \in {"malformed", "bind"}
      /\ \/ /\ http' = "listener_failed" /\ failed' /\ failed' \in BOOLEAN /\ pc' = "served"
            /\ stop' = IF stop = 0 THEN clock ELSE stop
         \/ http' = "accepting" /\ pc' = "select" /\ UNCHANGED <<failed, stop>>
      /\ UNCHANGED <<clock, deadline, code, looked_up, signalled, root, lifecycle, drain_start,
                    worker>>
  BY Zenon DEF bind, BindFails, Stopping, startup
<1> QED
  BY <1>1, LifecycleAssumption
  DEF LInv, TimeInv, PlaceInv, ServerInv, ExitInv, StopsInTime, Early, Late, Starting,
      Outcomes

\* The lookup ends: what it kept past the budget is over at once (resolve).
LEMMA ResolveKeeps ==
    ASSUME LInv, resolve
    PROVE  LInv'
<1>1. /\ pc = "lookup" /\ looked_up' = clock
      /\ \/ pc' = "bind" /\ UNCHANGED <<http, failed, stop>>
         \/ /\ http' = "listener_failed" /\ failed' /\ failed' \in BOOLEAN /\ pc' = "served"
            /\ stop' = IF stop = 0 THEN clock ELSE stop
      /\ UNCHANGED <<clock, deadline, code, signalled, root, lifecycle, drain_start, worker>>
  BY Zenon DEF resolve, BindFails, Stopping
<1> QED
  BY <1>1, LifecycleAssumption
  DEF LInv, TimeInv, PlaceInv, ServerInv, ExitInv, StopsInTime, Early, Late, Starting,
      Outcomes

\* Time passes only when nothing is ready: before the deadline of a drain or a join, so
\* never past it (the select! of serve_listener, timeout_at).
LEMMA TickKeeps ==
    ASSUME LInv, Tick
    PROVE  LInv'
<1>1. /\ clock' = clock + 1
      /\ UNCHANGED <<pc, deadline, code, looked_up, signalled, root, lifecycle, http, failed,
                     drain_start, worker, stop>>
  BY Zenon DEF Tick, process, startup, server
<1>2. /\ pc \notin (Starting \ {"request", "body"})
                     \cup {"settings", "malformed", "bind", "served", "cut"}
      /\ signalled # 0 /\ ~root => pc = "exited"
      /\ pc = "select" => ~root /\ lifecycle # "stop"
      /\ pc \in {"drain", "join"} => ~(clock >= deadline)
  BY Zenon DEF Tick, Ready
<1> QED
  BY <1>1, <1>2, LifecycleAssumption
  DEF LInv, TimeInv, PlaceInv, ServerInv, ExitInv, StopsInTime, Early, Late, Starting,
      Outcomes

\* Workers that return and clients that come and go change nothing that is promised.
LEMMA OthersKeep ==
    ASSUME LInv,
           \/ UNCHANGED lvars
           \/ \E w \in Worker : WorkerReturns(w)
           \/ \E c \in Client : OpenConnection(c) \/ CloseConnection(c)
    PROVE  LInv'
<1>1. /\ UNCHANGED <<clock, pc, deadline, code, looked_up, signalled, root, lifecycle, http,
                     failed, drain_start, stop>>
      /\ pc = "exited" => worker' = worker
  BY Zenon DEF lvars, WorkerReturns, OpenConnection, CloseConnection, process, startup, server
<1> QED
  BY <1>1, LifecycleAssumption
  DEF LInv, TimeInv, PlaceInv, ServerInv, ExitInv, StopsInTime, Early, Late, Starting,
      Outcomes

\* The steps of the startup are early exits and next steps; the probe and the workers
\* start (run_with).
LEMMA StartupKeeps ==
    ASSUME LInv,
           \/ parse \/ run_healthcheck \/ Answer \/ RequestTimesOut \/ ReadReason
           \/ CheckPollDelay \/ CheckLabels \/ SignalKills \/ watch_shutdown
           \/ NoSettings \/ NoClient
    PROVE  LInv'
<1>1. {"parse", "probe", "request", "body", "poll_delay", "labels", "watch"} = Starting
  BY Zenon DEF Starting
<1>2. ASSUME pc \in Starting \cup {"settings"}, \E exit_code : ExitEarly(exit_code)
      PROVE  LInv'
  BY Zenon, <1>2, ExitEarlyKeeps
<1>3. ASSUME pc \in Starting,
             \E next \in Starting \cup {"killed", "settings"} : Continue(next)
      PROVE  LInv'
  BY Zenon, <1>3, ContinueKeeps
<1>4. CASE parse
  <2>1. \/ \E exit_code : ExitEarly(exit_code)
        \/ Continue("probe") \/ Continue("poll_delay")
    BY Zenon, <1>4 DEF parse
  <2> QED
    BY Zenon, <1>1, <1>2, <1>3, <1>4, <2>1 DEF parse
<1>5. CASE run_healthcheck
  <2>1. CASE \E exit_code : ExitEarly(exit_code)
    BY Zenon, <1>1, <1>2, <1>5, <2>1 DEF run_healthcheck
  <2>2. CASE ~\E exit_code : ExitEarly(exit_code)
    <3>1. /\ pc = "probe" /\ pc' = "request"
          /\ UNCHANGED <<clock, deadline, code, looked_up, signalled, root, lifecycle, http,
                         failed, drain_start, worker, stop>>
      BY Zenon, <1>5, <2>2 DEF run_healthcheck, server
    <3> QED
      BY <3>1, LifecycleAssumption
      DEF LInv, TimeInv, PlaceInv, ServerInv, ExitInv, StopsInTime, Early, Late, Starting,
          Outcomes
  <2> QED
    BY Zenon, <2>1, <2>2
<1>6. CASE Answer
  BY Zenon, <1>1, <1>2, <1>3, <1>6 DEF Answer
<1>7. CASE RequestTimesOut \/ ReadReason \/ NoSettings \/ NoClient
  BY Zenon, <1>1, <1>2, <1>7 DEF RequestTimesOut, ReadReason, NoSettings, NoClient
<1>8. CASE CheckPollDelay \/ CheckLabels
  BY Zenon, <1>1, <1>2, <1>3, <1>8 DEF CheckPollDelay, CheckLabels
<1>9. CASE SignalKills \/ watch_shutdown
  BY Zenon, <1>1, <1>3, <1>9 DEF SignalKills, watch_shutdown
<1> QED
  BY Zenon, <1>4, <1>5, <1>6, <1>7, <1>8, <1>9

-----------------------------------------------------------------------------

\* The inductive invariant, over every step of the process.
LEMMA LifecycleInvariant == LSpec => []LInv
<1>1. LInit => LInv
  <2> SUFFICES ASSUME LInit PROVE LInv
    OBVIOUS
  <2>1. /\ clock = 1 /\ pc = "parse" /\ signalled = 0 /\ lifecycle = "run" /\ http = "none"
        /\ drain_start = 0 /\ deadline = 0 /\ stop = 0
        /\ ~root /\ root \in BOOLEAN /\ ~failed /\ failed \in BOOLEAN
    BY Zenon DEF LInit
  <2> QED
    BY <2>1, LifecycleAssumption
    DEF LInv, TimeInv, PlaceInv, ServerInv, ExitInv, StopsInTime, Early, Late, Starting,
        Outcomes
<1>2. LInv /\ [LNext]_lvars => LInv'
  <2> SUFFICES ASSUME LInv, [LNext]_lvars PROVE LInv'
    OBVIOUS
  <2>1. CASE Progress
    BY Zenon, <2>1, StartupKeeps, StartWorkersKeeps, CancelRootKeeps, StartDrainKeeps,
       DrainEndsKeeps, BindKeeps, SelectKeeps, DrainKeeps, CutKeeps, ServedKeeps, JoinKeeps
    DEF Progress
  <2>2. CASE Tick
    BY Zenon, <2>2, TickKeeps
  <2>3. CASE Rest \/ UNCHANGED lvars
    BY Zenon, <2>3, OthersKeep DEF Rest
  <2>4. CASE Answer \/ ReadReason \/ SignalKills \/ NoClient
    BY Zenon, <2>4, StartupKeeps
  <2>5. CASE resolve \/ Signal \/ AcceptFails
    BY Zenon, <2>5, ResolveKeeps, SignalKeeps, AcceptFailsKeeps
  <2>6. CASE \/ \E w \in Worker : WorkerReturns(w)
             \/ \E c \in Client : OpenConnection(c) \/ CloseConnection(c)
    BY Zenon, <2>6, OthersKeep
  <2> QED
    BY Zenon, <2>1, <2>2, <2>3, <2>4, <2>5, <2>6 DEF LNext
<1> QED
  BY <1>1, <1>2, PTL DEF LSpec

\* Drain and join together end within one budget of the first signal or server failure,
\* whatever clients and workers do (serve_until_done, serve_listener, Workers::join).
THEOREM StopCorrect == LSpec => []StopsInTime
<1>1. LInv => StopsInTime
  BY Zenon DEF LInv
<1> QED
  BY <1>1, LifecycleInvariant, PTL

\* The exit code is 1 exactly if the server failed on its own, and an exit before the
\* deadline cut no connection and left no worker behind (serve_until_done).
THEOREM ExitCorrect == LSpec => []ExitTellsWhatHappened
<1>1. LInv => ExitTellsWhatHappened
  BY LifecycleAssumption
  DEF LInv, TimeInv, PlaceInv, ServerInv, ExitInv, Outcomes, ExitTellsWhatHappened
<1> QED
  BY <1>1, LifecycleInvariant, PTL

-----------------------------------------------------------------------------
(* Induction over the naturals, for sets of numbers instead of a predicate. *)

\* Every set of naturals that is not empty has a least element.
LEMMA LeastNatural ==
    ASSUME NEW T, T \subseteq Nat, T # {}
    PROVE  \E x \in T : \A y \in T : x <= y
<1> DEFINE R == OpToRel(<, Nat)
<1>1. IsWellFoundedOn(R, Nat)
  BY Zenon, NatLessThanWellFounded
<1>2. \A x, y \in Nat : y < x => <<y, x>> \in R
  BY DEF OpToRel
<1> HIDE DEF R
<1>3. PICK x \in T : \A y \in T : ~(<<y, x>> \in R)
  BY Zenon, <1>1, WFMin
<1>4. \A y \in T : ~(y < x)
  BY Zenon, <1>2, <1>3
<1> QED
  BY <1>3, <1>4

\* A set with 0 and, below N, the successor of each of its members holds all up to N.
LEMMA InductionUpTo ==
    ASSUME NEW N \in Nat, NEW S, 0 \in S,
           \A n \in Nat : n < N /\ n \in S => n + 1 \in S
    PROVE  0 .. N \subseteq S
<1> SUFFICES ASSUME ~(0 .. N \subseteq S) PROVE FALSE
  OBVIOUS
<1>1. (0 .. N) \ S \subseteq Nat /\ (0 .. N) \ S # {}
  OBVIOUS
<1>2. PICK x \in (0 .. N) \ S : \A y \in (0 .. N) \ S : x <= y
  BY Zenon, <1>1, LeastNatural
<1>3. x \in Nat /\ x # 0 /\ x <= N /\ x - 1 \in Nat /\ x - 1 < x /\ x - 1 < N /\ x = (x - 1) + 1
  BY <1>2
<1>4. x - 1 \in S
  BY <1>2, <1>3
<1> QED
  BY <1>2, <1>3, <1>4

\* f begins with base and goes on with G.
IsRecursion(f, N, V, base, G) ==
    /\ f \in [0 .. N -> V] /\ f[0] = base
    /\ \A k \in 1 .. N : f[k] = G[<<k, f[k - 1]>>]

\* There is such a function wherever G stays among the values.
LEMMA RecursionExists ==
    ASSUME NEW N \in Nat, NEW V, NEW base \in V, NEW G,
           \A k \in 1 .. N, v \in V : G[<<k, v>>] \in V
    PROVE  \E f : IsRecursion(f, N, V, base, G)
<1> DEFINE S == {n \in Nat : \E f : IsRecursion(f, n, V, base, G)}
<1>1. 0 \in S
  <2>1. IsRecursion([k \in 0 .. 0 |-> base], 0, V, base, G)
    BY DEF IsRecursion
  <2> QED
    BY Zenon, <2>1
<1>2. ASSUME NEW n \in Nat, n < N, n \in S PROVE n + 1 \in S
  <2>1. PICK f : IsRecursion(f, n, V, base, G)
    BY Zenon, <1>2
  <2> DEFINE g == [k \in 0 .. n + 1 |-> IF k = n + 1 THEN G[<<n + 1, f[n]>>] ELSE f[k]]
  <2>2. \A k \in 0 .. n : g[k] = f[k] /\ f[k] \in V
    BY <2>1 DEF IsRecursion
  <2>3. g[n + 1] = G[<<n + 1, f[n]>>] /\ g[n + 1] \in V
    <3>1. n + 1 \in 0 .. n + 1 /\ n + 1 \in 1 .. N /\ n \in 0 .. n
      BY <1>2
    <3>2. f[n] \in V
      BY Zenon, <2>2, <3>1
    <3> QED
      BY Zenon, <3>1, <3>2
  <2>4. g \in [0 .. n + 1 -> V] /\ g[0] = base
    <3>1. \A k \in 0 .. n + 1 : k = n + 1 \/ k \in 0 .. n
      OBVIOUS
    <3>2. \A k \in 0 .. n + 1 : g[k] \in V
      BY Zenon, <2>2, <2>3, <3>1
    <3>3. 0 \in 0 .. n /\ f[0] = base
      BY <2>1 DEF IsRecursion
    <3> QED
      BY Zenon, <2>2, <3>2, <3>3
  <2>5. ASSUME NEW k \in 1 .. n + 1 PROVE g[k] = G[<<k, g[k - 1]>>]
    <3>1. CASE k = n + 1
      <4>1. k - 1 = n /\ n \in 0 .. n
        BY <3>1
      <4>2. g[k - 1] = f[n]
        BY Zenon, <4>1, <2>2
      <4> QED
        BY Zenon, <3>1, <4>2, <2>3
    <3>2. CASE k # n + 1
      <4>1. k \in 1 .. n /\ k \in 0 .. n /\ k - 1 \in 0 .. n
        BY <3>2
      <4>2. f[k] = G[<<k, f[k - 1]>>]
        BY Zenon, <4>1, <2>1 DEF IsRecursion
      <4>3. g[k] = f[k] /\ g[k - 1] = f[k - 1]
        BY Zenon, <4>1, <2>2
      <4> QED
        BY Zenon, <4>2, <4>3
    <3> QED
      BY Zenon, <3>1, <3>2
  <2> HIDE DEF g
  <2>6. IsRecursion(g, n + 1, V, base, G)
    BY Zenon, <2>4, <2>5 DEF IsRecursion
  <2>7. n + 1 \in Nat
    OBVIOUS
  <2> QED
    BY Zenon, <2>6, <2>7
<1> HIDE DEF S
<1>3. N \in S
  BY <1>1, <1>2, InductionUpTo
<1> QED
  BY <1>3 DEF S

-----------------------------------------------------------------------------
(* What the process was started with *)

\* The input is one of Inputs until it is used up, and labels were accepted when the
\* shutdown watch begins.
GivenInv ==
    /\ input \subseteq Inputs
    /\ pc \in {"parse", "probe", "poll_delay", "labels", "watch"} => input # {}
    /\ pc = "watch" => validate_custom_labels(Given.labels)

\* GivenInv is inductive.
LEMMA GivenStep ==
    GivenInv /\ [LNext]_lvars => GivenInv'
<1> SUFFICES ASSUME GivenInv, [LNext]_lvars PROVE GivenInv'
  BY Zenon
<1>1. ASSUME input' = {} \/ input' = input,
             pc' \notin {"parse", "probe", "poll_delay", "labels", "watch"}
      PROVE  GivenInv'
  BY Zenon, <1>1 DEF GivenInv
<1>2. ASSUME pc' = pc, input' = input PROVE GivenInv'
  <2>1. Given' = Given
    BY Zenon, <1>2 DEF Given
  <2> QED
    BY Zenon, <1>2, <2>1 DEF GivenInv
<1>3. ASSUME NEW exit_code, ExitEarly(exit_code) PROVE GivenInv'
  <2>1. input' = {} /\ pc' = "exited"
    BY Zenon, <1>3 DEF ExitEarly
  <2> QED
    BY <1>1, <2>1
<1>4. ASSUME NEW next \in {"probe", "poll_delay", "labels"}, Continue(next),
             pc \in {"parse", "poll_delay"}
      PROVE  GivenInv'
  <2>1. input' = input /\ pc' = next
    BY Zenon, <1>4 DEF Continue, startup
  <2>2. pc' # "watch"
    BY <1>4, <2>1
  <2> QED
    BY Zenon, <1>4, <2>1, <2>2 DEF GivenInv
<1>5. ASSUME NEW next \in {"killed", "settings", "body"}, Continue(next) PROVE GivenInv'
  <2>1. input' = input /\ pc' = next
    BY Zenon, <1>5 DEF Continue, startup
  <2> QED
    BY <1>1, <1>5, <2>1
<1>6. CASE parse
  BY Zenon, <1>3, <1>4, <1>6 DEF parse
<1>7. CASE run_healthcheck
  <2>1. CASE \E exit_code : ExitEarly(exit_code)
    BY Zenon, <1>3, <2>1
  <2>2. CASE ~\E exit_code : ExitEarly(exit_code)
    <3>1. input' = {} /\ pc' = "request"
      BY Zenon, <1>7, <2>2 DEF run_healthcheck
    <3> QED
      BY <1>1, <3>1
  <2> QED
    BY Zenon, <2>1, <2>2
<1>8. CASE Answer \/ RequestTimesOut \/ ReadReason \/ NoSettings \/ NoClient
  BY Zenon, <1>3, <1>5, <1>8 DEF Answer, RequestTimesOut, ReadReason, NoSettings, NoClient
<1>9. CASE CheckPollDelay
  BY Zenon, <1>3, <1>4, <1>9 DEF CheckPollDelay
<1>10. CASE CheckLabels
  <2>1. CASE validate_custom_labels(Given.labels) /\ Continue("watch")
    <3>1. input' = input /\ pc' = "watch" /\ pc = "labels"
      BY Zenon, <1>10, <2>1 DEF Continue, startup, CheckLabels
    <3>2. Given' = Given
      BY Zenon, <3>1 DEF Given
    <3> QED
      BY Zenon, <2>1, <3>1, <3>2 DEF GivenInv
  <2> QED
    BY Zenon, <1>3, <1>10, <2>1 DEF CheckLabels
<1>11. CASE SignalKills \/ watch_shutdown
  BY Zenon, <1>5, <1>11 DEF SignalKills, watch_shutdown
<1>12. CASE start_workers
  <2>1. input' = {} /\ pc' \in {"malformed", "lookup", "bind"}
    BY Zenon, <1>12 DEF start_workers
  <2> QED
    BY <1>1, <2>1
<1>13. CASE \/ CancelRoot \/ StartDrain \/ DrainEnds \/ Tick \/ Rest \/ Signal \/ AcceptFails
            \/ UNCHANGED lvars
            \/ \E w \in Worker : WorkerReturns(w)
            \/ \E c \in Client : OpenConnection(c) \/ CloseConnection(c)
  BY Zenon, <1>2, <1>13
  DEF CancelRoot, StartDrain, DrainEnds, Tick, Rest, Signal, AcceptFails, lvars, process, startup,
      WorkerReturns, OpenConnection, CloseConnection
<1>14. CASE bind \/ Select \/ Drain \/ Cut \/ Served \/ Join \/ resolve
  <2>1. input' = input /\ pc' \in {"served", "select", "drain", "cut", "join", "exited", "bind"}
    BY Zenon, <1>14 DEF bind, BindFails, Select, Drain, Cut, Served, Join, resolve, startup
  <2> QED
    BY <1>1, <2>1
<1> QED
  BY Zenon, <1>6, <1>7, <1>8, <1>9, <1>10, <1>11, <1>12, <1>13, <1>14 DEF LNext, Progress

\* It holds from the start.
LEMMA GivenInvariant == LSpec => []GivenInv
<1>1. LInit => GivenInv
  <2> SUFFICES ASSUME LInit PROVE GivenInv
    BY Zenon
  <2>1. pc = "parse" /\ \E i \in Inputs : input = {i}
    BY Zenon DEF LInit
  <2> QED
    BY <2>1 DEF GivenInv
<1> QED
  BY <1>1, GivenStep, PTL DEF LSpec

-----------------------------------------------------------------------------
(* The probe *)

\* The last colon is where no later mark is one.
LEMMA LastColon ==
    ASSUME NEW S, NEW marks \in Seq(S), NEW c \in 1 .. Len(marks), marks[c] = ":",
           \A i \in c + 1 .. Len(marks) : marks[i] # ":"
    PROVE  Max({i \in DOMAIN marks : marks[i] = ":"}) = c
<1> DEFINE Colons == {i \in DOMAIN marks : marks[i] = ":"}
<1>1. c \in Colons /\ \A i \in Colons : i \in Nat /\ i <= c
  OBVIOUS
<1>2. c \in Nat
  OBVIOUS
<1> HIDE DEF Colons
<1>3. Max(Colons) = c
  <2>1. PICK m : m = Max(Colons)
    OBVIOUS
  <2>2. m \in Colons /\ \A i \in Colons : m >= i
    BY <1>1, <1>2, <2>1 DEF Max
  <2> QED
    BY ONLY <1>1, <1>2, <2>1, <2>2, SMT
<1> QED
  BY <1>3 DEF Colons

\* A text without a percent sign is escaped to itself.
LEMMA NothingEscaped ==
    ASSUME NEW S, NEW marks \in Seq(S), \A i \in DOMAIN marks : marks[i] # "%"
    PROVE  Escaped(marks) = marks
  BY DEF Escaped

\* An authority: d brackets on each side of the host, then a colon and the port.
IsAuthority(S, url, host, port, c, d) ==
    /\ host \in Seq(S) /\ port \in Seq(S) /\ url \in Seq(S)
    /\ c \in Nat /\ d \in Nat
    /\ Len(url) = c + Len(port) /\ c = d + Len(host) + 1 + d
    /\ url[c] = ":"
    /\ \A i \in 1 .. Len(host) : url[d + i] = host[i]
    /\ \A i \in 1 .. Len(port) : url[c + i] = port[i]
    /\ \A i \in DOMAIN port : port[i] = "1"

ReadBack(url, host, port, c, d) ==
    /\ Max({i \in DOMAIN url : url[i] = ":"}) = c
    /\ SubSeq(url, d + 1, c - (d + 1)) = host
    /\ SubSeq(url, c + 1, Len(url)) = port

\* Its last colon parts it into host and port.
LEMMA AuthorityReadBack ==
    ASSUME NEW S, NEW url, NEW host, NEW port, NEW c, NEW d,
           IsAuthority(S, url, host, port, c, d)
    PROVE  ReadBack(url, host, port, c, d)
<1> USE DEF IsAuthority
<1>1. \A i \in c + 1 .. Len(url) : url[i] # ":"
  <2> SUFFICES ASSUME NEW i \in c + 1 .. Len(url) PROVE url[i] # ":"
    OBVIOUS
  <2>1. PICK k \in 1 .. Len(port) : i = c + k
    <3>1. i - c \in 1 .. Len(port) /\ i = c + (i - c)
      OBVIOUS
    <3> QED
      BY <3>1
  <2>2. k \in DOMAIN port
    OBVIOUS
  <2>3. url[i] = "1"
    BY Zenon, <2>1, <2>2
  <2> QED
    BY <2>3
<1>2. c \in 1 .. Len(url)
  OBVIOUS
<1>3. Max({i \in DOMAIN url : url[i] = ":"}) = c
  BY Zenon, <1>1, <1>2, LastColon
<1>4. SubSeq(url, d + 1, c - (d + 1)) = host
  <2>1. /\ SubSeq(url, d + 1, c - (d + 1)) \in Seq(S)
        /\ Len(SubSeq(url, d + 1, c - (d + 1))) = Len(host)
    OBVIOUS
  <2>2. ASSUME NEW i \in 1 .. Len(host) PROVE SubSeq(url, d + 1, c - (d + 1))[i] = host[i]
    <3>1. SubSeq(url, d + 1, c - (d + 1))[i] = url[d + i]
      OBVIOUS
    <3> QED
      BY Zenon, <3>1
  <2> QED
    BY <2>1, <2>2
<1>5. SubSeq(url, c + 1, Len(url)) = port
  <2>1. /\ SubSeq(url, c + 1, Len(url)) \in Seq(S)
        /\ Len(SubSeq(url, c + 1, Len(url))) = Len(port)
    OBVIOUS
  <2>2. ASSUME NEW i \in 1 .. Len(port) PROVE SubSeq(url, c + 1, Len(url))[i] = port[i]
    <3>1. SubSeq(url, c + 1, Len(url))[i] = url[c + i]
      OBVIOUS
    <3> QED
      BY Zenon, <3>1
  <2> QED
    <3>1. PICK s \in Seq(S) : s = SubSeq(url, c + 1, Len(url))
      BY Zenon, <2>1
    <3>2. Len(s) = Len(port) /\ \A i \in 1 .. Len(port) : s[i] = port[i]
      BY Zenon, <2>1, <2>2, <3>1
    <3>3. s = port
      BY ONLY s \in Seq(S), port \in Seq(S), <3>2, SMT
    <3> QED
      BY Zenon, <3>1, <3>3
<1> QED
  BY Zenon, <1>3, <1>4, <1>5 DEF ReadBack

\* The client reads an authority without a percent sign back into its host and port.
LEMMA BracketsDialled ==
    ASSUME NEW S, {"[", "]", ":"} \subseteq S, "%" \notin S, "%25" \notin S,
           NEW host \in Seq(S), NEW port \in Seq(S),
           \A i \in DOMAIN port : port[i] = "1"
    PROVE  [host |-> host, port |-> port]
             \in Dialled(Escaped(<<"[">> \o host \o <<"]", ":">> \o port))
<1>1. PICK first \in Seq(S), close \in Seq(S) : first = <<"[">> /\ close = <<"]", ":">>
  <2>1. <<"[">> \in Seq(S) /\ <<"]", ":">> \in Seq(S)
    OBVIOUS
  <2> QED
    BY Zenon, <2>1
<1>2. Len(first) = 1 /\ Len(close) = 2
  BY <1>1
<1>4. first[1] = "[" /\ close[2] = ":"
  BY <1>1
<1>3. PICK s :
        /\ s = first \o host
        /\ s \in Seq(S) /\ Len(s) = Len(first) + Len(host)
        /\ \A i \in 1 .. Len(first) : s[i] = first[i]
        /\ \A i \in 1 .. Len(host) : s[Len(first) + i] = host[i]
  <2>1. /\ first \o host \in Seq(S) /\ Len(first \o host) = Len(first) + Len(host)
        /\ \A i \in 1 .. Len(first) : (first \o host)[i] = first[i]
        /\ \A i \in 1 .. Len(host) : (first \o host)[Len(first) + i] = host[i]
    BY ONLY first \in Seq(S), host \in Seq(S), SMT
  <2> QED
    BY Zenon, <2>1
<1>5. PICK t :
        /\ t = s \o close
        /\ t \in Seq(S) /\ Len(t) = Len(s) + Len(close)
        /\ \A i \in 1 .. Len(s) : t[i] = s[i]
        /\ \A i \in 1 .. Len(close) : t[Len(s) + i] = close[i]
  <2>1. /\ s \o close \in Seq(S) /\ Len(s \o close) = Len(s) + Len(close)
        /\ \A i \in 1 .. Len(s) : (s \o close)[i] = s[i]
        /\ \A i \in 1 .. Len(close) : (s \o close)[Len(s) + i] = close[i]
    BY ONLY close \in Seq(S), <1>3, SMT
  <2> QED
    BY Zenon, <2>1
<1>7. PICK url :
        /\ url = t \o port
        /\ url \in Seq(S) /\ Len(url) = Len(t) + Len(port)
        /\ \A i \in 1 .. Len(t) : url[i] = t[i]
        /\ \A i \in 1 .. Len(port) : url[Len(t) + i] = port[i]
  <2>1. /\ t \o port \in Seq(S) /\ Len(t \o port) = Len(t) + Len(port)
        /\ \A i \in 1 .. Len(t) : (t \o port)[i] = t[i]
        /\ \A i \in 1 .. Len(port) : (t \o port)[Len(t) + i] = port[i]
    BY ONLY <1>5, port \in Seq(S), SMT
  <2> QED
    BY Zenon, <2>1
<1>8. PICK c \in Nat : c = Len(t)
  BY ONLY <1>5, SMT
<1>9. /\ Len(url) = c + Len(port) /\ c = 1 + Len(host) + 1 + 1 /\ url[c] = ":" /\ url[1] = "["
      /\ \A i \in 1 .. Len(host) : url[1 + i] = host[i]
      /\ \A i \in 1 .. Len(port) : url[c + i] = port[i]
  <2>1. /\ c = Len(host) + 3 /\ Len(host) \in Nat /\ Len(s) = Len(host) + 1
        /\ c \in 1 .. Len(t) /\ 1 \in 1 .. Len(t) /\ 1 \in 1 .. Len(s) /\ c = Len(s) + 2
        /\ 1 \in 1 .. Len(first) /\ 2 \in 1 .. Len(close)
    BY ONLY host \in Seq(S), <1>2, <1>3, <1>5, <1>8, SMT
  <2>2. url[c] = t[c] /\ t[c] = close[2] /\ url[1] = t[1] /\ t[1] = s[1] /\ s[1] = first[1]
    BY <1>3, <1>5, <1>7, <2>1
  <2>5. url[c] = ":" /\ url[1] = "["
    BY Zenon, <1>4, <2>2
  <2>3. ASSUME NEW i \in 1 .. Len(host) PROVE url[1 + i] = host[i]
    <3>1. 1 + i \in 1 .. Len(t) /\ 1 + i \in 1 .. Len(s) /\ Len(first) + i = 1 + i
      BY ONLY <1>2, <1>8, <2>1, i \in 1 .. Len(host), SMT
    <3> QED
      BY <1>3, <1>5, <1>7, <3>1
  <2>4. c = 1 + Len(host) + 1 + 1
    BY ONLY <2>1, SMT
  <2> QED
    BY Zenon, <1>7, <1>8, <2>3, <2>4, <2>5
<1>10. /\ Max({i \in DOMAIN url : url[i] = ":"}) = c
       /\ SubSeq(url, 1 + 1, c - (1 + 1)) = host
       /\ SubSeq(url, c + 1, Len(url)) = port
  <2>1. 1 \in Nat
    OBVIOUS
  <2> QED
    <3>1. IsAuthority(S, url, host, port, c, 1)
      BY Zenon, <1>7, <1>9, <2>1 DEF IsAuthority
    <3> QED
      BY Zenon, <3>1, AuthorityReadBack DEF ReadBack
<1>11. SubSeq(url, 2, c - 2) = host
  BY ONLY <1>10, SMT
<1>12. /\ \A i \in DOMAIN url : url[i] # "%" /\ url[i] # "%25"
       /\ \A i \in c .. Len(url) : url[i] # "%25"
  <2>1. url \in Seq(S) /\ Len(host) \in Nat /\ c = 1 + Len(host) + 1 + 1
    <3>1. Len(host) \in Nat
      BY ONLY host \in Seq(S), SMT
    <3> QED
      BY Zenon, <1>7, <1>9, <3>1
  <2>2. (\A i \in DOMAIN url : url[i] \in S) /\ DOMAIN url = 1 .. Len(url) /\ Len(url) \in Nat
    BY ONLY <2>1, SMT
  <2>3. 1 <= c
    BY ONLY <2>1, SMT
  <2>4. c .. Len(url) \subseteq DOMAIN url
    BY ONLY c \in Nat, <2>2, <2>3, SMT
  <2> QED
    BY Zenon, <2>2, <2>4
<1>13. Escaped(url) = url
  BY Zenon, <1>7, <1>12, NothingEscaped
<1>14. <<"[">> \o host \o <<"]", ":">> \o port = url
  BY Zenon, <1>1, <1>3, <1>5, <1>7
<1> QED
  <2>1. Dialled(url) = {[host |-> SubSeq(url, 2, c - 2), port |-> SubSeq(url, c + 1, Len(url))]}
    BY ONLY <1>9, <1>10, <1>12, Zenon DEF Dialled
  <2> QED
    BY Zenon, <1>10, <1>11, <1>13, <1>14, <2>1

\* The same without brackets.
LEMMA PlainDialled ==
    ASSUME NEW S, ":" \in S, "%" \notin S, "%25" \notin S,
           NEW host \in Seq(S), NEW port \in Seq(S), host # <<>>,
           \A i \in DOMAIN host : host[i] # "[",
           \A i \in DOMAIN port : port[i] = "1"
    PROVE  [host |-> host, port |-> port] \in Dialled(Escaped(host \o <<":">> \o port))
<1>1. PICK colon \in Seq(S) : colon = <<":">>
  <2>1. <<":">> \in Seq(S)
    OBVIOUS
  <2> QED
    BY Zenon, <2>1
<1>2. Len(colon) = 1
  BY <1>1
<1>4. colon[1] = ":"
  BY <1>1
<1>3. PICK s :
        /\ s = host \o colon
        /\ s \in Seq(S) /\ Len(s) = Len(host) + Len(colon)
        /\ \A i \in 1 .. Len(host) : s[i] = host[i]
        /\ \A i \in 1 .. Len(colon) : s[Len(host) + i] = colon[i]
  <2>1. /\ host \o colon \in Seq(S) /\ Len(host \o colon) = Len(host) + Len(colon)
        /\ \A i \in 1 .. Len(host) : (host \o colon)[i] = host[i]
        /\ \A i \in 1 .. Len(colon) : (host \o colon)[Len(host) + i] = colon[i]
    BY ONLY colon \in Seq(S), host \in Seq(S), SMT
  <2> QED
    BY Zenon, <2>1
<1>5. PICK url :
        /\ url = s \o port
        /\ url \in Seq(S) /\ Len(url) = Len(s) + Len(port)
        /\ \A i \in 1 .. Len(s) : url[i] = s[i]
        /\ \A i \in 1 .. Len(port) : url[Len(s) + i] = port[i]
  <2>1. /\ s \o port \in Seq(S) /\ Len(s \o port) = Len(s) + Len(port)
        /\ \A i \in 1 .. Len(s) : (s \o port)[i] = s[i]
        /\ \A i \in 1 .. Len(port) : (s \o port)[Len(s) + i] = port[i]
    BY ONLY <1>3, port \in Seq(S), SMT
  <2> QED
    BY Zenon, <2>1
<1>6. PICK c \in Nat : c = Len(s)
  BY ONLY <1>3, SMT
<1>7. /\ Len(url) = c + Len(port) /\ c = 0 + Len(host) + 1 + 0 /\ url[c] = ":" /\ url[1] # "["
      /\ \A i \in 1 .. Len(host) : url[0 + i] = host[i]
      /\ \A i \in 1 .. Len(port) : url[c + i] = port[i]
  <2>1. /\ Len(host) \in Nat /\ c = Len(host) + 1 /\ c \in 1 .. Len(s) /\ 1 \in 1 .. Len(colon)
        /\ 1 \in 1 .. Len(s) /\ 1 \in 1 .. Len(host) /\ 1 \in DOMAIN host
    BY ONLY host \in Seq(S), host # <<>>, <1>2, <1>3, <1>6, SMT
  <2>2. url[c] = ":" /\ url[1] # "["
    BY Zenon, <1>3, <1>4, <1>5, <2>1
  <2>3. ASSUME NEW i \in 1 .. Len(host) PROVE url[0 + i] = host[i]
    <3>1. i \in 1 .. Len(s) /\ 0 + i = i
      BY ONLY <1>6, <2>1, i \in 1 .. Len(host), SMT
    <3> QED
      BY Zenon, <1>3, <1>5, <3>1
  <2>4. c = 0 + Len(host) + 1 + 0
    BY ONLY <2>1, SMT
  <2> QED
    BY Zenon, <1>5, <1>6, <2>2, <2>3, <2>4
<1>8. /\ Max({i \in DOMAIN url : url[i] = ":"}) = c
      /\ SubSeq(url, 0 + 1, c - (0 + 1)) = host
      /\ SubSeq(url, c + 1, Len(url)) = port
  <2>1. 0 \in Nat
    OBVIOUS
  <2> QED
    <3>1. IsAuthority(S, url, host, port, c, 0)
      BY Zenon, <1>5, <1>7, <2>1 DEF IsAuthority
    <3> QED
      BY Zenon, <3>1, AuthorityReadBack DEF ReadBack
<1>9. SubSeq(url, 1, c - 1) = host
  BY ONLY <1>8, SMT
<1>10. \A i \in DOMAIN url : url[i] # "%" /\ url[i] # "%25"
  <2>1. \A i \in DOMAIN url : url[i] \in S
    BY ONLY <1>5, SMT
  <2> QED
    BY Zenon, <2>1
<1>11. Escaped(url) = url
  BY Zenon, <1>5, <1>10, NothingEscaped
<1>12. host \o <<":">> \o port = url
  BY Zenon, <1>1, <1>3, <1>5
<1> QED
  <2>1. Dialled(url) = {[host |-> SubSeq(url, 1, c - 1), port |-> SubSeq(url, c + 1, Len(url))]}
    BY ONLY <1>7, <1>8, <1>10, Zenon DEF Dialled
  <2> QED
    BY Zenon, <1>8, <1>9, <1>11, <1>12, <2>1

\* The largest of some positions of a sequence is one of them.
LEMMA LargestIndex ==
    ASSUME NEW N \in Nat, NEW T, T \subseteq 1 .. N, T # {}
    PROVE  Max(T) \in T
<1> DEFINE Below == {N - i : i \in T}
<1>1. \A i \in T : N - i \in Nat
  OBVIOUS
<1>2. PICK m \in Below : \A n \in Below : m <= n
  <2>1. Below \subseteq Nat /\ Below # {}
    BY Zenon, <1>1
  <2> QED
    BY Zenon, <2>1, LeastNatural
<1>3. PICK x \in T : m = N - x
  OBVIOUS
<1>4. ASSUME NEW y \in T PROVE x >= y
  <2>1. N - y \in Below
    OBVIOUS
  <2>2. m <= N - y
    BY Zenon, <1>2, <2>1
  <2> QED
    BY ONLY N \in Nat, T \subseteq 1 .. N, x \in T, y \in T, <1>3, <2>2, SMT
<1> QED
  BY Zenon, <1>4 DEF Max

\* The host and the port are parts of the address, and no "[" is left in the host.
LEMMA SplitParts ==
    ASSUME NEW S, NEW address \in Seq(S), NEW a \in split_host_port(address)
    PROVE  /\ a[1] \in Seq(S) /\ a[2] \in Seq(S)
           /\ \A i \in DOMAIN a[1] : a[1][i] # "["
<1> DEFINE colons == {i \in DOMAIN address : address[i] = ":"}
           From(i) == SubSeq(address, i, Len(address))
<1>1. Has(address, ":")
  BY Zenon DEF split_host_port
<1>2. PICK c : c = Max(colons)
  OBVIOUS
<1>3. c \in 1 .. Len(address)
  <2>1. colons \subseteq 1 .. Len(address) /\ colons # {} /\ Len(address) \in Nat
    BY <1>1 DEF Has, Range
  <2>2. Max(colons) \in colons
    BY Zenon, <2>1, LargestIndex
  <2> QED
    BY Zenon, <1>2, <2>1, <2>2
<1>4. SubSeq(address, c + 1, Len(address)) \in Seq(S)
  BY <1>3
<1>5. CASE address[1] = "["
  <2>1. PICK after :
          /\ after = First(address, "]") + 1 /\ ~(after # c) /\ ~Has(From(2), "[")
          /\ a = <<SubSeq(address, 2, after - 2), SubSeq(address, c + 1, Len(address))>>
    BY Zenon, <1>2, <1>5 DEF split_host_port
  <2>2. PICK host : host = SubSeq(address, 2, c - 2)
    OBVIOUS
  <2>3. /\ host \in Seq(S) /\ DOMAIN host = 1 .. Len(host)
        /\ \A i \in 1 .. Len(host) : i \in 1 .. Len(From(2)) /\ host[i] = From(2)[i]
        /\ 1 .. Len(From(2)) = DOMAIN From(2)
    BY <1>3, <2>2
  <2>4. \A i \in DOMAIN From(2) : From(2)[i] # "["
    BY Zenon, <2>1 DEF Has, Range
  <2>5. \A i \in DOMAIN host : host[i] # "["
    BY Zenon, <2>3, <2>4
  <2>6. a[1] = host /\ a[2] = SubSeq(address, c + 1, Len(address))
    BY <2>1, <2>2
  <2> QED
    BY Zenon, <1>4, <2>3, <2>5, <2>6
<1>6. CASE address[1] # "["
  <2>1. /\ ~Has(address, "[")
        /\ a = <<SubSeq(address, 1, c - 1), SubSeq(address, c + 1, Len(address))>>
    BY Zenon, <1>2, <1>6 DEF split_host_port
  <2>2. PICK host : host = SubSeq(address, 1, c - 1)
    OBVIOUS
  <2>3. /\ host \in Seq(S) /\ DOMAIN host = 1 .. Len(host)
        /\ \A i \in 1 .. Len(host) : i \in DOMAIN address /\ host[i] = address[i]
    BY <1>3, <2>2
  <2>4. \A i \in DOMAIN address : address[i] # "["
    BY Zenon, <2>1 DEF Has, Range
  <2>5. \A i \in DOMAIN host : host[i] # "["
    BY Zenon, <2>3, <2>4
  <2>6. a[1] = host /\ a[2] = SubSeq(address, c + 1, Len(address))
    BY <2>1, <2>2
  <2> QED
    BY Zenon, <1>4, <2>3, <2>5, <2>6
<1> QED
  BY Zenon, <1>5, <1>6

\* An address without a zone: the probe's target is what the URL says, and it reaches the
\* socket bound from the address.
LEMMA TargetReached ==
    ASSUME NEW S, {"[", "]", ":", "1", "127"} \subseteq S,
           "%" \notin S, "%25" \notin S,
           NEW address \in Seq(S), NEW ipv6 \in BOOLEAN,
           NEW bound \in bind_address(address, ipv6)
    PROVE  \/ \E target \in Targets(address) : Reaches(target, bound)
           \/ ~ipv6 /\ \E a \in split_host_port(address) : Has(a[1], ":")
<1> DEFINE Host(host) == CASE host \in {<<>>, <<"0">>} -> <<"127">>
                           [] host = <<":", ":">> -> <<":", ":", "1">>
                           [] OTHER -> host
<1>1. PICK a \in split_host_port(address) :
        /\ ValidPort(a[2])
        /\ bound = [host |-> IF ~Wildcard(a[1]) THEN a[1] ELSE IF ipv6 THEN <<":", ":">> ELSE <<"0">>,
                    port |-> a[2]]
  BY Zenon DEF bind_address
<1>2. PICK h \in Seq(S), port \in Seq(S) : h = a[1] /\ port = a[2]
  BY Zenon, SplitParts
<1>3. /\ \A i \in DOMAIN h : h[i] # "["
      /\ \A i \in DOMAIN port : port[i] = "1"
  <2>1. \A i \in DOMAIN h : h[i] # "["
    BY Zenon, <1>2, SplitParts
  <2>2. \A i \in DOMAIN port : port[i] \in {"1"}
    BY Zenon, <1>1, <1>2 DEF ValidPort, Range
  <2> QED
    BY Zenon, <2>1, <2>2
<1>4. PICK g : g = Host(h)
  BY Zenon
<1>5. /\ g \in Seq(S) /\ g # <<>>
      /\ \A i \in DOMAIN g : g[i] # "["
  <2>1. CASE h \in {<<>>, <<"0">>}
    <3>1. g = <<"127">>
      BY <1>4, <2>1
    <3> QED
      BY <3>1
  <2>2. CASE h = <<":", ":">>
    <3>1. g = <<":", ":", "1">>
      BY <1>4, <2>2
    <3> QED
      BY <3>1
  <2>3. CASE h \notin {<<>>, <<"0">>, <<":", ":">>}
    <3>1. g = h /\ h # <<>>
      BY <1>4, <2>3
    <3> QED
      BY Zenon, <1>2, <1>3, <3>1
  <2> QED
    BY Zenon, <2>1, <2>2, <2>3
<1> DEFINE target == [host |-> g, port |-> port]
<1>6. target \in Dialled(Escaped(join_host_port(g, port)))
  <2>1. CASE Has(g, ":")
    <3>1. join_host_port(g, port) = <<"[">> \o g \o <<"]", ":">> \o port
      BY Zenon, <2>1 DEF join_host_port
    <3>2. {"[", "]", ":"} \subseteq S
      BY Zenon
    <3> QED
      BY Zenon, <1>2, <1>3, <1>5, <3>1, <3>2, BracketsDialled
  <2>2. CASE ~Has(g, ":")
    <3>1. join_host_port(g, port) = g \o <<":">> \o port
      BY Zenon, <2>2 DEF join_host_port
    <3>2. ":" \in S
      BY Zenon
    <3> QED
      BY Zenon, <1>2, <1>3, <1>5, <3>1, <3>2, PlainDialled
  <2> QED
    BY Zenon, <2>1, <2>2
<1>7. target \in Targets(address)
  <2>1. Escaped(join_host_port(g, port)) \in healthcheck_url(address)
    BY Zenon, <1>2, <1>4 DEF healthcheck_url
  <2> QED
    BY Zenon, <1>6, <2>1 DEF Targets
<1>8. target.host = g /\ target.port = port
  OBVIOUS
<1>9. /\ bound.host = IF ~Wildcard(h) THEN h ELSE IF ipv6 THEN <<":", ":">> ELSE <<"0">>
      /\ bound.port = port
  BY <1>1, <1>2
<1> HIDE DEF target
<1>10. Unscoped(h) = h
  <2>1. \A i \in DOMAIN h : h[i] \in S
    BY ONLY h \in Seq(S), SMT
  <2>2. ~Has(h, "%")
    BY Zenon, <2>1 DEF Has, Range
  <2> QED
    BY Zenon, <2>2 DEF Unscoped
<1>11. CASE h \in {<<>>, <<"0">>}
  <2>1. g = <<"127">>
    BY <1>4, <1>11
  <2>2. Wildcard(h)
    BY Zenon, <1>10, <1>11 DEF Wildcard
  <2>3. Reaches(target, bound)
    BY Zenon, <1>8, <1>9, <2>1, <2>2 DEF Reaches
  <2> QED
    BY Zenon, <1>7, <2>3
<1>12. ASSUME h \in {<<":", ":">>, <<":", ":", "f", ":", "0">>}
       PROVE  Has(h, ":")
  <2>1. 1 \in DOMAIN h /\ h[1] = ":"
    BY <1>12
  <2> QED
    BY Zenon, <2>1 DEF Has, Range
<1>13. CASE h = <<":", ":">>
  <2>1. g = <<":", ":", "1">>
    BY <1>4, <1>13
  <2>2. Wildcard(h)
    BY Zenon, <1>10, <1>13 DEF Wildcard
  <2>3. CASE ipv6
    <3>1. Reaches(target, bound)
      BY Zenon, <1>8, <1>9, <2>1, <2>2, <2>3 DEF Reaches
    <3> QED
      BY Zenon, <1>7, <3>1
  <2> QED
    BY Zenon, <1>2, <1>12, <1>13, <2>3
<1>14. CASE h \notin {<<>>, <<"0">>, <<":", ":">>}
  <2>1. g = h
    BY <1>4, <1>14
  <2>2. CASE ~Wildcard(h)
    <3>1. Reaches(target, bound)
      BY Zenon, <1>8, <1>9, <2>1, <2>2 DEF Reaches
    <3> QED
      BY Zenon, <1>7, <3>1
  <2>3. CASE Wildcard(h)
    <3>1. h = <<":", ":", "f", ":", "0">>
      BY Zenon, <1>10, <1>14, <2>3 DEF Wildcard
    <3>2. CASE ipv6
      <4>1. Reaches(target, bound)
        BY Zenon, <1>8, <1>9, <2>1, <2>3, <3>1, <3>2 DEF Reaches
      <4> QED
        BY Zenon, <1>7, <4>1
    <3> QED
      BY Zenon, <1>2, <1>12, <3>1, <3>2
  <2> QED
    BY Zenon, <2>2, <2>3
<1> QED
  BY Zenon, <1>11, <1>13, <1>14

\* A sequence over a set that never has one of its members.
LEMMA Without ==
    ASSUME NEW S, NEW s \in Seq(S), NEW x, \A i \in DOMAIN s : s[i] # x
    PROVE  s \in Seq(S \ {x})
  OBVIOUS

\* The probe of the image's HEALTHCHECK connects to where an exporter with the same listen
\* address listens, for every address without a zone, with and without IPv6, an IPv6
\* wildcard where there is no IPv6 excepted (healthcheck_url, bind).
THEOREM ProbeCorrect == LSpec => []ProbeReachesServer
<1>1. GivenInv => ProbeReachesServer
  <2> DEFINE address == Given.listen_addr
             Plain == Mark \ {"%"}
  <2> SUFFICES ASSUME GivenInv, pc = "parse", ~Has(address, "%"),
                      NEW ipv6 \in BOOLEAN, NEW bound \in bind_address(address, ipv6)
               PROVE  \/ \E target \in Targets(address) : Reaches(target, bound)
                      \/ ~ipv6 /\ \E a \in split_host_port(address) : Has(a[1], ":")
    BY Zenon DEF ProbeReachesServer
  <2>1. Given \in Inputs
    BY Zenon DEF GivenInv, Given
  <2>2. address \in Seq(Mark)
    BY Zenon, <2>1, InputsAssumption
  <2>3. \A i \in DOMAIN address : address[i] # "%"
    BY Zenon DEF Has, Range
  <2>4. address \in Seq(Plain)
    BY Zenon, <2>2, <2>3, Without
  <2>5. "%" \notin Plain /\ "%25" \notin Plain
    BY Zenon, MarkAssumption
  <2>6. {"[", "]", ":", "1", "127"} \subseteq Plain
    BY MarkAssumption
  <2> HIDE DEF address, Plain
  <2> QED
    BY Zenon, <2>4, <2>5, <2>6, TargetReached
<1> QED
  BY <1>1, GivenInvariant, PTL

-----------------------------------------------------------------------------
(* The single-dash pre-scan *)

ScanStates == [done : BOOLEAN, skip : BOOLEAN, refused : BOOLEAN]

\* Scanned is what its definition says of it: there is such a function.
LEMMA ScannedValues ==
    ASSUME NEW A, NEW arguments \in Seq(A)
    PROVE  /\ Scanned(arguments)[0] = ScanStart
           /\ \A i \in 1 .. Len(arguments) :
                Scanned(arguments)[i] = ScanArgument(Scanned(arguments)[i - 1], arguments[i])
           /\ \A i \in 0 .. Len(arguments) : Scanned(arguments)[i] \in ScanStates
<1> DEFINE N == Len(arguments)
           Eq(f) == f = [i \in 0 .. N |-> IF i = 0 THEN ScanStart
                                          ELSE ScanArgument(f[i - 1], arguments[i])]
           G == [p \in (1 .. N) \X ScanStates |-> ScanArgument(p[2], arguments[p[1]])]
           S == {i \in Nat : i \in 0 .. N => Scanned(arguments)[i] \in ScanStates}
<1>1. N \in Nat
  OBVIOUS
<1>2. ScanStart \in ScanStates
  BY DEF ScanStart, ScanStates
<1>3. ASSUME NEW s \in ScanStates, NEW a PROVE ScanArgument(s, a) \in ScanStates
  <2>1. (a = Terminator \/ Cluster(a)) \in BOOLEAN /\ TakesValue(a) \in BOOLEAN
        /\ Cluster(a) \in BOOLEAN
    BY Zenon DEF Cluster, TakesValue
  <2> QED
    BY <2>1 DEF ScanArgument, ScanStates
<1>4. \A i \in 1 .. N, s \in ScanStates :
        G[<<i, s>>] = ScanArgument(s, arguments[i]) /\ G[<<i, s>>] \in ScanStates
  BY <1>3
<1> HIDE DEF N, G
<1>5. PICK f : IsRecursion(f, N, ScanStates, ScanStart, G)
  BY Zenon, <1>1, <1>2, <1>4, RecursionExists
<1>6. /\ f \in [0 .. N -> ScanStates] /\ f[0] = ScanStart
      /\ \A i \in 1 .. N : f[i] = G[<<i, f[i - 1]>>]
  BY Zenon, <1>5 DEF IsRecursion
<1>7. \A i \in 1 .. N : f[i] = ScanArgument(f[i - 1], arguments[i])
  <2>1. \A i \in 1 .. N : i - 1 \in 0 .. N
    BY <1>1
  <2> QED
    BY Zenon, <1>4, <1>6, <2>1
<1>8. Eq(f)
  BY <1>1, <1>6, <1>7
<1>9. Scanned(arguments) = CHOOSE g : Eq(g)
  BY Zenon DEF Scanned, N
<1>10. Eq(Scanned(arguments))
  BY Zenon, <1>8, <1>9
<1> HIDE DEF Eq
<1>11. ASSUME NEW g, Eq(g)
       PROVE  /\ g[0] = ScanStart
              /\ \A i \in 1 .. N : g[i] = ScanArgument(g[i - 1], arguments[i])
  BY <1>1, <1>11 DEF Eq
<1>12. /\ Scanned(arguments)[0] = ScanStart
       /\ \A i \in 1 .. N :
            Scanned(arguments)[i] = ScanArgument(Scanned(arguments)[i - 1], arguments[i])
  BY Zenon, <1>10, <1>11
<1>13. 0 .. N \subseteq S
  <2>1. 0 \in S
    BY <1>2, <1>12
  <2>2. ASSUME NEW n \in Nat, n < N, n \in S PROVE n + 1 \in S
    <3>1. n \in 0 .. N /\ n + 1 \in 1 .. N /\ (n + 1) - 1 = n /\ n + 1 \in Nat
      BY <1>1, <2>2
    <3>2. Scanned(arguments)[n] \in ScanStates
      BY Zenon, <2>2, <3>1
    <3> QED
      BY Zenon, <1>3, <1>12, <3>1, <3>2
  <2> HIDE DEF S
  <2> QED
    BY Zenon, <1>1, <2>1, <2>2, InductionUpTo
<1> QED
  BY Zenon, <1>12, <1>13 DEF N

\* An odd number of value flags stands right before argument i, as in PreScanIsExact.
IsValue(arguments, i) ==
    \E n \in 1 .. i - 1 :
        /\ n % 2 = 1
        /\ \A j \in i - n .. i - 1 : TakesValue(arguments[j])
        /\ n = i - 1 \/ ~TakesValue(arguments[i - n - 1])

IsFlag(arguments, i) ==
    /\ ~IsValue(arguments, i)
    /\ \A j \in 1 .. i - 1 : arguments[j] = Terminator => IsValue(arguments, j)

\* The next argument is a value if this one is a value flag and no value.
LEMMA ValueStep ==
    ASSUME NEW arguments, NEW i \in Nat \ {0}
    PROVE  IsValue(arguments, i + 1) <=> TakesValue(arguments[i]) /\ ~IsValue(arguments, i)
<1>1. ASSUME IsValue(arguments, i + 1)
      PROVE  TakesValue(arguments[i]) /\ ~IsValue(arguments, i)
  <2>1. PICK n \in 1 .. i :
          /\ n % 2 = 1
          /\ \A j \in (i + 1) - n .. i : TakesValue(arguments[j])
          /\ n = i \/ ~TakesValue(arguments[(i + 1) - n - 1])
    <3>1. (i + 1) - 1 = i
      OBVIOUS
    <3> QED
      BY <1>1, <3>1 DEF IsValue
  <2>2. TakesValue(arguments[i])
    BY <2>1
  <2>3. ASSUME IsValue(arguments, i) PROVE FALSE
    <3>1. PICK m \in 1 .. i - 1 :
            /\ m % 2 = 1
            /\ \A j \in i - m .. i - 1 : TakesValue(arguments[j])
            /\ m = i - 1 \/ ~TakesValue(arguments[i - m - 1])
      BY Zenon, <2>3 DEF IsValue
    <3>2. ~(m >= n)
      <4> SUFFICES ASSUME m >= n PROVE FALSE
        OBVIOUS
      <4>1. n # i /\ i - n \in i - m .. i - 1 /\ (i + 1) - n - 1 = i - n
        BY <2>1, <3>1
      <4> QED
        BY <2>1, <3>1, <4>1
    <3>3. ~(m < n - 1)
      <4> SUFFICES ASSUME m < n - 1 PROVE FALSE
        OBVIOUS
      <4>1. m # i - 1 /\ i - m - 1 \in (i + 1) - n .. i
        BY <2>1, <3>1
      <4> QED
        BY <2>1, <3>1, <4>1
    <3>4. m = n - 1
      BY <3>1, <2>1, <3>2, <3>3
    <3> QED
      BY <2>1, <3>1, <3>4
  <2> QED
    BY Zenon, <2>2, <2>3
<1>2. ASSUME TakesValue(arguments[i]), ~IsValue(arguments, i)
      PROVE  IsValue(arguments, i + 1)
  <2> DEFINE T == {m \in 0 .. i - 1 : m = i - 1 \/ ~TakesValue(arguments[i - m - 1])}
  <2>1. T \subseteq Nat /\ i - 1 \in T
    OBVIOUS
  <2>2. PICK m \in T : \A k \in T : m <= k
    BY Zenon, <2>1, LeastNatural
  <2>3. m \in 0 .. i - 1 /\ (m = i - 1 \/ ~TakesValue(arguments[i - m - 1]))
    BY Zenon, <2>2
  <2>4. ASSUME NEW j \in i - m .. i - 1 PROVE TakesValue(arguments[j])
    <3>1. /\ i - j - 1 \in 0 .. i - 1 /\ i - j - 1 < m /\ i - (i - j - 1) - 1 = j
          /\ i - j - 1 # i - 1
      BY <2>3, <2>4
    <3>2. i - j - 1 \notin T
      <4> SUFFICES ASSUME i - j - 1 \in T PROVE FALSE
        OBVIOUS
      <4>1. m <= i - j - 1
        BY Zenon, <2>2
      <4> QED
        BY <2>3, <3>1, <4>1
    <3> QED
      BY <3>1, <3>2
  <2> HIDE DEF T
  <2>5. m % 2 # 1
    <3> SUFFICES ASSUME m % 2 = 1 PROVE FALSE
      OBVIOUS
    <3>1. m \in 1 .. i - 1
      BY <2>3
    <3> QED
      BY Zenon, <1>2, <2>3, <2>4, <3>1 DEF IsValue
  <2>6. /\ m + 1 \in 1 .. (i + 1) - 1 /\ (m + 1) % 2 = 1
        /\ (i + 1) - (m + 1) = i - m /\ (i + 1) - 1 = i /\ (m = i - 1 => m + 1 = i)
    BY <2>3, <2>5
  <2>7. \A j \in i - m .. i : TakesValue(arguments[j])
    BY <1>2, <2>3, <2>4
  <2> QED
    BY Zenon, <2>3, <2>6, <2>7 DEF IsValue
<1> QED
  BY Zenon, <1>1, <1>2

\* What the loop knows after i arguments.
ScanKnows(arguments, i) ==
    LET scan == Scanned(arguments)[i]
    IN  /\ ~scan.done =>
             /\ ~scan.refused /\ (scan.skip <=> IsValue(arguments, i + 1))
             /\ \A j \in 1 .. i :
                  IsValue(arguments, j) \/ (arguments[j] # Terminator /\ ~Cluster(arguments[j]))
        /\ scan.done =>
             (scan.refused <=>
                \E j \in DOMAIN arguments : IsFlag(arguments, j) /\ Cluster(arguments[j]))

\* One more argument.
LEMMA ScanStep ==
    ASSUME NEW A, NEW arguments \in Seq(A), NEW i \in Nat, i < Len(arguments),
           ScanKnows(arguments, i)
    PROVE  ScanKnows(arguments, i + 1)
<1> DEFINE N == Len(arguments)
           a == arguments[i + 1]
<1>1. /\ N \in Nat /\ DOMAIN arguments = 1 .. N /\ i + 1 \in 1 .. N /\ (i + 1) - 1 = i
      /\ i + 1 \in Nat \ {0} /\ i \in 0 .. N /\ i + 1 \in 0 .. N
      /\ \A j \in 1 .. i + 1 : j = i + 1 \/ j \in 1 .. i
  OBVIOUS
<1>2. PICK s : s = Scanned(arguments)[i]
  BY Zenon
<1>3. PICK t : t = Scanned(arguments)[i + 1]
  BY Zenon
<1>4. t = ScanArgument(s, a) /\ s \in ScanStates
  BY Zenon, <1>1, <1>2, <1>3, ScannedValues
<1>5. /\ ~s.done =>
           /\ ~s.refused /\ (s.skip <=> IsValue(arguments, i + 1))
           /\ \A j \in 1 .. i :
                IsValue(arguments, j) \/ (arguments[j] # Terminator /\ ~Cluster(arguments[j]))
      /\ s.done => (s.refused <=>
           \E j \in DOMAIN arguments : IsFlag(arguments, j) /\ Cluster(arguments[j]))
  BY Zenon, <1>2 DEF ScanKnows
<1>6. IsValue(arguments, (i + 1) + 1) <=> TakesValue(a) /\ ~IsValue(arguments, i + 1)
  BY Zenon, <1>1, ValueStep
<1> SUFFICES
      /\ ~t.done =>
           /\ ~t.refused /\ (t.skip <=> IsValue(arguments, (i + 1) + 1))
           /\ \A j \in 1 .. i + 1 :
                IsValue(arguments, j) \/ (arguments[j] # Terminator /\ ~Cluster(arguments[j]))
      /\ t.done => (t.refused <=>
           \E j \in DOMAIN arguments : IsFlag(arguments, j) /\ Cluster(arguments[j]))
  BY Zenon, <1>3 DEF ScanKnows
<1> HIDE DEF N, a
<1>7. CASE s.done
  BY Zenon, <1>4, <1>5, <1>7 DEF ScanArgument
<1>8. CASE ~s.done /\ s.skip
  <2>1. ~t.done /\ ~t.skip /\ ~t.refused
    BY <1>4, <1>5, <1>8 DEF ScanArgument, ScanStates
  <2> QED
    BY Zenon, <1>1, <1>5, <1>6, <1>8, <2>1
<1>9. CASE ~s.done /\ ~s.skip
  <2>1. /\ t.done <=> a = Terminator \/ Cluster(a)
        /\ t.skip <=> TakesValue(a)
        /\ t.refused <=> Cluster(a)
    <3>1. t = [done |-> a = Terminator \/ Cluster(a), skip |-> TakesValue(a),
               refused |-> Cluster(a)]
      BY Zenon, <1>4, <1>9 DEF ScanArgument
    <3> QED
      BY <3>1
  <2>2. ~IsValue(arguments, i + 1)
    BY Zenon, <1>5, <1>9
  <2>3. IsFlag(arguments, i + 1)
    BY Zenon, <1>1, <1>5, <1>9, <2>2 DEF IsFlag
  <2>4. CASE ~t.done
    BY Zenon, <1>1, <1>5, <1>6, <1>9, <2>1, <2>2, <2>4 DEF a
  <2>5. CASE t.done /\ Cluster(a)
    BY Zenon, <1>1, <2>1, <2>3, <2>5 DEF a
  <2>6. CASE t.done /\ ~Cluster(a)
    <3>1. a = Terminator
      BY Zenon, <2>1, <2>6
    <3>2. ASSUME NEW j \in DOMAIN arguments, IsFlag(arguments, j), Cluster(arguments[j])
          PROVE  FALSE
      <4>1. CASE j \in 1 .. i
        BY Zenon, <1>5, <1>9, <3>2, <4>1 DEF IsFlag
      <4>2. CASE j = i + 1
        BY Zenon, <2>6, <3>2, <4>2 DEF a
      <4>3. CASE i + 1 \in 1 .. j - 1
        BY Zenon, <2>2, <3>1, <3>2, <4>3 DEF IsFlag, a
      <4>4. j \in 1 .. i \/ j = i + 1 \/ i + 1 \in 1 .. j - 1
        BY <1>1
      <4> QED
        BY Zenon, <4>1, <4>2, <4>3, <4>4
    <3> QED
      BY Zenon, <2>1, <2>6, <3>2
  <2> QED
    BY Zenon, <2>4, <2>5, <2>6
<1> QED
  BY Zenon, <1>7, <1>8, <1>9

\* The pre-scan refuses exactly the command lines with a cluster where clap would look for
\* a flag, however long they are.
LEMMA ScanExact ==
    ASSUME NEW A, NEW arguments \in Seq(A)
    PROVE  refuse_single_dash(arguments) <=>
             \E i \in DOMAIN arguments : IsFlag(arguments, i) /\ Cluster(arguments[i])
<1> DEFINE N == Len(arguments)
           S == {i \in Nat : ScanKnows(arguments, i)}
<1>1. N \in Nat /\ DOMAIN arguments = 1 .. N /\ N \in 0 .. N /\ 0 \in 0 .. N
  OBVIOUS
<1>2. 0 \in S
  <2>1. Scanned(arguments)[0] = ScanStart
    BY Zenon, ScannedValues
  <2>2. ~ScanStart.done /\ ~ScanStart.refused /\ ~ScanStart.skip
    BY DEF ScanStart
  <2>3. ~IsValue(arguments, 0 + 1) /\ \A j \in 1 .. 0 : FALSE
    BY DEF IsValue
  <2>4. ScanKnows(arguments, 0)
    BY Zenon, <2>1, <2>2, <2>3 DEF ScanKnows
  <2> QED
    BY <2>4
<1>3. ASSUME NEW n \in Nat, n < N, n \in S PROVE n + 1 \in S
  <2>1. n + 1 \in Nat
    OBVIOUS
  <2> QED
    BY Zenon, <1>3, <2>1, ScanStep
<1> HIDE DEF S, N
<1>4. N \in S
  BY Zenon, <1>1, <1>2, <1>3, InductionUpTo
<1>5. ScanKnows(arguments, N)
  BY Zenon, <1>4 DEF S
<1>6. PICK s : s = Scanned(arguments)[N]
  BY Zenon
<1>7. s \in ScanStates /\ (refuse_single_dash(arguments) <=> s.refused)
  BY Zenon, <1>1, <1>6, ScannedValues DEF refuse_single_dash, N
<1>8. CASE s.done
  BY Zenon, <1>5, <1>6, <1>7, <1>8 DEF ScanKnows
<1>9. CASE ~s.done
  BY Zenon, <1>1, <1>5, <1>6, <1>7, <1>9 DEF ScanKnows, IsFlag
<1> QED
  BY Zenon, <1>8, <1>9

\* The pre-scan lets clap see no single-dash argument longer than one character where it
\* looks for a flag and refuses none that is a value, for command lines of every length
\* (refuse_single_dash).
THEOREM PreScanCorrect == LSpec => []PreScanIsExact
<1>1. GivenInv => PreScanIsExact
  <2> SUFFICES ASSUME GivenInv, pc = "parse" PROVE PreScanIsExact
    BY Zenon DEF PreScanIsExact
  <2>1. Given \in Inputs
    BY Zenon DEF GivenInv, Given
  <2>2. Given.arguments \in Seq([dashes : Nat, name : STRING, eq : BOOLEAN, longer : BOOLEAN])
    BY Zenon, <2>1, InputsAssumption
  <2>3. refuse_single_dash(Given.arguments) <=>
          \E i \in DOMAIN Given.arguments :
             IsFlag(Given.arguments, i) /\ Cluster(Given.arguments[i])
    BY Zenon, <2>2, ScanExact
  <2> QED
    BY Zenon, <2>3 DEF PreScanIsExact, IsFlag, IsValue
<1> QED
  BY <1>1, GivenInvariant, PTL

-----------------------------------------------------------------------------
(* Label names *)

\* f ends with base and goes on with G where next says.
IsRecursionAhead(f, N, V, base, next, G) ==
    /\ f \in [1 .. N + 1 -> V] /\ f[N + 1] = base
    /\ \A i \in 1 .. N : f[i] = G[<<i, f[next[i]]>>]

\* There is such a function wherever next goes up and G stays among the values.
LEMMA RecursionAheadExists ==
    ASSUME NEW N \in Nat, NEW V, NEW base \in V, NEW next, NEW G,
           \A i \in 1 .. N : next[i] \in i + 1 .. N + 1,
           \A i \in 1 .. N, v \in V : G[<<i, v>>] \in V
    PROVE  \E f : IsRecursionAhead(f, N, V, base, next, G)
<1> DEFINE From(n) == (N + 1) - n
           Good(f, n) == /\ f \in [From(n) .. N + 1 -> V] /\ f[N + 1] = base
                         /\ \A i \in From(n) .. N : f[i] = G[<<i, f[next[i]]>>]
           S == {n \in Nat : \E f : Good(f, n)}
<1>1. 0 \in S
  <2>1. Good([i \in N + 1 .. N + 1 |-> base], 0)
    OBVIOUS
  <2> HIDE DEF Good
  <2> QED
    BY Zenon, <2>1
<1>2. ASSUME NEW n \in Nat, n < N, n \in S PROVE n + 1 \in S
  <2>1. PICK f : Good(f, n)
    BY Zenon, <1>2
  <2> DEFINE i0 == N - n
             g == [i \in i0 .. N + 1 |-> IF i = i0 THEN G[<<i0, f[next[i0]]>>] ELSE f[i]]
  <2>2. /\ i0 \in 1 .. N /\ From(n) = i0 + 1 /\ From(n + 1) = i0 /\ n + 1 \in Nat
        /\ \A i \in i0 .. N : i = i0 \/ i \in i0 + 1 .. N
    BY <1>2
  <2>3. /\ \A i \in i0 + 1 .. N + 1 : f[i] \in V /\ i # i0
        /\ f[N + 1] = base /\ \A i \in i0 + 1 .. N : f[i] = G[<<i, f[next[i]]>>]
    BY <2>1, <2>2
  <2>4. \A i \in i0 .. N : next[i] \in i0 + 1 .. N + 1 /\ i \in i0 .. N + 1
    BY <2>2
  <2> HIDE DEF i0, From
  <2>5. \A i \in i0 + 1 .. N + 1 : g[i] = f[i] /\ g[i] \in V
    BY <2>2, <2>3
  <2>6. g[i0] = G[<<i0, f[next[i0]]>>] /\ g[i0] \in V
    <3>1. i0 \in 1 .. N /\ i0 \in i0 .. N
      BY <2>2
    <3>2. i0 \in i0 .. N + 1 /\ f[next[i0]] \in V
      BY Zenon, <2>3, <2>4, <3>1
    <3>3. g[i0] = G[<<i0, f[next[i0]]>>]
      BY Zenon, <3>2
    <3> QED
      BY Zenon, <3>1, <3>2, <3>3
  <2>7. g \in [i0 .. N + 1 -> V]
    <3>1. \A i \in i0 .. N + 1 : i = i0 \/ i \in i0 + 1 .. N + 1
      BY <2>2
    <3>2. \A i \in i0 .. N + 1 : g[i] \in V
      BY Zenon, <2>5, <2>6, <3>1
    <3> QED
      BY Zenon, <3>2
  <2>8. N + 1 \in i0 + 1 .. N + 1
    BY <2>2
  <2> HIDE DEF g
  <2>9. g[N + 1] = base
    BY Zenon, <2>3, <2>5, <2>8
  <2>10. ASSUME NEW i \in i0 .. N PROVE g[i] = G[<<i, g[next[i]]>>]
    <3>1. next[i] \in i0 + 1 .. N + 1
      BY Zenon, <2>4
    <3>2. g[next[i]] = f[next[i]]
      BY Zenon, <2>5, <3>1
    <3>3. CASE i = i0
      BY Zenon, <2>6, <3>2, <3>3
    <3>4. CASE i \in i0 + 1 .. N
      <4>1. i \in i0 + 1 .. N + 1
        BY <2>2, <3>4
      <4> QED
        BY Zenon, <2>3, <2>5, <3>2, <3>4, <4>1
    <3> QED
      BY Zenon, <2>2, <3>3, <3>4
  <2>11. Good(g, n + 1)
    BY Zenon, <2>2, <2>7, <2>9, <2>10
  <2> HIDE DEF Good
  <2> QED
    BY Zenon, <2>2, <2>11
<1> HIDE DEF S
<1>3. N \in 0 .. N /\ (N + 1) - N = 1
  OBVIOUS
<1>4. N \in S
  BY Zenon, <1>1, <1>2, <1>3, InductionUpTo
<1> QED
  BY Zenon, <1>3, <1>4 DEF S, IsRecursionAhead

\* A rune is at least one byte and ends within the name.
LEMMA RuneEnds ==
    ASSUME NEW bytes \in Seq(Byte), NEW i \in 1 .. Len(bytes)
    PROVE  /\ i + go_rune_len(bytes, i) \in i + 1 .. Len(bytes) + 1
           /\ is_label_name_byte(bytes[i]) => go_rune_len(bytes, i) = 1
<1>1. PICK width : width = IF bytes[i] \in DOMAIN Lead THEN Lead[bytes[i]] ELSE 1
  BY Zenon
<1>2. width \in Nat \ {0} /\ (is_label_name_byte(bytes[i]) => width = 1)
  <2>1. \A byte \in DOMAIN Lead : Lead[byte] \in Nat \ {0} /\ ~is_label_name_byte(byte)
    BY Zenon, LabelsAssumption
  <2> QED
    BY <1>1, <2>1
<1>3. go_rune_len(bytes, i) = IF /\ i + width - 1 <= Len(bytes)
                                 /\ \A j \in i + 1 .. i + width - 1 : bytes[j] \in Continuation
                              THEN width ELSE 1
  BY Zenon, <1>1 DEF go_rune_len
<1>4. \/ go_rune_len(bytes, i) = 1
      \/ go_rune_len(bytes, i) = width /\ i + width - 1 <= Len(bytes)
  BY Zenon, <1>3
<1> QED
  BY <1>2, <1>4

\* The byte pushed for the rune at i.
PushedByte(bytes, i) == IF is_label_name_byte(bytes[i]) THEN bytes[i] ELSE "_"

\* Pushed is what its definition says of it: there is such a function.
LEMMA PushedValues ==
    ASSUME NEW bytes \in Seq(Byte)
    PROVE  /\ Pushed(bytes)[Len(bytes) + 1] = <<>>
           /\ \A i \in 1 .. Len(bytes) :
                Pushed(bytes)[i]
                  = <<PushedByte(bytes, i)>> \o Pushed(bytes)[i + go_rune_len(bytes, i)]
<1> DEFINE N == Len(bytes)
           Eq(f) == f = [i \in 1 .. N + 1 |->
                            IF i > N THEN <<>>
                            ELSE <<PushedByte(bytes, i)>> \o f[i + go_rune_len(bytes, i)]]
           G == [p \in (1 .. N) \X Seq(Byte) |-> <<PushedByte(bytes, p[1])>> \o p[2]]
           next == [i \in 1 .. N |-> i + go_rune_len(bytes, i)]
<1>1. N \in Nat
  OBVIOUS
<1>2. \A i \in 1 .. N : next[i] = i + go_rune_len(bytes, i) /\ next[i] \in i + 1 .. N + 1
  BY Zenon, RuneEnds
<1>3. \A i \in 1 .. N : PushedByte(bytes, i) \in Byte
  <2>1. \A i \in 1 .. N : bytes[i] \in Byte
    OBVIOUS
  <2> QED
    BY Zenon, <2>1, LabelsAssumption DEF PushedByte
<1>4. ASSUME NEW b \in Byte, NEW v \in Seq(Byte) PROVE <<b>> \o v \in Seq(Byte)
  OBVIOUS
<1>5. \A i \in 1 .. N, v \in Seq(Byte) :
        G[<<i, v>>] = <<PushedByte(bytes, i)>> \o v /\ <<PushedByte(bytes, i)>> \o v \in Seq(Byte)
  <2>1. \A i \in 1 .. N, v \in Seq(Byte) : G[<<i, v>>] = <<PushedByte(bytes, i)>> \o v
    OBVIOUS
  <2> QED
    BY Zenon, <1>3, <1>4, <2>1
<1>6. <<>> \in Seq(Byte)
  OBVIOUS
<1> HIDE DEF N, G, next
<1>7. PICK f : IsRecursionAhead(f, N, Seq(Byte), <<>>, next, G)
  <2>1. \A i \in 1 .. N, v \in Seq(Byte) : G[<<i, v>>] \in Seq(Byte)
    BY Zenon, <1>5
  <2>2. \A i \in 1 .. N : next[i] \in i + 1 .. N + 1
    BY Zenon, <1>2
  <2> QED
    BY Zenon, <1>1, <1>6, <2>1, <2>2, RecursionAheadExists
<1>8. /\ f \in [1 .. N + 1 -> Seq(Byte)] /\ f[N + 1] = <<>>
      /\ \A i \in 1 .. N : f[i] = G[<<i, f[next[i]]>>]
  BY Zenon, <1>7 DEF IsRecursionAhead
<1>9. \A i \in 1 .. N : f[i] = <<PushedByte(bytes, i)>> \o f[i + go_rune_len(bytes, i)]
  <2>1. \A i \in 1 .. N : next[i] \in 1 .. N + 1
    BY <1>1, <1>2
  <2> SUFFICES ASSUME NEW i \in 1 .. N
               PROVE  f[i] = <<PushedByte(bytes, i)>> \o f[i + go_rune_len(bytes, i)]
    BY Zenon
  <2>2. f[next[i]] \in Seq(Byte)
    BY Zenon, <1>8, <2>1
  <2>3. G[<<i, f[next[i]]>>] = <<PushedByte(bytes, i)>> \o f[next[i]]
    BY Zenon, <1>5, <2>2
  <2>4. f[i] = G[<<i, f[next[i]]>>] /\ next[i] = i + go_rune_len(bytes, i)
    BY Zenon, <1>2, <1>8
  <2> QED
    BY Zenon, <2>3, <2>4
<1>10. \A i \in 1 .. N + 1 : IF i > N THEN i = N + 1 ELSE i \in 1 .. N
  BY <1>1
<1>11. Eq(f)
  <2>1. \A i \in 1 .. N + 1 : f[i] = IF i > N THEN <<>>
                                     ELSE <<PushedByte(bytes, i)>> \o f[i + go_rune_len(bytes, i)]
    BY Zenon, <1>8, <1>9, <1>10
  <2> QED
    BY Zenon, <1>8, <2>1
<1>12. Pushed(bytes) = CHOOSE g : Eq(g)
  BY Zenon DEF Pushed, PushedByte, N
<1>13. Eq(Pushed(bytes))
  BY Zenon, <1>11, <1>12
<1>14. N + 1 \in 1 .. N + 1 /\ N + 1 > N /\ \A i \in 1 .. N : i \in 1 .. N + 1 /\ ~(i > N)
  BY <1>1
<1>15. ASSUME NEW g, Eq(g)
       PROVE  /\ g[N + 1] = <<>>
              /\ \A i \in 1 .. N : g[i] = <<PushedByte(bytes, i)>> \o g[i + go_rune_len(bytes, i)]
  BY Zenon, <1>14, <1>15
<1> HIDE DEF Eq
<1> QED
  BY Zenon, <1>13, <1>15 DEF N

\* A sanitized name is a sequence of bytes.
LEMMA SanitizedBytes ==
    ASSUME NEW bytes \in Seq(Byte)
    PROVE  sanitize_name(bytes) \in Seq(Byte)
<1> DEFINE N == Len(bytes)
           S == {n \in Nat : \A i \in (N + 1) - n .. N + 1 : i \in Nat \ {0} =>
                                Pushed(bytes)[i] \in Seq(Byte)}
<1>1. N \in Nat /\ <<>> \in Seq(Byte)
  OBVIOUS
<1>2. ASSUME NEW b \in Byte, NEW v \in Seq(Byte) PROVE <<b>> \o v \in Seq(Byte)
  OBVIOUS
<1>3. ASSUME NEW i \in 1 .. N PROVE PushedByte(bytes, i) \in Byte
  <2>1. bytes[i] \in Byte
    OBVIOUS
  <2> QED
    BY Zenon, <2>1, LabelsAssumption DEF PushedByte
<1>4. 0 \in S
  <2>1. \A i \in (N + 1) - 0 .. N + 1 : i = N + 1
    BY <1>1
  <2>2. Pushed(bytes)[N + 1] \in Seq(Byte)
    BY Zenon, <1>1, PushedValues
  <2> HIDE DEF N
  <2> QED
    BY Zenon, <2>1, <2>2
<1>5. ASSUME NEW n \in Nat, n < N, n \in S PROVE n + 1 \in S
  <2>1. /\ N - n \in 1 .. N /\ n + 1 \in Nat
        /\ \A i \in (N + 1) - (n + 1) .. N + 1 : i = N - n \/ i \in (N + 1) - n .. N + 1
    BY <1>1, <1>5
  <2>2. PICK j : j = (N - n) + go_rune_len(bytes, N - n)
    BY Zenon
  <2>3. j \in (N - n) + 1 .. N + 1
    BY Zenon, <2>1, <2>2, RuneEnds
  <2>4. j \in (N + 1) - n .. N + 1 /\ j \in Nat \ {0}
    BY <1>1, <2>1, <2>3
  <2>5. Pushed(bytes)[j] \in Seq(Byte)
    BY Zenon, <1>5, <2>4
  <2>6. Pushed(bytes)[N - n] \in Seq(Byte)
    BY Zenon, <1>2, <1>3, <2>1, <2>2, <2>5, PushedValues
  <2> QED
    BY Zenon, <1>5, <2>1, <2>6
<1> HIDE DEF S, N
<1>6. N \in S
  <2>1. N \in 0 .. N
    BY <1>1
  <2> QED
    BY Zenon, <1>1, <1>4, <1>5, <2>1, InductionUpTo
<1>7. Pushed(bytes)[1] \in Seq(Byte)
  <2>1. 1 \in (N + 1) - N .. N + 1 /\ 1 \in Nat \ {0}
    BY <1>1
  <2> QED
    BY Zenon, <1>6, <2>1 DEF S
<1>8. "_" \in Byte
  BY Zenon, LabelsAssumption
<1>9. <<"_">> \o Pushed(bytes)[1] \in Seq(Byte) /\ <<"_">> \in Seq(Byte)
  <2>1. ASSUME NEW b \in Byte PROVE <<b>> \in Seq(Byte)
    OBVIOUS
  <2> QED
    BY Zenon, <1>2, <1>7, <1>8, <2>1
<1> QED
  BY Zenon, <1>7, <1>9 DEF sanitize_name

\* A valid name is its own sanitized name.
LEMMA ValidIsSanitized ==
    ASSUME NEW name \in Seq(Byte), is_valid_label_name(name)
    PROVE  sanitize_name(name) = name
<1> DEFINE N == Len(name)
           Ahead(i) == /\ Pushed(name)[i] \in Seq(Byte) /\ Len(Pushed(name)[i]) = (N + 1) - i
                       /\ \A j \in 1 .. (N + 1) - i : Pushed(name)[i][j] = name[(i + j) - 1]
           S == {n \in Nat : Ahead((N + 1) - n)}
<1>1. /\ N \in Nat /\ DOMAIN name = 1 .. N
      /\ \A i \in 1 .. N : name[i] \in Byte
  OBVIOUS
<1>2. /\ name # <<>> /\ is_label_name_start_byte(name[1])
      /\ \A i \in 1 .. N : is_label_name_byte(name[i])
  BY Zenon, <1>1 DEF is_valid_label_name
<1>3. 0 \in S
  <2>1. (N + 1) - 0 = N + 1 /\ (N + 1) - (N + 1) = 0
    BY <1>1
  <2>2. PICK v : v = Pushed(name)[N + 1]
    BY Zenon
  <2>3. v = <<>>
    BY Zenon, <2>2, PushedValues
  <2>4. v \in Seq(Byte) /\ Len(v) = 0 /\ \A j \in 1 .. 0 : FALSE
    BY <2>3
  <2>5. Ahead((N + 1) - 0)
    BY Zenon, <2>1, <2>2, <2>4
  <2> HIDE DEF Ahead
  <2> QED
    BY <2>5
<1>4. ASSUME NEW n \in Nat, n < N, n \in S PROVE n + 1 \in S
  <2>1. PICK i : i = N - n
    BY Zenon
  <2>2. /\ i \in 1 .. N /\ (N + 1) - n = i + 1 /\ (N + 1) - (n + 1) = i /\ n + 1 \in Nat
    BY <1>1, <1>4, <2>1
  <2>3. go_rune_len(name, i) = 1 /\ PushedByte(name, i) = name[i]
    BY Zenon, <1>2, <2>2, RuneEnds DEF PushedByte
  <2>4. PICK v : v = Pushed(name)[i + 1]
    BY Zenon
  <2>5. PICK w : w = Pushed(name)[i]
    BY Zenon
  <2>6. w = <<name[i]>> \o v
    BY Zenon, <2>2, <2>3, <2>4, <2>5, PushedValues
  <2>7. /\ v \in Seq(Byte) /\ Len(v) = (N + 1) - (i + 1)
        /\ \A j \in 1 .. (N + 1) - (i + 1) : v[j] = name[((i + 1) + j) - 1]
    BY Zenon, <1>4, <2>2, <2>4
  <2>8. PICK b \in Byte : b = name[i]
    BY Zenon, <1>1, <2>2
  <2>9. /\ w \in Seq(Byte) /\ Len(w) = 1 + Len(v) /\ w[1] = b
        /\ \A j \in 1 .. Len(v) : w[j + 1] = v[j]
    <3>1. w = <<b>> \o v
      BY Zenon, <2>6, <2>8
    <3>2. v \in Seq(Byte) /\ b \in Byte
      BY Zenon, <2>7
    <3> QED
      BY ONLY <3>1, <3>2, SMT
  <2>10. Len(w) = (N + 1) - i
    BY <1>1, <2>2, <2>7, <2>9
  <2>11. ASSUME NEW j \in 1 .. (N + 1) - i PROVE w[j] = name[(i + j) - 1]
    <3>1. CASE j = 1
      <4>1. (i + j) - 1 = i
        BY <2>2, <3>1
      <4> QED
        BY Zenon, <2>8, <2>9, <3>1, <4>1
    <3>2. CASE j # 1
      <4>1. /\ j - 1 \in 1 .. (N + 1) - (i + 1) /\ (j - 1) + 1 = j
            /\ ((i + 1) + (j - 1)) - 1 = (i + j) - 1
        BY <1>1, <2>2, <3>2
      <4> QED
        BY Zenon, <2>7, <2>9, <4>1
    <3> QED
      BY Zenon, <3>1, <3>2
  <2>12. Ahead(i)
    BY Zenon, <2>5, <2>9, <2>10, <2>11
  <2> HIDE DEF Ahead
  <2> QED
    BY Zenon, <2>2, <2>12
<1> HIDE DEF S, N
<1>5. N \in S
  <2>1. N \in 0 .. N
    BY <1>1
  <2> QED
    BY Zenon, <1>1, <1>3, <1>4, <2>1, InductionUpTo
<1>6. PICK out : out = Pushed(name)[1]
  BY Zenon
<1>7. /\ out \in Seq(Byte) /\ Len(out) = (N + 1) - 1
      /\ \A j \in 1 .. (N + 1) - 1 : out[j] = name[(1 + j) - 1]
  <2>1. (N + 1) - N = 1
    BY <1>1
  <2> QED
    BY Zenon, <1>5, <1>6, <2>1 DEF S
<1>8. out = name
  <2>1. name \in Seq(Byte) /\ N = Len(name)
    BY Zenon DEF N
  <2> QED
    BY ONLY <1>1, <1>7, <2>1, SMT
<1> QED
  BY Zenon, <1>2, <1>6, <1>8 DEF sanitize_name

\* A list of label names a family may have.
GoodNames(names) ==
    /\ names \in Seq(Seq(Byte)) /\ IsInjective(names)
    /\ \A i \in DOMAIN names : is_valid_label_name(names[i])

\* Sanitizing such names again changes nothing.
LEMMA GoodNamesStay ==
    ASSUME NEW names, GoodNames(names)
    PROVE  sanitize_label_names(names) = names
<1>1. names \in Seq(Seq(Byte))
  BY Zenon DEF GoodNames
<1>2. \A i \in DOMAIN names : names[i] \in Seq(Byte)
  BY <1>1
<1>3. \A i \in DOMAIN names : sanitize_name(names[i]) = names[i]
  BY Zenon, <1>2, ValidIsSanitized DEF GoodNames
<1>4. names = [i \in DOMAIN names |-> names[i]]
  BY <1>1
<1> QED
  BY Zenon, <1>3, <1>4 DEF sanitize_label_names

\* Two such lists with no name in common make one.
LEMMA GoodNamesJoin ==
    ASSUME NEW left, NEW right, GoodNames(left), GoodNames(right),
           Range(left) \cap Range(right) = {}
    PROVE  /\ GoodNames(left \o right)
           /\ DOMAIN (left \o right) = 1 .. Len(left) + Len(right)
           /\ \A i \in DOMAIN left : i \in DOMAIN (left \o right) /\ (left \o right)[i] = left[i]
           /\ \A i \in DOMAIN right : /\ Len(left) + i \in DOMAIN (left \o right)
                                      /\ (left \o right)[Len(left) + i] = right[i]
           /\ Range(left \o right) = Range(left) \cup Range(right)
<1> DEFINE both == left \o right
           V == Seq(Byte)
<1>1. left \in Seq(V) /\ right \in Seq(V)
  BY Zenon DEF GoodNames
<1> HIDE DEF V
<1>2. /\ Len(left) \in Nat /\ Len(right) \in Nat
      /\ DOMAIN left = 1 .. Len(left) /\ DOMAIN right = 1 .. Len(right)
      /\ both \in Seq(V) /\ DOMAIN both = 1 .. Len(left) + Len(right)
      /\ \A i \in 1 .. Len(left) : both[i] = left[i]
      /\ \A i \in 1 .. Len(right) : both[Len(left) + i] = right[i]
  <2>1. /\ Len(left) \in Nat /\ Len(right) \in Nat
        /\ DOMAIN left = 1 .. Len(left) /\ DOMAIN right = 1 .. Len(right)
        /\ both \in Seq(V) /\ Len(both) = Len(left) + Len(right)
        /\ \A i \in 1 .. Len(left) : both[i] = left[i]
        /\ \A i \in 1 .. Len(right) : both[Len(left) + i] = right[i]
    BY ONLY <1>1, SMT
  <2> QED
    BY ONLY <2>1, SMT
<1> HIDE DEF both
<1>3. \A i \in DOMAIN both : \/ i \in DOMAIN left /\ both[i] = left[i]
                             \/ \E j \in DOMAIN right : i = Len(left) + j /\ both[i] = right[j]
  <2> SUFFICES ASSUME NEW i \in DOMAIN both
               PROVE  \/ i \in DOMAIN left /\ both[i] = left[i]
                      \/ \E j \in DOMAIN right : i = Len(left) + j /\ both[i] = right[j]
    BY Zenon
  <2>1. CASE i \in 1 .. Len(left)
    BY Zenon, <1>2, <2>1
  <2>2. CASE i - Len(left) \in 1 .. Len(right) /\ i = Len(left) + (i - Len(left))
    BY Zenon, <1>2, <2>2
  <2>3. /\ Len(left) \in Nat /\ Len(right) \in Nat
        /\ i \in 1 .. Len(left) + Len(right)
    BY Zenon, <1>2
  <2>4. \/ i \in 1 .. Len(left)
        \/ i - Len(left) \in 1 .. Len(right) /\ i = Len(left) + (i - Len(left))
    BY ONLY <2>3, SMT
  <2> QED
    BY Zenon, <2>1, <2>2, <2>4
<1>4. /\ \A i \in DOMAIN left : i \in DOMAIN both /\ both[i] = left[i]
      /\ \A i \in DOMAIN right : Len(left) + i \in DOMAIN both /\ both[Len(left) + i] = right[i]
  <2>1. Len(left) \in Nat /\ Len(right) \in Nat
    BY Zenon, <1>2
  <2>2. /\ \A i \in 1 .. Len(left) : i \in 1 .. Len(left) + Len(right)
        /\ \A i \in 1 .. Len(right) : Len(left) + i \in 1 .. Len(left) + Len(right)
    BY ONLY <2>1, SMT
  <2> QED
    BY Zenon, <1>2, <2>2
<1>5. Range(both) = Range(left) \cup Range(right)
  <2>1. \A n \in Range(both) : n \in Range(left) \cup Range(right)
    BY Zenon, <1>3 DEF Range
  <2>2. \A n \in Range(left) : n \in Range(both)
    BY Zenon, <1>4 DEF Range
  <2>3. \A n \in Range(right) : n \in Range(both)
    BY Zenon, <1>4 DEF Range
  <2> QED
    BY Zenon, <2>1, <2>2, <2>3
<1>6. \A i \in DOMAIN left, j \in DOMAIN right : left[i] # right[j]
  BY Zenon DEF Range
<1>7. IsInjective(both)
  <2>1. IsInjective(left) /\ IsInjective(right)
    BY Zenon DEF GoodNames
  <2> SUFFICES ASSUME NEW i \in DOMAIN both, NEW j \in DOMAIN both, both[i] = both[j] PROVE i = j
    BY Zenon DEF IsInjective
  <2>2. CASE i \in DOMAIN left /\ both[i] = left[i]
    <3>1. j \in DOMAIN left /\ both[j] = left[j]
      BY Zenon, <1>3, <1>6, <2>2
    <3> QED
      BY Zenon, <2>1, <2>2, <3>1 DEF IsInjective
  <2>3. ASSUME NEW k \in DOMAIN right, i = Len(left) + k, both[i] = right[k] PROVE i = j
    <3>1. PICK m \in DOMAIN right : j = Len(left) + m /\ both[j] = right[m]
      BY Zenon, <1>3, <1>6, <2>3
    <3>2. k = m
      BY Zenon, <2>1, <2>3, <3>1 DEF IsInjective
    <3> QED
      BY Zenon, <2>3, <3>1, <3>2
  <2> QED
    BY Zenon, <1>3, <2>2, <2>3
<1>8. \A i \in DOMAIN both : is_valid_label_name(both[i])
  BY Zenon, <1>3 DEF GoodNames
<1>9. GoodNames(both)
  BY Zenon, <1>2, <1>7, <1>8 DEF GoodNames, V
<1> QED
  BY Zenon, <1>2, <1>4, <1>5, <1>9 DEF both

\* A label set with exactly a family's names fits it.
LEMMA GoodNamesFit ==
    ASSUME NEW names, GoodNames(names), NEW labels, DOMAIN labels = Range(names)
    PROVE  Fits(names, labels)
<1>1. names \in Seq(Seq(Byte)) /\ IsInjective(names)
  BY Zenon DEF GoodNames
<1>2. /\ Len(names) \in Nat /\ names \in [1 .. Len(names) -> Range(names)]
      /\ \A n \in Range(names) : \E i \in 1 .. Len(names) : names[i] = n
  <2>1. Len(names) \in Nat /\ DOMAIN names = 1 .. Len(names) /\ names = [i \in DOMAIN names |-> names[i]]
    BY ONLY <1>1, SMT
  <2>2. names \in [DOMAIN names -> Range(names)]
    BY Zenon, <2>1 DEF Range
  <2> QED
    BY Zenon, <2>1, <2>2 DEF Range
<1>3. names \in Bijection(1 .. Len(names), Range(names))
  BY Zenon, <1>1, <1>2 DEF Bijection, Injection, Surjection
<1>4. Cardinality(Range(names)) = Len(names)
  BY Zenon, <1>2, <1>3, FS_CountingElements DEF ExistsBijection
<1> QED
  BY Zenon, <1>4 DEF Fits

\* A function on 1 .. count is a sequence.
LEMMA FunctionIsSequence ==
    ASSUME NEW V, NEW count \in Nat, NEW f \in [1 .. count -> V]
    PROVE  f \in Seq(V)
OBVIOUS

\* Accepted labels are good names, none of them reserved.
LEMMA AcceptedNames ==
    ASSUME NEW raw \in Seq(Seq(Byte)), validate_custom_labels(raw)
    PROVE  /\ GoodNames(sanitized_names(raw)) /\ DOMAIN sanitized_names(raw) = DOMAIN raw
           /\ \A i \in DOMAIN raw : sanitized_names(raw)[i] = sanitize_name(raw[i])
           /\ Range(sanitized_names(raw)) \cap RESERVED_LABEL_NAMES = {}
<1> DEFINE names == sanitized_names(raw)
<1>1. /\ DOMAIN names = DOMAIN raw
      /\ \A i \in DOMAIN raw : names[i] = sanitize_name(raw[i])
  BY Zenon DEF sanitized_names, sanitize_label_names
<1>2. \A i \in DOMAIN raw : raw[i] \in Seq(Byte)
  OBVIOUS
<1>3. \A i \in DOMAIN raw : sanitize_name(raw[i]) \in Seq(Byte)
  BY Zenon, <1>2, SanitizedBytes
<1>4. names \in Seq(Seq(Byte))
  <2>1. PICK V : V = Seq(Byte)
    BY Zenon
  <2>2. DOMAIN raw = 1 .. Len(raw) /\ Len(raw) \in Nat
    OBVIOUS
  <2>3. names = [i \in 1 .. Len(raw) |-> sanitize_name(raw[i])]
    BY Zenon, <2>2 DEF sanitized_names, sanitize_label_names
  <2>4. \A i \in 1 .. Len(raw) : sanitize_name(raw[i]) \in V
    BY Zenon, <1>3, <2>1, <2>2
  <2>5. names \in [1 .. Len(raw) -> V]
    BY Zenon, <2>3, <2>4
  <2> HIDE DEF names
  <2>6. names \in Seq(V)
    BY Zenon, <2>2, <2>5, FunctionIsSequence
  <2> QED
    BY Zenon, <2>1, <2>6
<1>5. \A i \in DOMAIN raw :
        /\ is_valid_label_name(sanitize_name(raw[i]))
        /\ \A j \in 1 .. i - 1 : sanitize_name(raw[j]) # sanitize_name(raw[i])
        /\ sanitize_name(raw[i]) \notin RESERVED_LABEL_NAMES
  BY Zenon DEF validate_custom_labels, validate_and_sanitize_label_names
<1> HIDE DEF names
<1>6. IsInjective(names)
  <2> SUFFICES ASSUME NEW i \in DOMAIN names, NEW j \in DOMAIN names, names[i] = names[j]
               PROVE  i = j
    BY Zenon DEF IsInjective
  <2>1. i \in DOMAIN raw /\ j \in DOMAIN raw /\ sanitize_name(raw[i]) = sanitize_name(raw[j])
    BY Zenon, <1>1
  <2>2. i = j \/ i \in 1 .. j - 1 \/ j \in 1 .. i - 1
    BY <2>1
  <2> QED
    BY Zenon, <1>5, <2>1, <2>2
<1>7. GoodNames(names)
  BY Zenon, <1>1, <1>4, <1>5, <1>6 DEF GoodNames
<1>8. Range(names) \cap RESERVED_LABEL_NAMES = {}
  BY Zenon, <1>1, <1>5 DEF Range
<1> QED
  BY Zenon, <1>1, <1>7, <1>8 DEF names

\* The exporter's own names are good ones.
LEMMA OwnNames ==
    /\ GoodNames(BASE) /\ GoodNames(<<STATE_LABEL>>) /\ GoodNames(<<>>)
    /\ Range(<<STATE_LABEL>>) = {STATE_LABEL} /\ Range(<<>>) = {}
    /\ STATE_LABEL \notin Range(BASE)
<1>1. /\ BASE \in Seq(Seq(Byte)) /\ IsInjective(BASE)
      /\ STATE_LABEL \in Seq(Byte) /\ STATE_LABEL \notin Range(BASE)
      /\ \A name \in Range(BASE) \cup {STATE_LABEL} : is_valid_label_name(name)
  BY Zenon, LabelsAssumption DEF RESERVED_LABEL_NAMES
<1>2. GoodNames(BASE)
  <2>1. \A i \in DOMAIN BASE : BASE[i] \in Range(BASE)
    BY Zenon DEF Range
  <2> QED
    BY Zenon, <1>1, <2>1 DEF GoodNames
<1>3. /\ DOMAIN <<STATE_LABEL>> = {1} /\ <<STATE_LABEL>>[1] = STATE_LABEL
      /\ DOMAIN <<>> = {}
  OBVIOUS
<1>4. Range(<<STATE_LABEL>>) = {STATE_LABEL} /\ Range(<<>>) = {}
  BY Zenon, <1>3 DEF Range
<1>5. \A V : \A v \in V : <<v>> \in Seq(V) /\ <<>> \in Seq(V)
  OBVIOUS
<1>6. <<STATE_LABEL>> \in Seq(Seq(Byte)) /\ <<>> \in Seq(Seq(Byte))
  BY Zenon, <1>1, <1>5
<1>7. IsInjective(<<STATE_LABEL>>) /\ IsInjective(<<>>)
  BY Zenon, <1>3 DEF IsInjective
<1>8. GoodNames(<<STATE_LABEL>>) /\ GoodNames(<<>>)
  BY Zenon, <1>1, <1>3, <1>6, <1>7 DEF GoodNames
<1> QED
  BY Zenon, <1>1, <1>2, <1>4, <1>8

\* What a service's label set holds, with accepted custom labels.
LEMMA LabelSet ==
    ASSUME NEW raw \in Seq(Seq(Byte)), validate_custom_labels(raw)
    PROVE  /\ DOMAIN labels_for_metadata(raw) = Range(BASE) \cup Range(sanitized_names(raw))
           /\ \A name \in Range(BASE) : labels_for_metadata(raw)[name] = [field |-> name]
           /\ \A i \in DOMAIN raw : labels_for_metadata(raw)[sanitize_name(raw[i])] = [raw |-> raw[i]]
<1> DEFINE custom == sanitized_names(raw)
           names == sanitize_label_names(BASE \o custom)
           LastOf(name) == Max({i \in DOMAIN names : names[i] = name})
           labels == labels_for_metadata(raw)
<1>1. labels = [name \in Range(names) |->
                    IF LastOf(name) <= Len(BASE) THEN [field |-> name]
                    ELSE [raw |-> raw[LastOf(name) - Len(BASE)]]]
  BY Zenon DEF labels_for_metadata
<1> HIDE DEF labels
<1>2. /\ GoodNames(custom) /\ DOMAIN custom = DOMAIN raw
      /\ \A i \in DOMAIN raw : custom[i] = sanitize_name(raw[i])
      /\ Range(custom) \cap RESERVED_LABEL_NAMES = {}
  BY Zenon, AcceptedNames
<1> HIDE DEF custom
<1>3. Range(BASE) \cap Range(custom) = {}
  BY Zenon, <1>2 DEF RESERVED_LABEL_NAMES
<1>4. /\ GoodNames(BASE \o custom)
      /\ DOMAIN (BASE \o custom) = 1 .. Len(BASE) + Len(custom)
      /\ \A i \in DOMAIN BASE : i \in DOMAIN (BASE \o custom) /\ (BASE \o custom)[i] = BASE[i]
      /\ \A i \in DOMAIN custom : /\ Len(BASE) + i \in DOMAIN (BASE \o custom)
                                  /\ (BASE \o custom)[Len(BASE) + i] = custom[i]
      /\ Range(BASE \o custom) = Range(BASE) \cup Range(custom)
  BY Zenon, <1>2, <1>3, OwnNames, GoodNamesJoin
<1>5. names = BASE \o custom
  BY Zenon, <1>4, GoodNamesStay
<1> HIDE DEF names
<1>6. /\ GoodNames(names) /\ Range(names) = Range(BASE) \cup Range(custom)
      /\ \A i \in DOMAIN BASE : i \in DOMAIN names /\ names[i] = BASE[i]
      /\ \A i \in DOMAIN custom : Len(BASE) + i \in DOMAIN names /\ names[Len(BASE) + i] = custom[i]
  BY Zenon, <1>4, <1>5
<1>7. /\ Len(BASE) \in Nat /\ DOMAIN BASE = 1 .. Len(BASE)
      /\ Len(raw) \in Nat /\ DOMAIN raw = 1 .. Len(raw)
      /\ DOMAIN names \subseteq Nat
  <2>1. BASE \in Seq(Seq(Byte)) /\ names \in Seq(Seq(Byte))
    BY Zenon, <1>6, OwnNames DEF GoodNames
  <2> QED
    BY <2>1
<1>8. \A i \in DOMAIN names : LastOf(names[i]) = i
  <2> SUFFICES ASSUME NEW i \in DOMAIN names PROVE LastOf(names[i]) = i
    BY Zenon
  <2>1. {j \in DOMAIN names : names[j] = names[i]} = {i}
    BY Zenon, <1>6 DEF GoodNames, IsInjective
  <2>2. Max({i}) = i
    <3>1. i \in Nat
      BY Zenon, <1>7
    <3> QED
      BY ONLY <3>1, SMT DEF Max
  <2> QED
    BY Zenon, <2>1, <2>2
<1> HIDE DEF LastOf
<1>9. \A name \in Range(BASE) : labels[name] = [field |-> name]
  <2> SUFFICES ASSUME NEW i \in DOMAIN BASE PROVE labels[BASE[i]] = [field |-> BASE[i]]
    BY Zenon DEF Range
  <2>1. i \in DOMAIN names /\ names[i] = BASE[i] /\ BASE[i] \in Range(names)
    BY Zenon, <1>6 DEF Range
  <2>2. LastOf(BASE[i]) <= Len(BASE)
    <3>1. LastOf(BASE[i]) = i
      BY Zenon, <1>8, <2>1
    <3> QED
      BY <1>7, <3>1
  <2> QED
    BY Zenon, <1>1, <2>1, <2>2
<1>10. \A i \in DOMAIN raw : labels[sanitize_name(raw[i])] = [raw |-> raw[i]]
  <2> SUFFICES ASSUME NEW i \in DOMAIN raw PROVE labels[custom[i]] = [raw |-> raw[i]]
    BY Zenon, <1>2
  <2>1. /\ Len(BASE) + i \in DOMAIN names /\ names[Len(BASE) + i] = custom[i]
        /\ custom[i] \in Range(names)
    BY Zenon, <1>2, <1>6 DEF Range
  <2>2. LastOf(custom[i]) = Len(BASE) + i
    BY Zenon, <1>8, <2>1
  <2>3. ~(LastOf(custom[i]) <= Len(BASE)) /\ LastOf(custom[i]) - Len(BASE) = i
    BY <1>7, <2>2
  <2> QED
    BY Zenon, <1>1, <2>1, <2>3
<1> QED
  BY Zenon, <1>1, <1>6, <1>9, <1>10 DEF labels, custom

\* Every family's names are good, and they are those of the label sets written to it.
LEMMA FamilyNames ==
    ASSUME NEW raw \in Seq(Seq(Byte)), validate_custom_labels(raw),
           NEW own, own = Range(BASE) \cup Range(sanitized_names(raw))
    PROVE  /\ GoodNames(ReplicaGaugesNames(raw)) /\ Range(ReplicaGaugesNames(raw)) = own
           /\ GoodNames(ReplicasStateNames(raw, FALSE)) /\ Range(ReplicasStateNames(raw, FALSE)) = own
           /\ GoodNames(ServiceUpdateNames(raw, FALSE)) /\ Range(ServiceUpdateNames(raw, FALSE)) = own
           /\ GoodNames(ReplicasStateNames(raw, TRUE))
           /\ Range(ReplicasStateNames(raw, TRUE)) = own \cup {STATE_LABEL}
           /\ GoodNames(ServiceUpdateNames(raw, TRUE))
           /\ Range(ServiceUpdateNames(raw, TRUE)) = own \cup {STATE_LABEL}
<1> DEFINE custom == sanitized_names(raw)
           Joined(p, q) == GoodNames(p \o q) /\ Range(p \o q) = Range(p) \cup Range(q)
<1>1. GoodNames(custom) /\ Range(custom) \cap RESERVED_LABEL_NAMES = {}
  BY Zenon, AcceptedNames
<1>2. own = Range(BASE) \cup Range(custom)
  BY Zenon
<1> HIDE DEF custom
<1>3. Range(BASE) \cap Range(custom) = {} /\ STATE_LABEL \notin Range(custom)
  BY Zenon, <1>1 DEF RESERVED_LABEL_NAMES
<1>4. \A p, q : GoodNames(p) /\ GoodNames(q) /\ Range(p) \cap Range(q) = {} => Joined(p, q)
  BY Zenon, GoodNamesJoin
<1> HIDE DEF Joined
<1>5. Joined(BASE, custom) /\ Joined(BASE, <<>>) /\ Joined(BASE, <<STATE_LABEL>>)
  BY Zenon, <1>1, <1>3, <1>4, OwnNames
<1>6. /\ GoodNames(BASE \o custom) /\ Range(BASE \o custom) = own
      /\ GoodNames(BASE \o <<>>) /\ Range(BASE \o <<>>) = Range(BASE)
      /\ GoodNames(BASE \o <<STATE_LABEL>>)
      /\ Range(BASE \o <<STATE_LABEL>>) = Range(BASE) \cup {STATE_LABEL}
  BY Zenon, <1>2, <1>5, OwnNames DEF Joined
<1>7. Joined(BASE \o <<>>, custom)
  BY Zenon, <1>1, <1>3, <1>4, <1>6
<1>8. Joined(BASE \o <<STATE_LABEL>>, custom)
  <2>1. Range(BASE \o <<STATE_LABEL>>) \cap Range(custom) = {}
    BY Zenon, <1>3, <1>6
  <2> QED
    BY Zenon, <1>1, <1>4, <1>6, <2>1
<1>9. Joined(BASE \o custom, <<>>)
  <2>1. Range(BASE \o custom) \cap Range(<<>>) = {}
    BY Zenon, OwnNames
  <2> QED
    BY Zenon, <1>4, <1>6, <2>1, OwnNames
<1>10. Joined(BASE \o custom, <<STATE_LABEL>>)
  <2>1. Range(BASE \o custom) \cap Range(<<STATE_LABEL>>) = {}
    BY Zenon, <1>2, <1>3, <1>6, OwnNames
  <2> QED
    BY Zenon, <1>4, <1>6, <2>1, OwnNames
<1>11. /\ ReplicaGaugesNames(raw) = BASE \o custom
       /\ ServiceUpdateNames(raw, FALSE) = (BASE \o custom) \o <<>>
       /\ ServiceUpdateNames(raw, TRUE) = (BASE \o custom) \o <<STATE_LABEL>>
  BY Zenon, <1>6, GoodNamesStay DEF ReplicaGaugesNames, ServiceUpdateNames, custom
<1>12. ReplicasStateNames(raw, FALSE) = (BASE \o <<>>) \o custom
  BY Zenon, <1>7, GoodNamesStay DEF ReplicasStateNames, Joined, custom
<1>13. ReplicasStateNames(raw, TRUE) = (BASE \o <<STATE_LABEL>>) \o custom
  BY Zenon, <1>8, GoodNamesStay DEF ReplicasStateNames, Joined, custom
<1>14. /\ GoodNames(ReplicaGaugesNames(raw)) /\ Range(ReplicaGaugesNames(raw)) = own
  BY Zenon, <1>6, <1>11
<1>15. /\ GoodNames(ReplicasStateNames(raw, FALSE)) /\ Range(ReplicasStateNames(raw, FALSE)) = own
  BY Zenon, <1>2, <1>6, <1>7, <1>12 DEF Joined
<1>16. GoodNames(ServiceUpdateNames(raw, FALSE)) /\ Range(ServiceUpdateNames(raw, FALSE)) = own
  BY Zenon, <1>6, <1>9, <1>11, OwnNames DEF Joined
<1>17. /\ GoodNames(ReplicasStateNames(raw, TRUE))
       /\ Range(ReplicasStateNames(raw, TRUE)) = own \cup {STATE_LABEL}
  BY Zenon, <1>2, <1>6, <1>8, <1>13 DEF Joined
<1>18. /\ GoodNames(ServiceUpdateNames(raw, TRUE))
       /\ Range(ServiceUpdateNames(raw, TRUE)) = own \cup {STATE_LABEL}
  BY Zenon, <1>6, <1>10, <1>11, OwnNames DEF Joined
<1> QED
  BY Zenon, <1>14, <1>15, <1>16, <1>17, <1>18

\* With accepted labels every family has distinct valid names and every label set written
\* to it has exactly these, each with the value of its own source.
LEMMA WrittenFits ==
    ASSUME NEW raw \in Seq(Seq(Byte)), validate_custom_labels(raw), NEW w \in Written(raw)
    PROVE  /\ Fits(w[1], w[2]) /\ IsInjective(w[1])
           /\ \A name \in Range(w[1]) : is_valid_label_name(name)
           /\ \A name \in Range(BASE) : w[2][name] = [field |-> name]
           /\ \A i \in DOMAIN raw : w[2][sanitize_name(raw[i])] = [raw |-> raw[i]]
<1> DEFINE own == Range(BASE) \cup Range(sanitized_names(raw))
           base == labels_for_metadata(raw)
           state == clone_labels_with_state(base)
           Holds(labels) == /\ \A name \in Range(BASE) : labels[name] = [field |-> name]
                            /\ \A i \in DOMAIN raw : labels[sanitize_name(raw[i])] = [raw |-> raw[i]]
<1>1. PICK names, labels : <<names, labels>> = w /\
        \/ labels = base /\ names \in {ReplicaGaugesNames(raw), ReplicasStateNames(raw, FALSE),
                                       ServiceUpdateNames(raw, FALSE)}
        \/ labels = state /\ names \in {ReplicasStateNames(raw, TRUE), ServiceUpdateNames(raw, TRUE)}
  BY Zenon DEF Written
<1>2. w[1] = names /\ w[2] = labels
  BY <1>1
<1>3. DOMAIN base = own /\ Holds(base)
  BY Zenon, LabelSet
<1> HIDE DEF base
<1>4. DOMAIN state = own \cup {STATE_LABEL} /\ Holds(state)
  <2>1. /\ DOMAIN state = own \cup {STATE_LABEL}
        /\ \A name \in own : name # STATE_LABEL => state[name] = base[name]
    BY Zenon, <1>3 DEF clone_labels_with_state
  <2>2. /\ \A i \in DOMAIN raw : sanitize_name(raw[i]) \in Range(sanitized_names(raw))
        /\ Range(sanitized_names(raw)) \cap RESERVED_LABEL_NAMES = {}
    BY Zenon, AcceptedNames DEF Range
  <2>3. /\ \A name \in Range(BASE) : name \in own /\ name # STATE_LABEL
        /\ \A i \in DOMAIN raw : sanitize_name(raw[i]) \in own /\ sanitize_name(raw[i]) # STATE_LABEL
    BY Zenon, <2>2, OwnNames DEF RESERVED_LABEL_NAMES
  <2> HIDE DEF state, own
  <2> QED
    BY Zenon, <1>3, <2>1, <2>3
<1> HIDE DEF state
<1>5. GoodNames(names) /\ DOMAIN labels = Range(names) /\ Holds(labels)
  <2>2. CASE labels = base
    BY Zenon, <1>1, <1>3, <1>4, FamilyNames
  <2> QED
    BY Zenon, <1>1, <1>3, <1>4, <2>2, FamilyNames
<1>6. Fits(names, labels)
  BY Zenon, <1>5, GoodNamesFit
<1>7. IsInjective(names) /\ \A name \in Range(names) : is_valid_label_name(name)
  BY Zenon, <1>5 DEF GoodNames, Range
<1> QED
  BY Zenon, <1>2, <1>5, <1>6, <1>7

\* No series of an exporter with accepted labels fails to be built or panics in `must`
\* (validate_custom_labels, labels_for_metadata, values_in_order), for every list of custom
\* labels and whatever their bytes.
THEOREM FamiliesCorrect == LSpec => []FamiliesFit
<1>1. GivenInv => FamiliesFit
  <2> SUFFICES ASSUME GivenInv, pc = "watch" PROVE FamiliesFit
    BY Zenon DEF FamiliesFit
  <2>1. Given \in Inputs /\ validate_custom_labels(Given.labels)
    BY Zenon DEF GivenInv, Given
  <2>2. Given.labels \in Seq(Seq(Byte))
    BY Zenon, <2>1, InputsAssumption
  <2> QED
    BY Zenon, <2>1, <2>2, WrittenFits DEF FamiliesFit
<1> QED
  BY <1>1, GivenInvariant, PTL

=============================================================================
