---------------------------- MODULE DockerClient -----------------------------
(* The Docker client the tasks share: one connection, made and negotiated by  *)
(* whichever call comes first, and calls that are bounded by their caller's   *)
(* deadline.  The OnceCell gives its permit in the order of arrival, and a    *)
(* call that is dropped gives it back.  Time is counted per call.             *)
(* Source: src/docker/api.rs and error.rs.                                    *)
EXTENDS Naturals, Sequences, FiniteSets

CONSTANTS
    Caller,        \* the tasks; each has one call at a time
    Timeout,       \* DOCKER_REQUEST_TIMEOUT and EVENTS_CONNECT_TIMEOUT, in ticks
    MaxFaults      \* bound: failures, silences and restarts of the daemon

ASSUME ClientAssumption == Timeout \in Nat \ {0} /\ MaxFaults \in Nat

VARIABLES
    docker,        \* the OnceCell is set
    permits,       \* the calls at the cell, the first is connecting
    call,          \* each caller's call
    left,          \* ticks to its deadline
    age,           \* history: ticks since it began
    up,            \* the daemon answers
    faults         \* bound used up

cell == <<docker, permits>>
cvars == <<cell, call, left, age, up, faults>>

Pending == {"cell", "request"}

CInit ==
    /\ docker = FALSE /\ permits = <<>>
    /\ call = [c \in Caller |-> "idle"]
    /\ left = [c \in Caller |-> 0] /\ age = [c \in Caller |-> 0]
    /\ up = TRUE /\ faults = 0

Fault == faults < MaxFaults /\ faults' = faults + 1

\* The deadline is set before the connection is asked for.
BeginCall(c) ==
    /\ call' = [call EXCEPT ![c] = IF docker THEN "request" ELSE "cell"]
    /\ permits' = IF docker THEN permits ELSE Append(permits, c)
    /\ left' = [left EXCEPT ![c] = Timeout] /\ age' = [age EXCEPT ![c] = 0]
    /\ UNCHANGED <<docker, up, faults>>

\* Slip: the request gets the whole timeout again.
NegotiatedAnew ==
    /\ up /\ permits # <<>>
    /\ docker' = TRUE /\ permits' = <<>>
    /\ call' = [c \in Caller |-> IF call[c] = "cell" THEN "request" ELSE call[c]]
    /\ left' = [c \in Caller |-> IF call[c] = "cell" THEN Timeout ELSE left[c]]
    /\ UNCHANGED <<age, up, faults>>

\* connection(): negotiated, or refused, which keeps the client's own version.  Who
\* waits at the cell goes on with what is left of its time.
Negotiated ==
    /\ up /\ permits # <<>>
    /\ docker' = TRUE /\ permits' = <<>>
    /\ call' = [c \in Caller |-> IF call[c] = "cell" THEN "request" ELSE call[c]]
    /\ UNCHANGED <<left, age, up, faults>>

Answered(c) ==
    /\ up /\ call[c] = "request"
    /\ call' = [call EXCEPT ![c] = "ok"]
    /\ UNCHANGED <<cell, left, age, up, faults>>

\* A call that ends gives the permit to the next, which connects itself.
Fail(c) ==
    /\ call' = [call EXCEPT ![c] = "failed"]
    /\ permits' = SelectSeq(permits, LAMBDA p : p # c)
    /\ UNCHANGED <<docker, left, age, up>>

\* No socket, a connection refused or broken, an error status.
CallFails(c) ==
    /\ call[c] = "request" \/ (call[c] = "cell" /\ c = Head(permits))
    /\ Fault /\ Fail(c)

\* with_bare_timeout, and timeout_at in events.
TimesOut(c) ==
    /\ call[c] \in Pending /\ left[c] = 0
    /\ Fail(c) /\ UNCHANGED faults

Return(c, next) ==
    /\ call[c] \in {"ok", "failed"}
    /\ call' = [call EXCEPT ![c] = next]
    /\ left' = [left EXCEPT ![c] = 0] /\ age' = [age EXCEPT ![c] = 0]
    /\ UNCHANGED <<cell, up, faults>>

\* The daemon stops answering, and answers again.
Silence == up /\ Fault /\ up' = FALSE /\ UNCHANGED <<cell, call, left, age>>
Recover == ~up /\ up' = TRUE /\ UNCHANGED <<cell, call, left, age, faults>>

\* What happens before time passes.
ClientReady ==
    \/ up /\ (permits # <<>> \/ \E c \in Caller : call[c] = "request")
    \/ \E c \in Caller : call[c] \in {"ok", "failed"} \/ (call[c] \in Pending /\ left[c] = 0)

ClientTick ==
    /\ left' = [c \in Caller |-> IF call[c] \in Pending THEN left[c] - 1 ELSE left[c]]
    /\ age' = [c \in Caller |-> IF call[c] \in Pending THEN age[c] + 1 ELSE age[c]]
    /\ call' = [c \in Caller |-> IF call[c] = "rest" THEN "idle" ELSE call[c]]
    /\ UNCHANGED <<cell, up, faults>>

\* Every call answers its caller within the timeout, although another call may be
\* the one that connects and negotiates: with_docker_timeout and the one deadline
\* of events cover the wait for the connection.
CallsEndInTime == \A c \in Caller : call[c] \in Pending => age[c] <= Timeout

=============================================================================
