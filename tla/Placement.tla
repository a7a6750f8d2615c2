------------------------------ MODULE Placement ------------------------------
(***************************************************************************)
(* Which nodes a task may be placed on, and the replica counts that follow *)
(* (src/collector/desired.rs, with service_mode and job_total_completions  *)
(* of src/collector/types.rs).  The operators have no state; ReplicaGauges *)
(* and TaskCounting use them.                                              *)
(*                                                                         *)
(* A text is a value of Text and Fold gives its case-folded form; an       *)
(* address text denotes the set of addresses Addresses(text), empty when   *)
(* it is neither an address nor a subnet.                                  *)
(***************************************************************************)
EXTENDS Naturals, FiniteSets

CONSTANTS
    Text,           \* label values, roles, names, operating systems
    Empty,          \* the empty text
    Fold(_),        \* to_lower and equal_fold: the case-folded form of a text
    Addresses(_)    \* the addresses an IP literal or a CIDR stands for

ASSUME TextAssumption ==
    /\ Empty \in Text
    /\ \A t \in Text : Fold(t) \in Text /\ Fold(Fold(t)) = Fold(t)
    /\ Fold(Empty) = Empty

Modes == {"replicated", "global", "replicated-job", "global-job"}
JobModes == {"replicated-job", "global-job"}

\* The fields a constraint can name, and a key that is none of them.
Fields == {"node.id", "node.hostname", "node.role", "node.platform.os", "node.platform.arch"}
LabelKeys == {"node.labels", "engine.labels"}
Keys == Fields \cup LabelKeys \cup {"node.ip", "unknown"}

\* A constraint as parse_constraint splits it: `label` is the name after the
\* prefix of a label key.  A text without an operator, or with nothing on one
\* side of it, is malformed.
MalformedConstraint == [key |-> "malformed"]

is_job_mode(mode) == mode \in JobModes

\* An optional number is a set of at most one.
Optional(number) == {{}} \cup {{n} : n \in number}
OrElse(option, default) == IF option = {} THEN default ELSE CHOOSE n \in option : TRUE

job_total_completions(spec) ==
    OrElse(spec.total_completions, OrElse(spec.max_concurrent, 1))

\* What the cache keeps of a service spec.  A replicated service without
\* Replicas makes build_metadata panic: see WellFormed.
build_metadata(spec) ==
    [service_mode |-> spec.mode,
     configured_replicas |->
         CASE spec.mode = "replicated" -> OrElse(spec.replicas, 0)
           [] spec.mode = "replicated-job" -> job_total_completions(spec)
           [] OTHER -> 0,
     job_iteration |-> spec.iteration,
     constraints |-> spec.constraints,
     platforms |-> spec.platforms,
     restart_condition_none |-> spec.restart_condition = "none"]

WellFormed(spec) == spec.mode = "replicated" => spec.replicas # {}

\* The constraints and platforms that build_metadata copies; a service without
\* any has no placement.
NoPlacement(metadata) == metadata.constraints = {} /\ metadata.platforms = {}

is_node_schedulable(node) == node.state = "ready" /\ node.availability = "active"

\* The GOARCH name of what a node reports as `uname -m`.
normalize_arch(arch) ==
    LET a == Fold(arch) IN
    CASE a \in {"x86_64", "x86-64", "amd64"} -> "amd64"
      [] a \in {"aarch64", "arm64"} -> "arm64"
      [] a \in {"i386", "i686", "386"} -> "386"
      [] a \in {"armv7l", "armv7", "armhf", "arm"} -> "arm"
      [] OTHER -> a

platform_matches(node, required) ==
    \E platform \in required :
      /\ platform.os = Empty \/ Fold(platform.os) = Fold(node.os)
      /\ platform.arch = Empty \/ normalize_arch(platform.arch) = normalize_arch(node.arch)

match_constraint_value(operator, expected, candidate) ==
    (Fold(expected) = Fold(candidate)) <=> (operator = "==")

\* Slip: a value that is no address is compared like an address nobody has.
match_any_ip_constraint(operator, expected, addr) ==
    (Addresses(addr) # {} /\ Addresses(addr) \subseteq Addresses(expected)) <=> (operator = "==")

\* An address that does not parse is contained in nothing.
match_node_ip_constraint(operator, expected, addr) ==
    /\ Addresses(expected) # {}
    /\ (Addresses(addr) # {} /\ Addresses(addr) \subseteq Addresses(expected)) <=> (operator = "==")

\* What the key of a constraint names on the node; a missing label is empty.
Candidate(node, constraint) ==
    CASE constraint.key = "node.id" -> node.id
      [] constraint.key = "node.hostname" -> node.hostname
      [] constraint.key = "node.role" -> node.role
      [] constraint.key = "node.platform.os" -> node.os
      [] constraint.key = "node.platform.arch" -> node.arch
      [] constraint.key = "node.labels" -> node.labels[constraint.label]
      [] constraint.key = "engine.labels" -> node.engine[constraint.label]

node_matches_constraint(node, constraint) ==
    \/ /\ constraint.key = "node.ip"
       /\ match_node_ip_constraint(constraint.operator, constraint.expected, node.addr)
    \/ /\ constraint.key \in Fields \cup LabelKeys
       /\ match_constraint_value(constraint.operator, constraint.expected,
                                 Candidate(node, constraint))

constraints_match(node, constraints) ==
    \A constraint \in constraints :
        constraint # MalformedConstraint /\ node_matches_constraint(node, constraint)

\* Slip: paused and drained nodes count.
node_eligible_ready(node, metadata) ==
    /\ node.state = "ready"
    /\ \/ NoPlacement(metadata)
       \/ /\ metadata.platforms = {} \/ platform_matches(node, metadata.platforms)
          /\ constraints_match(node, metadata.constraints)

node_eligible(node, metadata) ==
    /\ is_node_schedulable(node)
    /\ \/ NoPlacement(metadata)
       \/ /\ metadata.platforms = {} \/ platform_matches(node, metadata.platforms)
          /\ constraints_match(node, metadata.constraints)

Eligible(nodes, metadata) == {n \in nodes : node_eligible(n, metadata)}

\* <<desired, schedulable>>, before set_schedulable has its say.
replica_counts(metadata, nodes) ==
    LET eligible == Cardinality(Eligible(nodes, metadata))
        configured == metadata.configured_replicas
        Least == IF configured < eligible THEN configured ELSE eligible IN
    CASE metadata.service_mode = "replicated" -> <<configured, Least>>
      [] metadata.service_mode = "replicated-job" -> <<configured, configured>>
      [] OTHER -> <<eligible, eligible>>

\* set_schedulable: nothing keeps the tasks of these services running.
schedulable_value(metadata, value) ==
    IF metadata.restart_condition_none \/ is_job_mode(metadata.service_mode) THEN 0 ELSE value

=============================================================================
