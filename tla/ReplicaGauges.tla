---------------------------- MODULE ReplicaGauges ----------------------------
(***************************************************************************)
(* The desired and schedulable gauges of one service as the reconciler     *)
(* writes them: apply_service from the cached nodes, apply_nodes from the  *)
(* cached metadata, remove_service (src/collector/reconciler/mod.rs) over  *)
(* the placement rules of src/collector/desired.rs.                        *)
(*                                                                         *)
(* Reconciler abstracts the counts to the spec and the nodes they are      *)
(* computed from; here they are computed.                                  *)
(***************************************************************************)
EXTENDS Placement

CONSTANTS
    ServiceSpecs,   \* what the service may be specified as
    NodeLists,      \* the node lists the daemon may answer with
    NoSpec          \* the service is not cached

\* What parse_constraint makes of a text that has an operator.
ParsedConstraint(c) ==
    /\ c = [key |-> c.key, label |-> c.label, operator |-> c.operator,
            expected |-> c.expected]
    /\ c.key \in Keys /\ c.operator \in {"==", "!="}

\* Docker's lists are finite, its counts not negative.
ASSUME ListsAssumption ==
    /\ \A list \in NodeLists : IsFiniteSet(list)
    /\ \A spec \in ServiceSpecs :
         /\ spec.replicas \cup spec.total_completions \cup spec.max_concurrent \subseteq Nat
         /\ \A c \in spec.constraints : c = MalformedConstraint \/ ParsedConstraint(c)

VARIABLES
    metadata,               \* the cached metadata, or NoSpec
    nodes,                  \* the cached nodes
    desired, schedulable    \* the gauges; {} when there is no series

gvars == <<metadata, nodes, desired, schedulable>>

GInit ==
    /\ metadata = NoSpec /\ nodes = {}
    /\ desired = {} /\ schedulable = {}

\* set_desired and set_schedulable with the counts of replica_counts.
SetGauges(meta, list) ==
    LET counts == replica_counts(meta, list) IN
    /\ desired' = {counts[1]}
    /\ schedulable' = {schedulable_value(meta, counts[2])}

\* A malformed service panics before anything is written.
ApplyService(spec) ==
    /\ WellFormed(spec)
    /\ metadata' = build_metadata(spec)
    /\ SetGauges(build_metadata(spec), nodes)
    /\ UNCHANGED nodes

\* The nodes are cached, then the counts of every cached service recomputed.
ApplyNodes(list) ==
    /\ nodes' = list
    /\ IF metadata = NoSpec
       THEN UNCHANGED <<desired, schedulable>>
       ELSE SetGauges(metadata, list)
    /\ UNCHANGED metadata

RemoveService ==
    /\ metadata # NoSpec
    /\ metadata' = NoSpec
    /\ desired' = {} /\ schedulable' = {}
    /\ UNCHANGED nodes

GNext ==
    \/ \E spec \in ServiceSpecs : ApplyService(spec)
    \/ \E list \in NodeLists : ApplyNodes(list)
    \/ RemoveService

GSpec == GInit /\ [][GNext]_gvars

-----------------------------------------------------------------------------
(* Properties *)

\* A list in which some nodes of the cached one became unschedulable, and
\* nothing else changed.
Drained(before, after) ==
    \A n \in after : n \in before \/ ~is_node_schedulable(n)

\* What a change of the nodes may do to the gauges of a service: draining nodes never
\* raises a count, whatever constraints the service has, and the desired count of the
\* modes that PollVerdict::accepts judges without looking at the nodes never moves.
NodeChangesAreContained ==
    [][metadata # NoSpec /\ metadata' = metadata =>
         /\ Drained(nodes, nodes') =>
              /\ \A d \in desired, e \in desired' : e <= d
              /\ \A m \in schedulable, p \in schedulable' : p <= m
         /\ metadata.service_mode \in {"replicated", "replicated-job"} =>
              desired' = desired]_gvars

Negated(constraint) ==
    [constraint EXCEPT !.operator = IF @ = "==" THEN "!=" ELSE "=="]

\* A constraint and its negation exclude each other on every node, and one of
\* them holds unless swarmkit rejects both: an unknown key, or a node.ip value
\* that is neither an address nor a subnet.
ConstraintsAreDecided ==
    metadata # NoSpec =>
      \A n \in nodes, c \in metadata.constraints \ {MalformedConstraint} :
        LET this == constraints_match(n, {c})
            other == constraints_match(n, {Negated(c)}) IN
        /\ ~(this /\ other)
        /\ this \/ other <=>
             /\ c.key # "unknown"
             /\ c.key = "node.ip" => Addresses(c.expected) # {}

=============================================================================
