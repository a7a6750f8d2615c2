---------------------------- MODULE MCReconciler -----------------------------
(* Small instances of Reconciler for TLC. *)
EXTENDS Reconciler, TLC

CONSTANTS s1, s2, s3, replicated, scaled, global, n1, n2

\* The mode is part of the label identity, the replica count is not.
Mode(spec) == IF spec = global THEN global ELSE replicated
OwnLabels == Service \X {global, replicated}
OwnLabelOf(s, spec) == <<s, Mode(spec)>>

\* A deleted service and its successor of the same name have one identity.
SharedLabels == {global, replicated}
SharedLabelOf(s, spec) == Mode(spec)

Empty == [s \in Service |-> NoService]
OneReplicated == {[Empty EXCEPT ![s1] = replicated]}
OneGlobal == {[Empty EXCEPT ![s1] = global]}
AllReplicated == {[s \in Service |-> replicated]}

\* Changes and faults, three in all.
Budget == spent.changes + spent.faults <= 3

Symmetry == Permutations(Service) \cup Permutations(NodeSet)

=============================================================================
