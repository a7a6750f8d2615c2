--------------------------- MODULE MCPollProtocol ----------------------------
(* Small instances of PollProtocol for TLC. *)
EXTENDS PollProtocol, TLC

CONSTANTS s1, s2, s3, replicated, scaled, global, n1, n2

\* The mode is part of the label identity, the replica count is not.
Mode(spec) == IF spec = global THEN global ELSE replicated
OwnLabels == Service \X {global, replicated}
OwnLabelOf(s, spec) == <<s, Mode(spec)>>

Empty == [s \in Service |-> NoService]
OneReplicated == {[Empty EXCEPT ![s1] = replicated]}
OneGlobal == {[Empty EXCEPT ![s1] = global]}
AllReplicated == {[s \in Service |-> replicated]}

\* Changes and periodic resyncs, two in all.
Budget == spent.changes + spent.periodic <= 2

Symmetry == Permutations(Service) \cup Permutations(NodeSet)

=============================================================================
